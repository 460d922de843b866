--------------------------- MODULE SchedulerProofs ---------------------------
(***************************************************************************)
(* The safety of libscheduler.c for any number of tasks, any priorities,   *)
(* quanta, devices and any width of the timer, under every interleaving.   *)
(*                                                                         *)
(* The invariants of Scheduler hold because of facts that no one of them   *)
(* states; IInv adds these, and is inductive.                              *)
(***************************************************************************)
EXTENDS Scheduler, LibraryLemmas

-----------------------------------------------------------------------------
(* What enqueue and dequeue of prio_queue.c do to a queue, for every queue. *)
Nodes(T) == [tIndex : T, prio : Nat]

LEMMA NodesOf ==
  ASSUME NEW T, NEW q \in Seq(Nodes(T))
  PROVE  /\ Len(q) \in Nat /\ DOMAIN q = 1..Len(q)
         /\ \A i \in DOMAIN q : q[i] \in Nodes(T) /\ q[i].prio \in Nat /\ q[i].tIndex \in T
<1>1. \A i \in DOMAIN q : q[i] \in Nodes(T)
  OBVIOUS
<1>2. \A n \in Nodes(T) : n.prio \in Nat /\ n.tIndex \in T
  BY DEF Nodes
<1> QED BY <1>1, <1>2

(* enqueue's loop stops behind every node of the new node's priority or a  *)
(* higher one, and in front of all that follow a lower one.                *)
LEMMA InsertPosSplits ==
  ASSUME NEW T, NEW q \in Seq(Nodes(T)), NEW p \in Nat
  PROVE  /\ InsertPos(q, p) \in 1..(Len(q) + 1)
         /\ \A i \in 1..(InsertPos(q, p) - 1) : q[i].prio >= p
         /\ InsertPos(q, p) <= Len(q) => q[InsertPos(q, p)].prio < p
<1> DEFINE I == {i \in 1..Len(q) : q[i].prio < p}
           m == CHOOSE x \in I : \A y \in I : x <= y
<1>1. InsertPos(q, p) = IF I = {} THEN Len(q) + 1 ELSE IF m = 0 THEN Len(q) + 1 ELSE m
  BY DEF InsertPos, SelectInSeq, Min
<1>2. \A i \in 1..Len(q) : q[i].prio \in Nat
  BY NodesOf
<1>3. CASE I = {}
  BY <1>1, <1>2, <1>3
<1>4. CASE I # {}
  <2>1. I \in SUBSET Nat
    OBVIOUS
  <2> HIDE DEF I
  <2>2. m \in I /\ \A y \in I : m <= y
    <3>1. \E x \in I : \A y \in I : x <= y
      BY <1>4, <2>1, LeastNumber
    <3> QED BY <3>1, Zenon
  <2> HIDE DEF m
  <2>3. m \in 1..Len(q) /\ q[m].prio < p /\ \A i \in 1..Len(q) : q[i].prio < p => m <= i
    BY <2>2 DEF I
  <2>4. InsertPos(q, p) = m
    BY <1>1, <1>4, <2>3
  <2> QED BY <1>2, <2>3, <2>4
<1> QED BY <1>3, <1>4

(* The list e is q with the node n inserted at position k.                 *)
Inserted(q, e, k, n) ==
  /\ Len(e) = Len(q) + 1
  /\ DOMAIN e = 1..(Len(q) + 1)
  /\ e[k] = n
  /\ \A i \in 1..(k - 1) : e[i] = q[i]
  /\ \A i \in (k + 1)..(Len(q) + 1) : e[i] = q[i - 1]

(* enqueue puts the new node there and leaves the others in their order.   *)
LEMMA EnqueueInserts ==
  ASSUME NEW T, NEW q \in Seq(Nodes(T)), NEW t \in T, NEW p \in Nat
  PROVE  /\ enqueue(q, t, p) \in Seq(Nodes(T))
         /\ Inserted(q, enqueue(q, t, p), InsertPos(q, p), pqNode(t, p))
<1> DEFINE k == InsertPos(q, p)
           n == pqNode(t, p)
           a == SubSeq(q, 1, k - 1)
           b == SubSeq(q, k, Len(q))
<1>1. k \in 1..(Len(q) + 1)
  BY InsertPosSplits
<1>2. n \in Nodes(T)
  BY DEF pqNode, Nodes
<1> HIDE DEF k, n
<1>3. /\ a \in Seq(Nodes(T)) /\ Len(a) = k - 1
      /\ \A i \in 1..(k - 1) : a[i] = q[i]
  BY <1>1
<1>4. /\ b \in Seq(Nodes(T)) /\ Len(b) = Len(q) + 1 - k
      /\ \A i \in 1..(Len(q) + 1 - k) : b[i] = q[k + i - 1]
  BY <1>1
<1>5. enqueue(q, t, p) = a \o <<n>> \o b
  BY DEF enqueue, InsertAt, k, n
<1> HIDE DEF a, b
<1> DEFINE c == a \o <<n>>
<1>6. /\ c \in Seq(Nodes(T)) /\ Len(c) = k /\ c[k] = n
      /\ \A i \in 1..(k - 1) : c[i] = q[i]
  BY <1>1, <1>2, <1>3
<1> HIDE DEF c
<1>7. enqueue(q, t, p) = c \o b
  BY <1>5 DEF c
<1>8. /\ c \o b \in Seq(Nodes(T)) /\ Len(c \o b) = Len(q) + 1
      /\ \A i \in 1..k : (c \o b)[i] = c[i]
      /\ \A i \in (k + 1)..(Len(q) + 1) : (c \o b)[i] = b[i - k]
  <2>1. PICK m \in Nat : m = Len(q) + 1 - k
    BY <1>1
  <2>2. k \in Nat /\ Len(q) + 1 = k + m
    BY <1>1, <2>1
  <2>3. Len(c) = k /\ Len(b) = m
    BY <1>4, <1>6, <2>1
  <2>4. /\ c \o b \in Seq(Nodes(T)) /\ Len(c \o b) = Len(c) + Len(b)
        /\ \A i \in 1..(Len(c) + Len(b)) :
             (c \o b)[i] = IF i <= Len(c) THEN c[i] ELSE b[i - Len(c)]
    BY <1>4, <1>6, ConcatProperties
  <2>5. /\ Len(c \o b) = k + m
        /\ \A i \in 1..(k + m) : (c \o b)[i] = IF i <= k THEN c[i] ELSE b[i - k]
    BY <2>3, <2>4
  <2>6. c \o b \in Seq(Nodes(T)) /\ Len(c \o b) = Len(q) + 1
    BY <2>2, <2>4, <2>5
  <2>7. \A i \in 1..k : (c \o b)[i] = c[i]
    <3> SUFFICES ASSUME NEW i \in 1..k PROVE (c \o b)[i] = c[i]
      OBVIOUS
    <3>1. i \in 1..(k + m) /\ i <= k
      BY <2>2
    <3> QED BY <2>5, <3>1
  <2>8. \A i \in (k + 1)..(Len(q) + 1) : (c \o b)[i] = b[i - k]
    <3> SUFFICES ASSUME NEW i \in (k + 1)..(k + m) PROVE (c \o b)[i] = b[i - k]
      BY <2>2
    <3>1. i \in 1..(k + m) /\ ~(i <= k)
      BY <2>2
    <3> QED BY <2>5, <3>1
  <2> QED BY <2>6, <2>7, <2>8
<1>9. \A i \in (k + 1)..(Len(q) + 1) : b[i - k] = q[i - 1]
  BY <1>1, <1>4
<1>10. \A i \in 1..(k - 1) : (c \o b)[i] = q[i]
  BY <1>1, <1>6, <1>8
<1>11. (c \o b)[k] = n
  BY <1>1, <1>6, <1>8
<1>12. DOMAIN (c \o b) = 1..(Len(q) + 1)
  BY <1>8
<1>13. \A i \in (k + 1)..(Len(q) + 1) : (c \o b)[i] = q[i - 1]
  BY <1>8, <1>9
<1> HIDE DEF c, b
<1> QED BY <1>7, <1>8, <1>10, <1>11, <1>12, <1>13 DEF Inserted, k, n

(* The queue's nodes as positions of the longer list, and the other way.   *)
LEMMA EnqueuePositions ==
  ASSUME NEW T, NEW q \in Seq(Nodes(T)), NEW t \in T, NEW p \in Nat
  PROVE  LET e == enqueue(q, t, p)
             k == InsertPos(q, p)
         IN  \A i \in DOMAIN e :
               \/ i = k /\ e[i] = pqNode(t, p)
               \/ i < k /\ i \in DOMAIN q /\ e[i] = q[i]
               \/ i > k /\ i - 1 \in DOMAIN q /\ e[i] = q[i - 1]
<1> DEFINE e == enqueue(q, t, p)
           k == InsertPos(q, p)
<1>1. k \in 1..(Len(q) + 1)
  BY InsertPosSplits
<1>2. Inserted(q, e, k, pqNode(t, p))
  BY EnqueueInserts
<1>3. /\ DOMAIN e = 1..(Len(q) + 1) /\ e[k] = pqNode(t, p)
      /\ \A i \in 1..(k - 1) : e[i] = q[i]
      /\ \A i \in (k + 1)..(Len(q) + 1) : e[i] = q[i - 1]
  BY <1>2 DEF Inserted
<1>4. Len(q) \in Nat /\ DOMAIN q = 1..Len(q)
  OBVIOUS
<1> HIDE DEF e, k
<1>5. ASSUME NEW i \in DOMAIN e
      PROVE  \/ i = k /\ e[i] = pqNode(t, p)
             \/ i < k /\ i \in DOMAIN q /\ e[i] = q[i]
             \/ i > k /\ i - 1 \in DOMAIN q /\ e[i] = q[i - 1]
  <2>1. CASE i = k
    BY <1>3, <2>1
  <2>2. CASE i < k
    BY <1>1, <1>3, <1>4, <2>2
  <2>3. CASE i > k
    BY <1>1, <1>3, <1>4, <2>3
  <2> QED BY <1>1, <1>3, <2>1, <2>2, <2>3
<1> QED BY <1>5 DEF e, k

LEMMA EnqueueTyped ==
  ASSUME NEW T, NEW q \in Seq(Nodes(T)), NEW t \in T, NEW p \in Nat
  PROVE  /\ enqueue(q, t, p) \in Seq(Nodes(T))
         /\ enqueue(q, t, p) # <<>>
<1> DEFINE e == enqueue(q, t, p)
<1>1. e \in Seq(Nodes(T)) /\ Inserted(q, e, InsertPos(q, p), pqNode(t, p))
  BY EnqueueInserts
<1> HIDE DEF e
<1>2. Len(e) = Len(q) + 1 /\ Len(q) \in Nat
  BY <1>1 DEF Inserted
<1>3. e # <<>>
  BY <1>2
<1> QED BY <1>1, <1>3 DEF e

(* enqueue adds the task and loses none.                                   *)
LEMMA EnqueueTasks ==
  ASSUME NEW T, NEW q \in Seq(Nodes(T)), NEW t \in T, NEW p \in Nat
  PROVE  TasksIn(enqueue(q, t, p)) = TasksIn(q) \cup {t}
<1> DEFINE e == enqueue(q, t, p)
           k == InsertPos(q, p)
<1>1. k \in 1..(Len(q) + 1)
  BY InsertPosSplits
<1>2. Inserted(q, e, k, pqNode(t, p))
  BY EnqueueInserts
<1>3. /\ DOMAIN e = 1..(Len(q) + 1) /\ e[k] = pqNode(t, p)
      /\ \A i \in 1..(k - 1) : e[i] = q[i]
      /\ \A i \in (k + 1)..(Len(q) + 1) : e[i] = q[i - 1]
  BY <1>2 DEF Inserted
<1> HIDE DEF e, k
<1>4. \A i \in DOMAIN e : e[i].tIndex \in TasksIn(q) \cup {t}
  BY <1>1, <1>3 DEF TasksIn, pqNode
<1>5. t \in TasksIn(e)
  BY <1>1, <1>3 DEF TasksIn, pqNode
<1>6. ASSUME NEW j \in DOMAIN q PROVE q[j].tIndex \in TasksIn(e)
  <2>1. CASE j < k
    <3>1. j \in DOMAIN e /\ e[j] = q[j]
      BY <1>1, <1>3, <2>1
    <3> QED BY <3>1 DEF TasksIn
  <2>2. CASE j >= k
    <3>1. j + 1 \in DOMAIN e /\ e[j + 1] = q[j]
      BY <1>1, <1>3, <2>2
    <3> QED BY <3>1 DEF TasksIn
  <2> QED BY <1>1, <2>1, <2>2
<1>7. TasksIn(e) = TasksIn(q) \cup {t}
  BY <1>4, <1>5, <1>6 DEF TasksIn
<1> QED BY <1>7 DEF e

(* A task that is not queued may be queued; the order by priority and the  *)
(* priorities carried stay right.                                          *)
LEMMA EnqueueKeeps ==
  ASSUME NEW T, NEW q \in Seq(Nodes(T)), NEW t \in T, NEW p \in Nat,
         NEW prio, prio[t] = p
  PROVE  LET e == enqueue(q, t, p)
         IN  /\ Distinct(q) /\ t \notin TasksIn(q) => Distinct(e)
             /\ Sorted(q) => Sorted(e)
             /\ Carries(q, prio) => Carries(e, prio)
<1> DEFINE e == enqueue(q, t, p)
           k == InsertPos(q, p)
<1>1. /\ k \in 1..(Len(q) + 1)
      /\ \A i \in 1..(k - 1) : q[i].prio >= p
      /\ k <= Len(q) => q[k].prio < p
  BY InsertPosSplits
<1>2. \A i \in DOMAIN e :
         \/ i = k /\ e[i] = pqNode(t, p)
         \/ i < k /\ i \in DOMAIN q /\ e[i] = q[i]
         \/ i > k /\ i - 1 \in DOMAIN q /\ e[i] = q[i - 1]
  BY EnqueuePositions
<1>3. e \in Seq(Nodes(T))
  BY EnqueueTyped
<1>4. \A i \in DOMAIN q : q[i] \in Nodes(T) /\ q[i].prio \in Nat
  BY NodesOf
<1> HIDE DEF e, k
<1>5. ASSUME Distinct(q), t \notin TasksIn(q) PROVE Distinct(e)
  <2> SUFFICES ASSUME NEW i \in DOMAIN e, NEW j \in DOMAIN e,
                      e[i].tIndex = e[j].tIndex
               PROVE  i = j
    BY DEF Distinct
  <2>1. \A h \in DOMAIN q : q[h].tIndex # t
    BY <1>5 DEF TasksIn
  <2>2. pqNode(t, p).tIndex = t
    BY DEF pqNode
  <2>3. i \in Nat /\ j \in Nat /\ k \in Nat
    BY <1>1, <1>3
  <2> DEFINE from(h) == IF h < k THEN h ELSE h - 1
  <2>4. \A h \in DOMAIN e :
          IF h = k THEN e[h].tIndex = t
          ELSE from(h) \in DOMAIN q /\ e[h].tIndex = q[from(h)].tIndex /\ e[h].tIndex # t
    BY <1>1, <1>2, <1>3, <2>1, <2>2
  <2>5. CASE i = k \/ j = k
    BY <2>4, <2>5
  <2>6. CASE i # k /\ j # k
    <3>1. from(i) = from(j)
      BY <1>5, <2>4, <2>6 DEF Distinct
    <3> QED BY <2>3, <2>6, <3>1
  <2> QED BY <2>5, <2>6
<1>6. ASSUME Sorted(q) PROVE Sorted(e)
  <2> SUFFICES ASSUME NEW i \in DOMAIN e, NEW j \in DOMAIN e, i <= j
               PROVE  e[i].prio >= e[j].prio
    BY DEF Sorted
  <2>1. pqNode(t, p).prio = p
    BY DEF pqNode
  <2>2. \A h \in DOMAIN q : h < k => q[h].prio >= p
    BY <1>1
  <2>3. \A h \in DOMAIN q : h >= k => q[h].prio < p
    BY <1>1, <1>4, <1>6 DEF Sorted
  <2>4. i \in Nat /\ j \in Nat /\ k \in Nat
    BY <1>1, <1>3
  <2>5. CASE i = k
    <3>1. e[i].prio = p
      BY <1>2, <2>1, <2>4, <2>5
    <3>2. CASE j = k
      BY <2>5, <3>1, <3>2
    <3>3. CASE j # k
      <4>1. j - 1 \in DOMAIN q /\ j - 1 >= k /\ e[j] = q[j - 1]
        BY <1>2, <2>4, <2>5, <3>3
      <4>2. e[j].prio < p /\ e[j].prio \in Nat
        BY <1>4, <2>3, <4>1
      <4> QED BY <3>1, <4>2
    <3> QED BY <3>2, <3>3
  <2>6. CASE j = k /\ i # k
    <3>1. i \in DOMAIN q /\ i < k /\ e[i] = q[i]
      BY <1>2, <2>4, <2>6
    <3>2. e[j].prio = p
      BY <1>2, <2>1, <2>4, <2>6
    <3> QED BY <2>2, <3>1, <3>2
  <2>7. CASE i # k /\ j # k
    <3>1. PICK h, l \in DOMAIN q : h <= l /\ e[i] = q[h] /\ e[j] = q[l]
      BY <1>2, <2>4, <2>7
    <3> QED BY <1>6, <3>1 DEF Sorted
  <2> QED BY <2>5, <2>6, <2>7
<1>7. ASSUME Carries(q, prio) PROVE Carries(e, prio)
  BY <1>2, <1>7 DEF Carries, pqNode
<1> QED BY <1>5, <1>6, <1>7 DEF e

LEMMA DequeueTyped ==
  ASSUME NEW T, NEW q \in Seq(Nodes(T)), q # <<>>
  PROVE  /\ dequeue(q) \in Seq(Nodes(T))
         /\ dequeued(q) \in T /\ dequeued(q) \in TasksIn(q)
<1>1. dequeue(q) \in Seq(Nodes(T)) /\ 1 \in DOMAIN q
  BY DEF dequeue
<1>2. dequeued(q) = q[1].tIndex
  BY DEF dequeued
<1> QED BY <1>1, <1>2, NodesOf DEF TasksIn

(* dequeue takes the first task out and leaves the rest as it is.          *)
LEMMA DequeueTakes ==
  ASSUME NEW T, NEW q \in Seq(Nodes(T)), q # <<>>, NEW prio
  PROVE  /\ Distinct(q) => /\ TasksIn(dequeue(q)) = TasksIn(q) \ {dequeued(q)}
                           /\ Distinct(dequeue(q))
         /\ Sorted(q) => Sorted(dequeue(q))
         /\ Carries(q, prio) => Carries(dequeue(q), prio)
<1> DEFINE d == dequeue(q)
<1>1. /\ d \in Seq(Nodes(T)) /\ Len(d) = Len(q) - 1 /\ Len(q) \in Nat \ {0}
      /\ \A i \in DOMAIN d : i + 1 \in DOMAIN q /\ d[i] = q[i + 1]
  BY DEF dequeue
<1>2. 1 \in DOMAIN q /\ q[1] \in Nodes(T) /\ dequeued(q) = q[1].tIndex
  BY <1>1 DEF dequeued
<1> HIDE DEF d
<1>3. DOMAIN d \subseteq Nat /\ DOMAIN q \subseteq Nat
  BY <1>1
<1>4. ASSUME Distinct(q) PROVE TasksIn(d) = TasksIn(q) \ {dequeued(q)} /\ Distinct(d)
  <2>1. Distinct(d)
    BY <1>1, <1>3, <1>4 DEF Distinct
  <2>2. ASSUME NEW i \in DOMAIN d
        PROVE  d[i].tIndex \in TasksIn(q) \ {dequeued(q)}
    <3>1. i + 1 \in DOMAIN q /\ i + 1 # 1 /\ d[i] = q[i + 1]
      BY <1>1, <1>3, <2>2
    <3>2. q[i + 1].tIndex # q[1].tIndex
      BY <1>2, <1>4, <3>1 DEF Distinct
    <3> QED BY <1>2, <3>1, <3>2 DEF TasksIn
  <2>3. ASSUME NEW j \in DOMAIN q, q[j].tIndex # dequeued(q)
        PROVE  q[j].tIndex \in TasksIn(d)
    <3>1. j - 1 \in DOMAIN d /\ d[j - 1] = q[j]
      BY <1>1, <1>2, <2>3
    <3> QED BY <3>1 DEF TasksIn
  <2> QED BY <2>1, <2>2, <2>3 DEF TasksIn
<1>5. ASSUME Sorted(q) PROVE Sorted(d)
  BY <1>1, <1>3, <1>5 DEF Sorted
<1>6. ASSUME Carries(q, prio) PROVE Carries(d, prio)
  BY <1>1, <1>6 DEF Carries
<1> QED BY <1>4, <1>5, <1>6 DEF d

-----------------------------------------------------------------------------
(* Type correctness.                                                       *)
Queues == Seq(Nodes(Tasks))
Timers == [Tasks -> 0..UINT_MAX]

Typed ==
  /\ TypeOK
  /\ main \in {"join_loaded", "joining", "free_loaded"} => idx < arr_size

LEMMA WakeTyped ==
  ASSUME NEW q \in Queues, sem \in [Tasks -> Nat], wakeNextThread(q)
  PROVE  pq_head' \in Queues /\ sem' \in [Tasks -> Nat]
<1>1. CASE q = <<>> /\ pq_head' = q /\ UNCHANGED sem
  BY <1>1
<1>2. CASE q # <<>> /\ pq_head' = dequeue(q) /\ sem' = [sem EXCEPT ![dequeued(q)] = @ + 1]
  <2>1. dequeue(q) \in Queues /\ dequeued(q) \in Tasks
    BY <1>2, DequeueTyped DEF Queues
  <2> QED BY <1>2, <2>1
<1> QED BY <1>1, <1>2 DEF wakeNextThread

LEMMA PayTyped ==
  ASSUME NEW t \in Tasks, NEW tm \in Timers, NEW q \in Queues, NEW pcs \in [Tasks -> PCs],
         sem \in [Tasks -> Nat], quantum \in 0..UINT_MAX,
         priority \in [Tasks -> 0..SO_MAX_PRIO], PayTime(t, tm, q, pcs)
  PROVE  /\ pq_head' \in Queues /\ sem' \in [Tasks -> Nat]
         /\ timer' \in Timers /\ pc' \in [Tasks -> PCs]
<1> DEFINE left == Decrement(tm[t])
           paid == [tm EXCEPT ![t] = left]
<1>1. UINT_MAX \in Nat /\ SO_MAX_PRIO \in Nat
  BY ConstantsAssumption DEF SO_MAX_PRIO
<1>2. left \in 0..UINT_MAX /\ paid \in Timers
  BY <1>1 DEF Decrement, Timers
<1> HIDE DEF left, paid
<1>3. CASE preemptThread(t, paid, q, pcs)
  <2>1. enqueue(q, t, priority[t]) \in Queues
    BY <1>1, EnqueueTyped DEF Queues
  <2>2. pq_head' \in Queues /\ sem' \in [Tasks -> Nat]
    BY <1>3, <2>1, WakeTyped DEF preemptThread
  <2> QED BY <1>2, <1>3, <2>2 DEF preemptThread, Timers, PCs
<1>4. CASE timer' = paid /\ pq_head' = q /\ pc' = [pcs EXCEPT ![t] = "running"] /\ UNCHANGED sem
  BY <1>2, <1>4 DEF PCs
<1> QED BY <1>3, <1>4 DEF PayTime, left, paid

LEMMA GrowTyped ==
  ASSUME TypeOK, GrowArray
  PROVE  /\ arr_size' = arr_size + 1 /\ arr_max_size' \in Nat
         /\ stale' \subseteq Tasks \cup {Main}
BY DEF TypeOK, GrowArray, Holders

LEMMA InitTyped == Init => Typed
<1> SUFFICES ASSUME Init PROVE Typed
  OBVIOUS
<1>1. MaxTasks \in Nat /\ MainForks \in Nat /\ UINT_MAX \in Nat
  BY ConstantsAssumption
<1>2. loop \in [Tasks -> [io : {NoDevice} \cup Devices, i : 0..MaxTasks]]
  BY <1>1 DEF Init, NoLoop
<1>3. pc \in [Tasks -> PCs] /\ main \in MainPCs
  BY DEF Init, PCs, MainPCs
<1>4. pq_head \in Seq([tIndex : Tasks, prio : Nat])
  BY DEF Init
<1>5. /\ priority \in [Tasks -> 0..SO_MAX_PRIO] /\ timer \in [Tasks -> 0..UINT_MAX]
      /\ io \in [Tasks -> {NoDevice} \cup Devices] /\ sem \in [Tasks -> Nat]
      /\ tid \in [Tasks -> BOOLEAN]
  BY <1>1 DEF Init, SO_MAX_PRIO
<1>6. /\ arr_size \in 0..MaxTasks /\ arr_max_size \in Nat /\ idx \in 0..MaxTasks
      /\ quantum \in 0..UINT_MAX /\ io_ev_n \in 0..SO_MAX_NUM_EVENTS
      /\ forks \in 0..MainForks
  BY <1>1 DEF Init, SO_MAX_NUM_EVENTS
<1>7. /\ allocated \in BOOLEAN /\ fault \in BOOLEAN /\ stale \subseteq Tasks \cup {Main}
      /\ main = "idle"
  BY DEF Init
<1> QED BY <1>2, <1>3, <1>4, <1>5, <1>6, <1>7 DEF Typed, TypeOK

LEMMA TaskStepTyped ==
  ASSUME Typed, NEW t \in Tasks, TaskStep(t)
  PROVE  Typed'
<1> USE DEF Typed, array, config, taskVars, mainVars
<1>0. /\ UINT_MAX \in Nat /\ SO_MAX_PRIO \in Nat /\ MaxTasks \in Nat
      /\ TypeOK /\ pq_head \in Queues /\ timer \in Timers
  BY ConstantsAssumption DEF TypeOK, Queues, Nodes, Timers, SO_MAX_PRIO
<1>1. CASE load_sem(t)
  BY <1>1 DEF load_sem, TypeOK, PCs
<1>2. CASE enter_sem_wait(t)
  BY <1>2 DEF enter_sem_wait, UsePointer, TypeOK, PCs
<1>3. CASE leave_sem_wait(t)
  <2>1. sem' \in [Tasks -> Nat]
    <3>1. sem \in [Tasks -> Nat] /\ sem[t] \in Nat /\ sem[t] > 0
      BY <1>0, <1>3 DEF leave_sem_wait, TypeOK
    <3>2. sem[t] - 1 \in Nat
      BY <3>1
    <3> QED BY <1>3, <3>1, <3>2 DEF leave_sem_wait
  <2> QED BY <1>3, <2>1 DEF leave_sem_wait, TypeOK, PCs
<1>4. CASE end_thread(t)
  <2>1. pq_head' \in Queues /\ sem' \in [Tasks -> Nat]
    BY <1>0, <1>4, WakeTyped DEF end_thread, TypeOK
  <2> QED BY <1>4, <2>1 DEF end_thread, TypeOK, PCs, Queues, Nodes
<1>5. CASE so_exec(t)
  <2>1. /\ pq_head' \in Queues /\ sem' \in [Tasks -> Nat]
        /\ timer' \in Timers /\ pc' \in [Tasks -> PCs]
    BY <1>0, <1>5, PayTyped DEF so_exec, TypeOK
  <2> QED BY <1>5, <2>1 DEF so_exec, TypeOK, Queues, Nodes, Timers
<1>6. ASSUME NEW p \in Priorities, so_fork(t, p) PROVE Typed'
  <2> DEFINE new == arr_size
             tm == [timer EXCEPT ![new] = quantum]
             pcs == [pc EXCEPT ![new] = "park"]
  <2>1. new \in Tasks /\ p \in 0..SO_MAX_PRIO /\ p \in Nat
    BY <1>0, <1>6, ConstantsAssumption DEF so_fork, TypeOK, Tasks, AcceptsPriority
  <2>2. enqueue(pq_head, new, p) \in Queues
    BY <1>0, <2>1, EnqueueTyped DEF Queues
  <2>3. tm \in Timers /\ pcs \in [Tasks -> PCs]
    BY <1>0 DEF TypeOK, Timers, PCs
  <2>4. PayTime(t, tm, enqueue(pq_head, new, p), pcs)
    BY <1>6 DEF so_fork
  <2>5. /\ pq_head' \in Queues /\ sem' \in [Tasks -> Nat]
        /\ timer' \in Timers /\ pc' \in [Tasks -> PCs]
    BY <1>0, <2>2, <2>3, <2>4, PayTyped DEF TypeOK
  <2>6. arr_size' = arr_size + 1 /\ arr_max_size' \in Nat /\ stale' \subseteq Tasks \cup {Main}
    BY <1>0, <1>6, GrowTyped DEF so_fork
  <2>7. /\ priority' \in [Tasks -> 0..SO_MAX_PRIO]
        /\ io' \in [Tasks -> {NoDevice} \cup Devices] /\ tid' \in [Tasks -> BOOLEAN]
    BY <1>6, <2>1 DEF so_fork, TypeOK
  <2>8. arr_size \in Nat /\ arr_size' \in 0..MaxTasks
    BY <1>0, <2>1, <2>6 DEF Tasks
  <2>9. main \in {"join_loaded", "joining", "free_loaded"} => idx < arr_size'
    BY <1>0, <2>6, <2>8 DEF TypeOK
  <2>10. UNCHANGED <<allocated, quantum, io_ev_n, loop, main, idx, forks, fault>>
    BY <1>6 DEF so_fork
  <2> QED BY <2>5, <2>6, <2>7, <2>8, <2>9, <2>10 DEF TypeOK, Queues, Nodes, Timers
<1>7. ASSUME NEW d \in Devices, so_wait(t, d) PROVE Typed'
  <2>1. pq_head' \in Queues /\ sem' \in [Tasks -> Nat]
    BY <1>0, <1>7, WakeTyped DEF so_wait, TypeOK
  <2> QED BY <1>7, <2>1 DEF so_wait, TypeOK, PCs, Queues, Nodes
<1>8. ASSUME NEW d \in Devices, so_signal(t, d) PROVE Typed'
  BY <1>0, <1>8 DEF so_signal, TypeOK, PCs
<1>9. CASE signal_iteration(t)
  <2> DEFINE i == loop[t].i
  <2>1. i \in Tasks /\ i + 1 \in 0..MaxTasks
    <3>1. i \in 0..MaxTasks /\ arr_size \in 0..MaxTasks /\ i < arr_size
      BY <1>0, <1>9 DEF signal_iteration, TypeOK
    <3> QED BY <1>0, <3>1 DEF Tasks
  <2>2. enqueue(pq_head, i, priority[i]) \in Queues
    <3>1. priority[i] \in Nat
      BY <1>0, <2>1 DEF TypeOK
    <3> QED BY <1>0, <2>1, <3>1, EnqueueTyped DEF Queues
  <2>3. /\ pq_head' \in Queues /\ timer' \in Timers
        /\ io' \in [Tasks -> {NoDevice} \cup Devices]
    <3>1. pq_head \in Queues /\ timer \in Timers /\ quantum \in 0..UINT_MAX
          /\ io \in [Tasks -> {NoDevice} \cup Devices]
      BY <1>0 DEF TypeOK, Timers
    <3>2. pq_head' \in Queues
      BY <1>9, <2>2, <3>1 DEF signal_iteration
    <3>3. timer' \in Timers
      BY <1>9, <3>1 DEF signal_iteration, Timers
    <3>4. io' \in [Tasks -> {NoDevice} \cup Devices]
      BY <1>9, <3>1 DEF signal_iteration
    <3> QED BY <3>2, <3>3, <3>4
  <2>4. loop' \in [Tasks -> [io : {NoDevice} \cup Devices, i : 0..MaxTasks]]
    BY <1>9, <2>1 DEF signal_iteration, TypeOK
  <2> QED BY <1>9, <2>3, <2>4 DEF signal_iteration, TypeOK, Queues, Nodes, Timers
<1>10. CASE signal_return(t)
  <2>1. /\ pq_head' \in Queues /\ sem' \in [Tasks -> Nat]
        /\ timer' \in Timers /\ pc' \in [Tasks -> PCs]
    BY <1>0, <1>10, PayTyped DEF signal_return, TypeOK
  <2>2. loop' \in [Tasks -> [io : {NoDevice} \cup Devices, i : 0..MaxTasks]]
    BY <1>0, <1>10 DEF signal_return, TypeOK, NoLoop
  <2> QED BY <1>10, <2>1, <2>2 DEF signal_return, TypeOK, Queues, Nodes, Timers
<1> QED BY <1>1, <1>2, <1>3, <1>4, <1>5, <1>6, <1>7, <1>8, <1>9, <1>10 DEF TaskStep

LEMMA MainStepTyped ==
  ASSUME Typed, MainStep
  PROVE  Typed'
<1> USE DEF Typed, array, config, taskVars, mainVars
<1>0. /\ UINT_MAX \in Nat /\ SO_MAX_PRIO \in Nat /\ MaxTasks \in Nat
      /\ TypeOK /\ pq_head \in Queues /\ timer \in Timers
  BY ConstantsAssumption DEF TypeOK, Queues, Nodes, Timers, SO_MAX_PRIO
<1>1. ASSUME NEW q \in Quanta, NEW n \in IoCounts, so_init(q, n) PROVE Typed'
  <2>1. q \in 0..UINT_MAX /\ n \in 0..SO_MAX_NUM_EVENTS
    BY <1>1, ConstantsAssumption DEF so_init, SO_MAX_NUM_EVENTS
  <2> QED BY <1>0, <1>1, <2>1, ConstantsAssumption DEF so_init, TypeOK, MainPCs
<1>2. ASSUME NEW p \in Priorities, so_fork_main(p) PROVE Typed'
  <2>1. arr_size \in Tasks /\ p \in 0..SO_MAX_PRIO /\ p \in Nat
    BY <1>0, <1>2, ConstantsAssumption DEF so_fork_main, TypeOK, Tasks, AcceptsPriority
  <2>2. pq_head' \in Queues
    BY <1>0, <1>2, <2>1, EnqueueTyped DEF Queues, so_fork_main
  <2>3. arr_size' = arr_size + 1 /\ arr_max_size' \in Nat /\ stale' \subseteq Tasks \cup {Main}
    BY <1>0, <1>2, GrowTyped DEF so_fork_main
  <2>4. /\ priority' \in [Tasks -> 0..SO_MAX_PRIO] /\ timer' \in Timers
        /\ io' \in [Tasks -> {NoDevice} \cup Devices] /\ pc' \in [Tasks -> PCs]
    BY <1>0, <1>2, <2>1 DEF so_fork_main, TypeOK, Timers, PCs
  <2>5. main' \in MainPCs /\ idx' \in 0..MaxTasks /\ forks' \in 0..MainForks
    BY <1>0, <1>2, <2>1, ConstantsAssumption DEF so_fork_main, TypeOK, MainPCs, Tasks
  <2>6. arr_size \in Nat /\ arr_size' \in 0..MaxTasks
    BY <1>0, <2>1, <2>3 DEF Tasks
  <2> QED BY <1>2, <2>2, <2>3, <2>4, <2>5, <2>6 DEF so_fork_main, TypeOK, Queues, Nodes, Timers
<1>3. CASE load_tid
  BY <1>3 DEF load_tid, TypeOK, MainPCs
<1>4. CASE store_tid
  BY <1>4 DEF store_tid, UsePointer, TypeOK, MainPCs
<1>5. CASE so_end
  BY <1>0, <1>5 DEF so_end, TypeOK, MainPCs
<1>6. CASE load_join
  BY <1>6 DEF load_join, TypeOK, MainPCs
<1>7. CASE enter_join
  BY <1>7 DEF enter_join, TypeOK, MainPCs
<1>8. CASE leave_join
  BY <1>8 DEF leave_join, TypeOK, MainPCs
<1>9. CASE free_task
  <2>1. idx' \in 0..MaxTasks
    <3>1. idx \in 0..MaxTasks /\ arr_size \in 0..MaxTasks /\ idx < arr_size /\ idx' = idx + 1
      BY <1>9 DEF free_task, TypeOK
    <3> QED BY <1>0, <3>1
  <2> QED BY <1>9, <2>1 DEF free_task, UsePointer, TypeOK, MainPCs
<1>10. CASE so_end_return
  <2>1. /\ priority' \in [Tasks -> 0..SO_MAX_PRIO] /\ timer' \in [Tasks -> 0..UINT_MAX]
        /\ io' \in [Tasks -> {NoDevice} \cup Devices] /\ tid' \in [Tasks -> BOOLEAN]
        /\ sem' \in [Tasks -> Nat]
    BY <1>0, <1>10 DEF so_end_return
  <2>2. pq_head' \in Seq([tIndex : Tasks, prio : Nat])
    BY <1>10 DEF so_end_return
  <2>3. pc' \in [Tasks -> PCs] /\ main' \in MainPCs /\ main' = "idle"
    BY <1>10 DEF so_end_return, PCs, MainPCs
  <2> QED BY <1>10, <2>1, <2>2, <2>3 DEF so_end_return, TypeOK
<1>11. CASE so_end_again
  BY <1>11 DEF so_end_again, TypeOK
<1> QED BY <1>1, <1>2, <1>3, <1>4, <1>5, <1>6, <1>7, <1>8, <1>9, <1>10, <1>11 DEF MainStep

LEMMA TypedInductive == Typed /\ [Next]_vars => Typed'
<1> SUFFICES ASSUME Typed, [Next]_vars PROVE Typed'
  OBVIOUS
<1>1. CASE Next
  BY <1>1, TaskStepTyped, MainStepTyped DEF Next
<1>2. CASE UNCHANGED vars
  BY <1>2 DEF Typed, TypeOK, vars, array, config, taskVars, mainVars
<1> QED BY <1>1, <1>2

(* Every variable of the scheduler keeps its type, for every value of the  *)
(* constants.                                                              *)
THEOREM TypeCorrect == Spec => []TypeOK
<1>1. Spec => []Typed
  BY InitTyped, TypedInductive, PTL DEF Spec
<1>2. Typed => TypeOK
  BY DEF Typed
<1> QED BY <1>1, <1>2, PTL

-----------------------------------------------------------------------------
(* Exactly the tasks in the array were born, and while there is no array   *)
(* the initialising thread is idle.  It forks the first task only.         *)
Birth ==
  /\ main = "idle" <=> ~allocated
  /\ \A t \in Tasks : pc[t] = "unborn" <=> ~allocated \/ t >= arr_size
  /\ allocated /\ forks = 0 => arr_size = 0
  /\ allocated => quantum >= 1

(* so_end works on a task that exists, and those it has passed are done.   *)
Joined ==
  /\ main \in {"join_loaded", "joining", "free_loaded"} => idx < arr_size
  /\ Ending => \A t \in Tasks : t < idx => pc[t] = "done"
  /\ main = "free_loaded" => \A t \in Tasks : t = idx => pc[t] = "done"

(* The tasks so_signal has passed no longer wait for its device.           *)
Passed ==
  \A t \in Tasks : pc[t] = "signalling" =>
    /\ loop[t].io # NoDevice
    /\ \A u \in Tasks : u < loop[t].i => io[u] # loop[t].io

(* The queue is ordered, by the priorities of its tasks.                   *)
Ordered == Sorted(pq_head) /\ Carries(pq_head, priority)

(* A posted task outranks the queue, like one between two library calls.   *)
Ranked ==
  \A t \in Tasks : sem[t] > 0 \/ pc[t] = "running" =>
    ~topPrioAbove(pq_head, priority[t])

(* A READY task has a full quantum.                                        *)
Refilled == \A t \in TasksIn(pq_head) : timer[t] = quantum

IInv ==
  /\ Birth /\ Joined /\ Passed /\ Ordered /\ Ranked /\ Refilled
  /\ NoTaskLost /\ OneTaskAtATime /\ ReadyTasksAreServed
  /\ FullQuantum /\ EntriesAllocated
-----------------------------------------------------------------------------
(* The helpers of the scheduler, for any queue they are given.             *)

LEMMA EmptyQueue ==
  ASSUME NEW q \in Queues
  PROVE  q = <<>> <=> TasksIn(q) = {}
<1>1. q = <<>> <=> DOMAIN q = {}
  BY DEF Queues
<1> QED BY <1>1 DEF TasksIn

(* No queued task outranks the one in front.                               *)
LEMMA FrontOutranks ==
  ASSUME NEW q \in Queues, q # <<>>, NEW prio, Sorted(q), Carries(q, prio)
  PROVE  ~topPrioAbove(dequeue(q), prio[dequeued(q)])
<1>1. /\ Len(q) \in Nat \ {0} /\ DOMAIN q = 1..Len(q)
      /\ \A i \in DOMAIN q : q[i].prio \in Nat
  BY NodesOf DEF Queues
<1>2. prio[dequeued(q)] = q[1].prio
  BY <1>1 DEF Carries, dequeued
<1>3. CASE Len(q) = 1
  <2>1. dequeue(q) = <<>>
    <3>1. Tail(q) \in Seq(Nodes(Tasks)) /\ Len(Tail(q)) = 0
      BY <1>3 DEF Queues
    <3>2. Tail(q) = <<>>
      BY <3>1, EmptySeq
    <3> QED BY <3>2 DEF dequeue
  <2> QED BY <2>1 DEF topPrioAbove
<1>4. CASE Len(q) > 1
  <2>1. Head(dequeue(q)) = q[2]
    BY <1>1, <1>4 DEF dequeue, Queues
  <2>2. q[1].prio >= q[2].prio
    BY <1>1, <1>4 DEF Sorted
  <2> QED BY <1>1, <1>2, <1>4, <2>1, <2>2 DEF topPrioAbove
<1> QED BY <1>1, <1>3, <1>4

(* The task w got the processor, out of the tasks rs that were READY.      *)
Woken(w, rs, prio) ==
  /\ w \in rs
  /\ sem' = [sem EXCEPT ![w] = @ + 1]
  /\ TasksIn(pq_head') = rs \ {w}
  /\ ~topPrioAbove(pq_head', prio[w])

LEMMA WakeNext ==
  ASSUME NEW q \in Queues, NEW prio, wakeNextThread(q),
         Distinct(q), Sorted(q), Carries(q, prio)
  PROVE  /\ Distinct(pq_head') /\ Sorted(pq_head') /\ Carries(pq_head', prio)
         /\ \/ TasksIn(q) = {} /\ pq_head' = <<>> /\ TasksIn(pq_head') = {} /\ sem' = sem
            \/ \E w \in Tasks : Woken(w, TasksIn(q), prio)
<1>1. CASE q = <<>> /\ pq_head' = q /\ UNCHANGED sem
  BY <1>1, EmptyQueue
<1>2. CASE q # <<>> /\ pq_head' = dequeue(q) /\ sem' = [sem EXCEPT ![dequeued(q)] = @ + 1]
  <2> DEFINE w == dequeued(q)
  <2>1. w \in Tasks /\ w \in TasksIn(q)
    BY <1>2, DequeueTyped DEF Queues
  <2>2. /\ TasksIn(dequeue(q)) = TasksIn(q) \ {w} /\ Distinct(dequeue(q))
        /\ Sorted(dequeue(q)) /\ Carries(dequeue(q), prio)
    BY <1>2, DequeueTakes DEF Queues
  <2>3. ~topPrioAbove(dequeue(q), prio[w])
    BY <1>2, FrontOutranks
  <2>4. Woken(w, TasksIn(q), prio)
    BY <1>2, <2>1, <2>2, <2>3 DEF Woken
  <2> QED BY <1>2, <2>1, <2>2, <2>4
<1> QED BY <1>1, <1>2 DEF wakeNextThread

(* What a call costs its caller t: one unit of time, and the processor if  *)
(* that was the last one or a better task is READY.                        *)
Kept(t, tm, q, pcs, prio) ==
  /\ tm[t] # 1
  /\ timer' = [tm EXCEPT ![t] = Decrement(tm[t])]
  /\ pq_head' = q /\ sem' = sem
  /\ pc' = [pcs EXCEPT ![t] = "running"]
  /\ ~topPrioAbove(q, prio[t])

GaveWay(t, tm, q, pcs, prio) ==
  /\ timer' = [tm EXCEPT ![t] = quantum]
  /\ pc' = [pcs EXCEPT ![t] = "park"]
  /\ \E w \in Tasks : Woken(w, TasksIn(q) \cup {t}, prio)

LEMMA Pay ==
  ASSUME NEW t \in Tasks, NEW tm \in Timers, NEW q \in Queues, NEW pcs \in [Tasks -> PCs],
         NEW prio, prio[t] = priority[t], priority[t] \in Nat,
         Distinct(q), Sorted(q), Carries(q, prio), t \notin TasksIn(q),
         PayTime(t, tm, q, pcs)
  PROVE  /\ Distinct(pq_head') /\ Sorted(pq_head') /\ Carries(pq_head', prio)
         /\ Kept(t, tm, q, pcs, prio) \/ GaveWay(t, tm, q, pcs, prio)
<1> DEFINE left == Decrement(tm[t])
           paid == [tm EXCEPT ![t] = left]
           e == enqueue(q, t, priority[t])
<1>1. CASE preemptThread(t, paid, q, pcs)
  <2>1. e \in Queues /\ TasksIn(e) = TasksIn(q) \cup {t}
    <3>1. q \in Seq(Nodes(Tasks))
      BY DEF Queues
    <3>2. e \in Seq(Nodes(Tasks))
      BY <3>1, EnqueueTyped
    <3>3. TasksIn(e) = TasksIn(q) \cup {t}
      BY <3>1, EnqueueTasks
    <3> QED BY <3>2, <3>3 DEF Queues
  <2>2. Distinct(e) /\ Sorted(e) /\ Carries(e, prio)
    BY EnqueueKeeps DEF Queues
  <2>3. wakeNextThread(e)
    BY <1>1 DEF preemptThread
  <2> HIDE DEF e
  <2>4. /\ Distinct(pq_head') /\ Sorted(pq_head') /\ Carries(pq_head', prio)
        /\ \E w \in Tasks : Woken(w, TasksIn(e), prio)
    BY <2>1, <2>2, <2>3, WakeNext
  <2>5. timer' = [tm EXCEPT ![t] = quantum] /\ pc' = [pcs EXCEPT ![t] = "park"]
    BY <1>1 DEF preemptThread, Timers
  <2> QED BY <2>1, <2>4, <2>5 DEF GaveWay
<1>2. CASE /\ ~isPreempted(t, left, q)
           /\ timer' = paid /\ pq_head' = q
           /\ pc' = [pcs EXCEPT ![t] = "running"]
           /\ UNCHANGED sem
  <2>1. left # 0 /\ ~topPrioAbove(q, prio[t])
    BY <1>2 DEF isPreempted
  <2>2. tm[t] # 1
    BY <2>1 DEF Decrement
  <2> QED BY <1>2, <2>1, <2>2 DEF Kept
<1> QED BY <1>1, <1>2 DEF PayTime
-----------------------------------------------------------------------------
(* The inductive invariant, in the states the types allow.                 *)

HasProcessor(t) == pc[t] \in {"running", "signalling"}

(* While t runs, no other task does, and no semaphore is posted.           *)
LEMMA SoleRunner ==
  ASSUME Typed, IInv, NEW t \in Tasks, HasProcessor(t)
  PROVE  /\ \A u \in Tasks : sem[u] = 0 /\ (u # t => ~HasProcessor(u))
         /\ t \notin TasksIn(pq_head) /\ io[t] = NoDevice
         /\ allocated /\ t < arr_size /\ timer[t] \in 1..quantum /\ quantum \in 1..UINT_MAX
<1>1. /\ sem \in [Tasks -> Nat] /\ quantum \in 0..UINT_MAX /\ t \in Int /\ arr_size \in Int
      /\ UINT_MAX \in Nat
  <2>1. UINT_MAX \in Nat /\ MaxTasks \in Nat
    BY ConstantsAssumption
  <2>2. sem \in [Tasks -> Nat] /\ quantum \in 0..UINT_MAX /\ arr_size \in 0..MaxTasks
    BY DEF Typed, TypeOK
  <2> QED BY <2>1, <2>2 DEF Tasks
<1>2. Scheduled(t) /\ ~Suspended(t)
  BY DEF HasProcessor, Scheduled, Suspended
<1>3. \A u \in Tasks : Scheduled(u) => u = t
  BY <1>2 DEF IInv, OneTaskAtATime
<1>4. t \notin TasksIn(pq_head) /\ io[t] = NoDevice /\ sem[t] <= 1 /\ sem[t] # 1
  BY <1>2 DEF IInv, NoTaskLost
<1>5. sem[t] = 0
  BY <1>1, <1>4
<1>6. \A u \in Tasks : sem[u] = 0
  BY <1>1, <1>3, <1>5 DEF Scheduled
<1>7. \A u \in Tasks : u # t => ~HasProcessor(u)
  BY <1>3 DEF Scheduled, HasProcessor
<1>8. pc[t] # "unborn"
  BY DEF HasProcessor
<1>9. allocated /\ t < arr_size /\ quantum >= 1
  BY <1>1, <1>8 DEF IInv, Birth
<1>10. timer[t] \in 1..quantum
  BY <1>2 DEF IInv, FullQuantum
<1> QED BY <1>1, <1>4, <1>6, <1>7, <1>9, <1>10

(* What the invariant says of the tasks, apart from the array and Main.    *)
TaskInv ==
  /\ Passed /\ Ordered /\ Ranked /\ Refilled
  /\ NoTaskLost /\ OneTaskAtATime /\ ReadyTasksAreServed /\ FullQuantum

(* In the next state a task is suspended if and only if it is in rs or     *)
(* waits for a device, and those in rs have a full quantum.                *)
Settled(rs) ==
  /\ rs \subseteq Tasks
  /\ \A u \in Tasks : pc'[u] \in {"park", "loaded", "blocked"} <=> u \in rs \/ io'[u] # NoDevice
  /\ \A u \in rs : io'[u] = NoDevice /\ timer'[u] = quantum'
  /\ quantum' \in Nat \ {0}

(* The processor passes to one of the tasks in rs, or is free when there   *)
(* is none.                                                                *)
LEMMA Handover ==
  ASSUME Typed, Typed', \A u \in Tasks : sem[u] = 0,
         NEW rs, Settled(rs),
         \A u \in Tasks : pc'[u] \notin {"running", "signalling"},
         Distinct(pq_head'), Sorted(pq_head'), Carries(pq_head', priority'),
         \/ rs = {} /\ pq_head' = <<>> /\ TasksIn(pq_head') = {} /\ sem' = sem
         \/ \E w \in Tasks : Woken(w, rs, priority')
  PROVE  TaskInv'
<1>1. Passed'
  BY DEF Passed
<1>2. Ordered'
  BY DEF Ordered
<1>3. CASE rs = {} /\ pq_head' = <<>> /\ TasksIn(pq_head') = {} /\ sem' = sem
  <2>1. \A u \in Tasks : sem'[u] = 0
    BY <1>3
  <2>2. Ranked' /\ Refilled' /\ OneTaskAtATime' /\ ReadyTasksAreServed' /\ FullQuantum'
    BY <1>3, <2>1 DEF Ranked, Refilled, OneTaskAtATime, ReadyTasksAreServed, FullQuantum, Scheduled
  <2>3. NoTaskLost'
    BY <1>3, <2>1 DEF NoTaskLost, Suspended, Settled
  <2> QED BY <1>1, <1>2, <2>2, <2>3 DEF TaskInv
<1>4. ASSUME NEW w \in Tasks, Woken(w, rs, priority') PROVE TaskInv'
  <2>1. /\ w \in rs /\ TasksIn(pq_head') = rs \ {w} /\ ~topPrioAbove(pq_head', priority'[w])
        /\ \A u \in Tasks : sem'[u] = IF u = w THEN 1 ELSE 0
    <3>1. sem \in [Tasks -> Nat]
      BY DEF Typed, TypeOK
    <3>2. sem' = [sem EXCEPT ![w] = sem[w] + 1]
      BY <1>4 DEF Woken
    <3>3. \A u \in Tasks : sem'[u] = IF u = w THEN 1 ELSE 0
      BY <3>1, <3>2
    <3> QED BY <1>4, <3>3 DEF Woken
  <2>2. \A u \in Tasks : Scheduled(u)' <=> u = w
    BY <2>1 DEF Scheduled
  <2>3. OneTaskAtATime' /\ ReadyTasksAreServed'
    BY <2>2 DEF OneTaskAtATime, ReadyTasksAreServed
  <2>4. Ranked'
    BY <2>1 DEF Ranked
  <2>5. Refilled'
    BY <2>1 DEF Refilled, Settled
  <2>6. FullQuantum'
    BY <2>1, <2>2 DEF FullQuantum, Settled
  <2>7. NoTaskLost'
    BY <2>1 DEF NoTaskLost, Suspended, Settled
  <2> QED BY <1>1, <1>2, <2>3, <2>4, <2>5, <2>6, <2>7 DEF TaskInv
<1> QED BY <1>3, <1>4

(* The task t keeps the processor and is between two library calls.        *)
LEMMA Continue ==
  ASSUME Typed, Typed', \A u \in Tasks : sem[u] = 0, sem' = sem, NEW t \in Tasks,
         Settled(TasksIn(pq_head')),
         pc'[t] = "running", \A u \in Tasks \ {t} : pc'[u] \notin {"running", "signalling"},
         Distinct(pq_head'), Sorted(pq_head'), Carries(pq_head', priority'),
         ~topPrioAbove(pq_head', priority'[t]), timer'[t] \in 1..quantum'
  PROVE  TaskInv'
<1>1. \A u \in Tasks : Scheduled(u)' <=> u = t
  BY DEF Scheduled
<1>2. Passed'
  BY DEF Passed
<1>3. Ordered' /\ Refilled'
  BY DEF Ordered, Refilled, Settled
<1>4. Ranked' /\ OneTaskAtATime' /\ ReadyTasksAreServed' /\ FullQuantum'
  BY <1>1 DEF Ranked, OneTaskAtATime, ReadyTasksAreServed, FullQuantum
<1>5. NoTaskLost'
  BY DEF NoTaskLost, Suspended, Settled
<1> QED BY <1>2, <1>3, <1>4, <1>5 DEF TaskInv

(* In the present state: the READY tasks are those in the queue, and one   *)
(* that has the processor is not among them.                               *)
LEMMA Unsettled ==
  ASSUME Typed, IInv
  PROVE  /\ \A u \in Tasks : sem[u] = 0 =>
              (Suspended(u) <=> u \in TasksIn(pq_head) \/ io[u] # NoDevice)
         /\ \A u \in TasksIn(pq_head) : u \in Tasks /\ io[u] = NoDevice /\ timer[u] = quantum
         /\ pq_head \in Queues /\ timer \in Timers
         /\ \A u \in Tasks : priority[u] \in Nat
<1>1. pq_head \in Queues /\ timer \in Timers /\ \A u \in Tasks : priority[u] \in Nat
  <2>1. priority \in [Tasks -> 0..SO_MAX_PRIO]
    BY DEF Typed, TypeOK
  <2>2. \A u \in Tasks : priority[u] \in Nat
    BY <2>1 DEF SO_MAX_PRIO
  <2> QED BY <2>2 DEF Typed, TypeOK, Queues, Nodes, Timers
<1>2. \A u \in TasksIn(pq_head) : u \in Tasks
  BY <1>1, NodesOf DEF Queues, TasksIn
<1>3. \A u \in TasksIn(pq_head) : io[u] = NoDevice /\ timer[u] = quantum
  BY <1>2 DEF IInv, NoTaskLost, Refilled
<1>4. \A u \in Tasks : sem[u] = 0 =>
        (Suspended(u) <=> u \in TasksIn(pq_head) \/ io[u] # NoDevice)
  BY DEF IInv, NoTaskLost
<1> QED BY <1>1, <1>2, <1>3, <1>4

LEMMA EndThreadTasks ==
  ASSUME Typed, Typed', IInv, NEW t \in Tasks, end_thread(t)
  PROVE  TaskInv'
<1> DEFINE rs == TasksIn(pq_head)
<1>1. HasProcessor(t)
  BY DEF end_thread, HasProcessor
<1>2. /\ \A u \in Tasks : sem[u] = 0 /\ (u # t => ~HasProcessor(u))
      /\ t \notin rs /\ io[t] = NoDevice /\ quantum \in 1..UINT_MAX
  BY <1>1, SoleRunner
<1>3. pc \in [Tasks -> PCs] /\ UINT_MAX \in Nat /\ pc' = [pc EXCEPT ![t] = "done"]
      /\ UNCHANGED <<io, timer, quantum, priority>>
  BY ConstantsAssumption DEF Typed, TypeOK, end_thread, config
<1>4. /\ Distinct(pq_head') /\ Sorted(pq_head') /\ Carries(pq_head', priority')
      /\ \/ rs = {} /\ pq_head' = <<>> /\ TasksIn(pq_head') = {} /\ sem' = sem
         \/ \E w \in Tasks : Woken(w, rs, priority')
  <2>1. pq_head \in Queues /\ Distinct(pq_head) /\ Sorted(pq_head) /\ Carries(pq_head, priority')
    BY <1>3, Unsettled DEF IInv, Ordered, NoTaskLost
  <2> QED BY <2>1, WakeNext DEF end_thread
<1>5. Settled(rs)
  BY <1>2, <1>3, Unsettled DEF Settled, Suspended
<1>6. \A u \in Tasks : pc'[u] \notin {"running", "signalling"}
  BY <1>2, <1>3 DEF HasProcessor
<1> QED BY <1>2, <1>4, <1>5, <1>6, Handover

LEMMA WaitTasks ==
  ASSUME Typed, Typed', IInv, NEW t \in Tasks, NEW d \in Devices, so_wait(t, d)
  PROVE  TaskInv'
<1> DEFINE rs == TasksIn(pq_head)
<1>1. HasProcessor(t)
  BY DEF so_wait, HasProcessor
<1>2. /\ \A u \in Tasks : sem[u] = 0 /\ (u # t => ~HasProcessor(u))
      /\ t \notin rs /\ io[t] = NoDevice /\ quantum \in 1..UINT_MAX
  BY <1>1, SoleRunner
<1>3. pc \in [Tasks -> PCs] /\ UINT_MAX \in Nat /\ pc' = [pc EXCEPT ![t] = "park"]
      /\ io \in [Tasks -> {NoDevice} \cup Devices] /\ io' = [io EXCEPT ![t] = d] /\ d # NoDevice
      /\ UNCHANGED <<timer, quantum, priority>>
  <2>1. d # NoDevice /\ UINT_MAX \in Nat
    BY ConstantsAssumption DEF NoDevice
  <2> QED BY <2>1 DEF Typed, TypeOK, so_wait, config
<1>4. /\ Distinct(pq_head') /\ Sorted(pq_head') /\ Carries(pq_head', priority')
      /\ \/ rs = {} /\ pq_head' = <<>> /\ TasksIn(pq_head') = {} /\ sem' = sem
         \/ \E w \in Tasks : Woken(w, rs, priority')
  <2>1. pq_head \in Queues /\ Distinct(pq_head) /\ Sorted(pq_head) /\ Carries(pq_head, priority')
    BY <1>3, Unsettled DEF IInv, Ordered, NoTaskLost
  <2> QED BY <2>1, WakeNext DEF so_wait
<1>5. Settled(rs)
  BY <1>2, <1>3, Unsettled DEF Settled, Suspended
<1>6. \A u \in Tasks : pc'[u] \notin {"running", "signalling"}
  BY <1>2, <1>3 DEF HasProcessor
<1> QED BY <1>2, <1>4, <1>5, <1>6, Handover

(* A call of t that costs time: after it, q is the queue, tm the timers,   *)
(* and t keeps the processor or gives way.                                 *)
LEMMA PaidTasks ==
  ASSUME Typed, Typed', NEW t \in Tasks, NEW tm \in Timers, NEW q \in Queues,
         NEW pcs \in [Tasks -> PCs],
         \A u \in Tasks : sem[u] = 0,
         \A u \in Tasks \ {t} : pcs[u] \notin {"running", "signalling"},
         \A u \in Tasks \ {t} :
           pcs[u] \in {"park", "loaded", "blocked"} <=> u \in TasksIn(q) \/ io'[u] # NoDevice,
         TasksIn(q) \subseteq Tasks, t \notin TasksIn(q), io'[t] = NoDevice,
         \A u \in TasksIn(q) : io'[u] = NoDevice /\ tm[u] = quantum',
         tm[t] \in 1..quantum, quantum \in 1..UINT_MAX, quantum' = quantum,
         priority'[t] = priority[t], priority[t] \in Nat,
         Distinct(q), Sorted(q), Carries(q, priority'),
         PayTime(t, tm, q, pcs)
  PROVE  TaskInv'
<1>0. UINT_MAX \in Nat /\ quantum' \in Nat \ {0}
  BY ConstantsAssumption
<1>1. /\ Distinct(pq_head') /\ Sorted(pq_head') /\ Carries(pq_head', priority')
      /\ Kept(t, tm, q, pcs, priority') \/ GaveWay(t, tm, q, pcs, priority')
  BY Pay
<1>2. CASE Kept(t, tm, q, pcs, priority')
  <2>1. /\ pq_head' = q /\ sem' = sem /\ ~topPrioAbove(q, priority'[t])
        /\ pc' = [pcs EXCEPT ![t] = "running"]
        /\ timer' = [tm EXCEPT ![t] = Decrement(tm[t])] /\ tm[t] # 1
    BY <1>2 DEF Kept
  <2>2. timer'[t] \in 1..quantum'
    BY <1>0, <2>1 DEF Decrement, Timers
  <2>3. \A u \in TasksIn(q) : timer'[u] = quantum'
    BY <2>1 DEF Timers
  <2>4. Settled(TasksIn(pq_head'))
    BY <1>0, <2>1, <2>3 DEF Settled
  <2>5. pc'[t] = "running" /\ \A u \in Tasks \ {t} : pc'[u] \notin {"running", "signalling"}
    BY <2>1
  <2> QED BY <1>1, <2>1, <2>2, <2>4, <2>5, Continue
<1>3. CASE GaveWay(t, tm, q, pcs, priority')
  <2> DEFINE rs == TasksIn(q) \cup {t}
  <2>1. /\ timer' = [tm EXCEPT ![t] = quantum] /\ pc' = [pcs EXCEPT ![t] = "park"]
        /\ \E w \in Tasks : Woken(w, rs, priority')
    BY <1>3 DEF GaveWay
  <2>2. \A u \in rs : timer'[u] = quantum'
    BY <2>1 DEF Timers
  <2>3. \A u \in Tasks : pc'[u] = IF u = t THEN "park" ELSE pcs[u]
    BY <2>1
  <2>4. Settled(rs)
    BY <1>0, <2>2, <2>3 DEF Settled
  <2>5. \A u \in Tasks : pc'[u] \notin {"running", "signalling"}
    BY <2>3
  <2> QED BY <1>1, <2>1, <2>4, <2>5, Handover
<1> QED BY <1>1, <1>2, <1>3

LEMMA ExecTasks ==
  ASSUME Typed, Typed', IInv, NEW t \in Tasks, so_exec(t)
  PROVE  TaskInv'
<1>1. HasProcessor(t)
  BY DEF so_exec, HasProcessor
<1>2. /\ \A u \in Tasks : sem[u] = 0 /\ (u # t => ~HasProcessor(u))
      /\ t \notin TasksIn(pq_head) /\ io[t] = NoDevice
      /\ timer[t] \in 1..quantum /\ quantum \in 1..UINT_MAX
  BY <1>1, SoleRunner
<1>3. pc \in [Tasks -> PCs] /\ UNCHANGED <<io, quantum, priority>>
  BY DEF Typed, TypeOK, so_exec, config
<1>4. Distinct(pq_head) /\ Sorted(pq_head) /\ Carries(pq_head, priority')
  BY <1>3 DEF IInv, Ordered, NoTaskLost
<1>5. PayTime(t, timer, pq_head, pc)
  BY DEF so_exec
<1> QED BY <1>2, <1>3, <1>4, <1>5, Unsettled, PaidTasks DEF HasProcessor, Suspended

LEMMA ForkTasks ==
  ASSUME Typed, Typed', IInv, NEW t \in Tasks, NEW p \in Priorities, so_fork(t, p)
  PROVE  TaskInv'
<1> DEFINE new == arr_size
           q == enqueue(pq_head, new, p)
           tm == [timer EXCEPT ![new] = quantum]
           pcs == [pc EXCEPT ![new] = "park"]
<1>1. HasProcessor(t)
  BY DEF so_fork, HasProcessor
<1>2. /\ \A u \in Tasks : sem[u] = 0 /\ (u # t => ~HasProcessor(u))
      /\ t \notin TasksIn(pq_head) /\ io[t] = NoDevice
      /\ timer[t] \in 1..quantum /\ quantum \in 1..UINT_MAX /\ allocated /\ t < new
  BY <1>1, SoleRunner
<1>3. new \in Tasks /\ p \in Nat /\ new # t
  BY <1>2, ConstantsAssumption DEF so_fork, Typed, TypeOK, Tasks
<1>4. pc[new] = "unborn" /\ new \notin TasksIn(pq_head) /\ io[new] = NoDevice
  <2>1. pc[new] = "unborn"
    BY <1>2, <1>3 DEF IInv, Birth, Tasks
  <2> QED BY <1>2, <1>3, <2>1, Unsettled DEF Suspended
<1>5. /\ pc \in [Tasks -> PCs] /\ timer \in Timers
      /\ io \in [Tasks -> {NoDevice} \cup Devices] /\ priority \in [Tasks -> 0..SO_MAX_PRIO]
      /\ io' = [io EXCEPT ![new] = NoDevice] /\ priority' = [priority EXCEPT ![new] = p]
      /\ quantum' = quantum /\ quantum \in 0..UINT_MAX
  BY DEF Typed, TypeOK, so_fork, config, Timers
<1>6. /\ \A u \in Tasks : pcs[u] = IF u = new THEN "park" ELSE pc[u]
      /\ \A u \in Tasks : tm[u] = IF u = new THEN quantum ELSE timer[u]
      /\ io' = io /\ \A u \in Tasks : priority'[u] = IF u = new THEN p ELSE priority[u]
  BY <1>3, <1>4, <1>5 DEF Timers
<1>7. /\ pq_head \in Queues /\ q \in Queues /\ TasksIn(q) = TasksIn(pq_head) \cup {new}
      /\ \A u \in TasksIn(pq_head) : u \in Tasks /\ io[u] = NoDevice /\ timer[u] = quantum
  BY <1>3, Unsettled, EnqueueTyped, EnqueueTasks DEF Queues
<1>8. Carries(pq_head, priority')
  <2>1. \A i \in DOMAIN pq_head : pq_head[i].tIndex \in TasksIn(pq_head)
    BY DEF TasksIn
  <2> QED BY <1>4, <1>6, <1>7, <2>1 DEF IInv, Ordered, Carries
<1>9. Distinct(q) /\ Sorted(q) /\ Carries(q, priority')
  BY <1>3, <1>4, <1>6, <1>7, <1>8, EnqueueKeeps DEF IInv, Ordered, NoTaskLost, Queues
<1>10. PayTime(t, tm, q, pcs)
  BY DEF so_fork
<1>11. tm \in Timers /\ pcs \in [Tasks -> PCs]
  BY <1>5 DEF Timers, PCs
<1> HIDE DEF q, tm, pcs
<1>12. /\ \A u \in Tasks \ {t} : pcs[u] \notin {"running", "signalling"}
       /\ \A u \in Tasks \ {t} :
            pcs[u] \in {"park", "loaded", "blocked"} <=> u \in TasksIn(q) \/ io'[u] # NoDevice
  BY <1>2, <1>3, <1>4, <1>6, <1>7, Unsettled DEF HasProcessor, Suspended
<1>13. /\ TasksIn(q) \subseteq Tasks /\ t \notin TasksIn(q) /\ io'[t] = NoDevice
       /\ \A u \in TasksIn(q) : io'[u] = NoDevice /\ tm[u] = quantum'
       /\ tm[t] \in 1..quantum /\ priority'[t] = priority[t] /\ priority[t] \in Nat
  BY <1>2, <1>3, <1>4, <1>5, <1>6, <1>7, Unsettled
<1> QED BY <1>2, <1>5, <1>7, <1>9, <1>10, <1>11, <1>12, <1>13, PaidTasks

LEMMA SignalTasks ==
  ASSUME Typed, Typed', IInv, NEW t \in Tasks, NEW d \in Devices, so_signal(t, d)
  PROVE  TaskInv'
<1>1. /\ pc \in [Tasks -> PCs] /\ pc[t] = "running" /\ pc' = [pc EXCEPT ![t] = "signalling"]
      /\ loop' = [loop EXCEPT ![t] = [io |-> d, i |-> 0]]
      /\ loop \in [Tasks -> [io : {NoDevice} \cup Devices, i : 0..MaxTasks]]
      /\ UNCHANGED <<pq_head, priority, timer, io, sem, quantum>>
  BY DEF so_signal, Typed, TypeOK, config
<1>2. d # NoDevice
  BY ConstantsAssumption DEF NoDevice
<1>3. Passed'
  <2>1. \A u \in Tasks : ~(u < 0)
    BY DEF Tasks
  <2>2. loop'[t].io = d /\ loop'[t].i = 0
    BY <1>1
  <2>3. \A u \in Tasks \ {t} : pc'[u] = pc[u] /\ loop'[u] = loop[u]
    BY <1>1
  <2> QED BY <1>1, <1>2, <2>1, <2>2, <2>3 DEF Passed, IInv
<1>4. /\ \A u \in Tasks : Scheduled(u)' <=> Scheduled(u)
      /\ \A u \in Tasks : Suspended(u)' <=> Suspended(u)
      /\ \A u \in Tasks : pc'[u] = "running" => pc[u] = "running"
  BY <1>1 DEF Scheduled, Suspended
<1>5. Ordered' /\ Ranked' /\ Refilled' /\ ReadyTasksAreServed' /\ OneTaskAtATime' /\ FullQuantum'
  BY <1>1, <1>4 DEF IInv, Ordered, Ranked, Refilled, ReadyTasksAreServed, OneTaskAtATime,
     FullQuantum
<1>6. NoTaskLost'
  BY <1>1, <1>4 DEF IInv, NoTaskLost
<1> QED BY <1>3, <1>5, <1>6 DEF TaskInv

LEMMA IterationTasks ==
  ASSUME Typed, Typed', IInv, NEW t \in Tasks, signal_iteration(t)
  PROVE  TaskInv'
<1> DEFINE i == loop[t].i
           woken == io[i] = loop[t].io /\ i # t
<1>1. HasProcessor(t) /\ pc[t] = "signalling" /\ i < arr_size
  BY DEF signal_iteration, HasProcessor
<1>2. /\ \A u \in Tasks : sem[u] = 0 /\ (u # t => ~HasProcessor(u))
      /\ t \notin TasksIn(pq_head) /\ io[t] = NoDevice
      /\ timer[t] \in 1..quantum /\ quantum \in 1..UINT_MAX
  BY <1>1, SoleRunner
<1>3. i \in Tasks
  <2>1. i \in 0..MaxTasks /\ arr_size \in 0..MaxTasks /\ MaxTasks \in Nat
    BY ConstantsAssumption DEF Typed, TypeOK
  <2> QED BY <1>1, <2>1 DEF Tasks
<1>4. /\ pc \in [Tasks -> PCs] /\ timer \in Timers
      /\ io \in [Tasks -> {NoDevice} \cup Devices] /\ priority[i] \in Nat
      /\ loop \in [Tasks -> [io : {NoDevice} \cup Devices, i : 0..MaxTasks]]
      /\ loop' = [loop EXCEPT ![t].i = i + 1]
      /\ UNCHANGED <<pc, sem, priority, quantum>>
  BY <1>3, Unsettled DEF Typed, TypeOK, signal_iteration, config, Timers
<1>5. \A u \in Tasks : Scheduled(u) <=> u = t
  BY <1>1, <1>2 DEF Scheduled, HasProcessor
<1>6. \A u \in Tasks : Scheduled(u)' <=> u = t
  BY <1>4, <1>5 DEF Scheduled
<1>7. OneTaskAtATime' /\ ReadyTasksAreServed'
  BY <1>6 DEF OneTaskAtATime, ReadyTasksAreServed
<1>8. Ranked'
  BY <1>1, <1>2, <1>4 DEF Ranked, HasProcessor
<1>9. loop[t].io # NoDevice
  BY <1>1 DEF IInv, Passed
<1>10. io'[i] # loop[t].io /\ \A u \in Tasks \ {i} : io'[u] = io[u]
  BY <1>2, <1>3, <1>4, <1>9 DEF signal_iteration
<1>11. Passed'
  <2>1. loop'[t].io = loop[t].io /\ loop'[t].i = i + 1
    BY <1>4
  <2>2. \A u \in Tasks : u < i + 1 => u < i \/ u = i
    BY <1>3 DEF Tasks
  <2>3. \A u \in Tasks : u < i => io[u] # loop[t].io
    BY <1>1 DEF IInv, Passed
  <2>4. \A u \in Tasks : pc'[u] = "signalling" => u = t
    BY <1>2, <1>4 DEF HasProcessor
  <2> QED BY <1>9, <1>10, <2>1, <2>2, <2>3, <2>4 DEF Passed
<1>12. CASE woken
  <2> DEFINE q == enqueue(pq_head, i, priority[i])
  <2>1. /\ timer' = [timer EXCEPT ![i] = quantum] /\ io' = [io EXCEPT ![i] = NoDevice]
        /\ pq_head' = q
    BY <1>12 DEF signal_iteration
  <2>2. i \notin TasksIn(pq_head) /\ Suspended(i)
    BY <1>2, <1>3, <1>9, <1>12, Unsettled
  <2>3. TasksIn(q) = TasksIn(pq_head) \cup {i}
    BY <1>3, <1>4, Unsettled, EnqueueTasks DEF Queues
  <2>4. Distinct(q) /\ Sorted(q) /\ Carries(q, priority)
    BY <1>3, <1>4, <2>2, Unsettled, EnqueueKeeps DEF IInv, Ordered, NoTaskLost, Queues
  <2> HIDE DEF q
  <2>5. Ordered' /\ Distinct(pq_head')
    BY <1>4, <2>1, <2>4 DEF Ordered
  <2>6. \A u \in Tasks : timer'[u] = IF u = i THEN quantum ELSE timer[u]
    BY <1>3, <1>4, <2>1 DEF Timers
  <2>7. Refilled'
    <3>1. \A u \in TasksIn(q) : u \in Tasks /\ timer'[u] = quantum
      BY <1>3, <2>3, <2>6, Unsettled
    <3> QED BY <1>4, <2>1, <3>1 DEF Refilled
  <2>8. FullQuantum'
    BY <1>2, <1>4, <1>6, <1>12, <2>6 DEF FullQuantum
  <2>9. NoTaskLost'
    <3>1. \A u \in Tasks : sem'[u] = 0 /\ (Suspended(u)' <=> Suspended(u))
      BY <1>2, <1>4 DEF Suspended
    <3>2. \A u \in Tasks : io'[u] = IF u = i THEN NoDevice ELSE io[u]
      BY <1>3, <1>4, <2>1
    <3> QED BY <1>2, <1>3, <2>1, <2>2, <2>3, <2>5, <3>1, <3>2, Unsettled DEF NoTaskLost
  <2> QED BY <1>7, <1>8, <1>11, <2>5, <2>7, <2>8, <2>9 DEF TaskInv
<1>13. CASE ~woken
  <2>1. UNCHANGED <<timer, io, pq_head>>
    BY <1>13 DEF signal_iteration
  <2>2. Ordered' /\ Refilled' /\ FullQuantum'
    BY <1>4, <2>1 DEF IInv, Ordered, Refilled, FullQuantum, Scheduled
  <2>3. NoTaskLost'
    BY <1>4, <2>1 DEF IInv, NoTaskLost, Suspended
  <2> QED BY <1>7, <1>8, <1>11, <2>2, <2>3 DEF TaskInv
<1> QED BY <1>12, <1>13

LEMMA ReturnTasks ==
  ASSUME Typed, Typed', IInv, NEW t \in Tasks, signal_return(t)
  PROVE  TaskInv'
<1>1. HasProcessor(t)
  BY DEF signal_return, HasProcessor
<1>2. /\ \A u \in Tasks : sem[u] = 0 /\ (u # t => ~HasProcessor(u))
      /\ t \notin TasksIn(pq_head) /\ io[t] = NoDevice
      /\ timer[t] \in 1..quantum /\ quantum \in 1..UINT_MAX
  BY <1>1, SoleRunner
<1>3. pc \in [Tasks -> PCs] /\ UNCHANGED <<io, quantum, priority>>
  BY DEF Typed, TypeOK, signal_return, config
<1>4. Distinct(pq_head) /\ Sorted(pq_head) /\ Carries(pq_head, priority')
  BY <1>3 DEF IInv, Ordered, NoTaskLost
<1>5. PayTime(t, timer, pq_head, pc)
  BY DEF signal_return
<1> QED BY <1>2, <1>3, <1>4, <1>5, Unsettled, PaidTasks DEF HasProcessor, Suspended

LEMMA SemaphoreTasks ==
  ASSUME Typed, Typed', IInv, NEW t \in Tasks,
         load_sem(t) \/ enter_sem_wait(t) \/ leave_sem_wait(t)
  PROVE  TaskInv'
<1>1. /\ pc \in [Tasks -> PCs] /\ sem \in [Tasks -> Nat]
      /\ UNCHANGED <<pq_head, priority, timer, io, loop, quantum>>
  BY DEF load_sem, enter_sem_wait, leave_sem_wait, Typed, TypeOK, config
<1>2. CASE load_sem(t) \/ enter_sem_wait(t)
  <2>1. /\ sem' = sem
        /\ \A u \in Tasks : pc'[u] = pc[u] \/ (pc[u] \in {"park", "loaded"} /\ pc'[u] \in {"loaded", "blocked"})
    BY <1>1, <1>2 DEF load_sem, enter_sem_wait
  <2>2. /\ \A u \in Tasks : Scheduled(u)' <=> Scheduled(u)
        /\ \A u \in Tasks : Suspended(u)' <=> Suspended(u)
        /\ \A u \in Tasks : pc'[u] = "running" => pc[u] = "running"
        /\ \A u \in Tasks : pc'[u] = "signalling" => pc[u] = "signalling"
    BY <2>1 DEF Scheduled, Suspended
  <2>3. Passed' /\ Ordered' /\ Ranked' /\ Refilled' /\ ReadyTasksAreServed' /\ OneTaskAtATime'
    BY <1>1, <2>1, <2>2 DEF IInv, Passed, Ordered, Ranked, Refilled, ReadyTasksAreServed,
       OneTaskAtATime
  <2>4. FullQuantum' /\ NoTaskLost'
    BY <1>1, <2>1, <2>2 DEF IInv, FullQuantum, NoTaskLost
  <2> QED BY <2>3, <2>4 DEF TaskInv
<1>3. CASE leave_sem_wait(t)
  <2>1. /\ pc[t] = "blocked" /\ sem[t] > 0 /\ pc' = [pc EXCEPT ![t] = "running"]
        /\ sem' = [sem EXCEPT ![t] = sem[t] - 1]
    BY <1>3 DEF leave_sem_wait
  <2>2. sem[t] = 1 /\ t \notin TasksIn(pq_head) /\ io[t] = NoDevice
    BY <1>1, <2>1 DEF IInv, NoTaskLost
  <2>3. \A u \in Tasks : Scheduled(u) <=> u = t
    BY <2>1 DEF IInv, OneTaskAtATime, Scheduled
  <2>4. \A u \in Tasks : sem'[u] = 0
    BY <1>1, <2>1, <2>2, <2>3 DEF Scheduled
  <2>5. \A u \in Tasks : pc'[u] = IF u = t THEN "running" ELSE pc[u]
    BY <1>1, <2>1
  <2>6. \A u \in Tasks : Scheduled(u)' <=> u = t
    BY <2>3, <2>4, <2>5 DEF Scheduled
  <2>7. OneTaskAtATime' /\ ReadyTasksAreServed'
    BY <2>6 DEF OneTaskAtATime, ReadyTasksAreServed
  <2>8. \A u \in Tasks \ {t} : pc[u] \notin {"running", "signalling"} /\ sem[u] = 0
    BY <1>1, <2>3 DEF Scheduled
  <2>9. Passed' /\ Ordered' /\ Refilled'
    BY <1>1, <2>5 DEF IInv, Passed, Ordered, Refilled
  <2>10. Ranked'
    BY <1>1, <2>1, <2>4, <2>5, <2>8 DEF IInv, Ranked
  <2>11. FullQuantum'
    BY <1>1, <2>3, <2>4, <2>6 DEF IInv, FullQuantum
  <2>12. NoTaskLost'
    BY <1>1, <2>2, <2>4, <2>5, <2>8 DEF IInv, NoTaskLost, Suspended
  <2> QED BY <2>7, <2>9, <2>10, <2>11, <2>12 DEF TaskInv
<1> QED BY <1>2, <1>3

LEMMA TaskStepTasks ==
  ASSUME Typed, Typed', IInv, NEW t \in Tasks, TaskStep(t)
  PROVE  TaskInv'
BY EndThreadTasks, WaitTasks, ExecTasks, ForkTasks, SignalTasks, IterationTasks, ReturnTasks,
   SemaphoreTasks DEF TaskStep

(* A step of a task leaves the array's bookkeeping right.                  *)
LEMMA TaskStepArray ==
  ASSUME Typed, Typed', IInv, NEW t \in Tasks, TaskStep(t)
  PROVE  Birth' /\ Joined' /\ EntriesAllocated'
<1>0. /\ pc \in [Tasks -> PCs] /\ arr_size \in Nat /\ arr_max_size \in Nat /\ idx \in Nat
      /\ MaxTasks \in Nat
  BY ConstantsAssumption DEF Typed, TypeOK
<1>1. UNCHANGED <<allocated, quantum, main, idx, forks>>
  BY DEF TaskStep, load_sem, enter_sem_wait, leave_sem_wait, end_thread, so_exec, so_fork,
     so_wait, so_signal, signal_iteration, signal_return, array, config, taskVars, mainVars
<1>2. allocated /\ pc[t] # "done" /\ pc[t] # "unborn" /\ t < arr_size
  <2>1. pc[t] # "done" /\ pc[t] # "unborn"
    BY DEF TaskStep, load_sem, enter_sem_wait, leave_sem_wait, end_thread, so_exec, so_fork,
       so_wait, so_signal, signal_iteration, signal_return
  <2> QED BY <1>0, <2>1 DEF IInv, Birth, Tasks
<1>3. CASE \E p \in Priorities : so_fork(t, p)
  <2>1. PICK p \in Priorities : so_fork(t, p)
    BY <1>3
  <2> DEFINE new == arr_size
             pcs == [pc EXCEPT ![new] = "park"]
  <2>2. /\ arr_size' = arr_size + 1 /\ arr_size' < arr_max_size' /\ arr_max_size <= arr_max_size'
    BY <1>0, <1>2, <2>1 DEF so_fork, GrowArray, IInv, EntriesAllocated
  <2>3. pc' = [pcs EXCEPT ![t] = "park"] \/ pc' = [pcs EXCEPT ![t] = "running"]
    BY <2>1 DEF so_fork, PayTime, preemptThread
  <2>4. new \in Tasks
    BY <1>0, <2>1 DEF so_fork, Tasks
  <2>5. /\ \A u \in Tasks : pc'[u] = "unborn" <=> pc[u] = "unborn" /\ u # new
        /\ \A u \in Tasks : pc[u] = "done" /\ u # new => pc'[u] = "done"
    BY <1>0, <1>2, <2>3, <2>4
  <2>6. \A u \in Tasks : u < arr_size' <=> u < arr_size \/ u = new
    BY <1>0, <2>2 DEF Tasks
  <2>7. Birth'
    BY <1>0, <1>1, <1>2, <2>2, <2>5, <2>6 DEF IInv, Birth, Tasks
  <2>8. pc[new] = "unborn"
    BY <1>0, <1>2, <2>4 DEF IInv, Birth
  <2>9. Joined'
    BY <1>0, <1>1, <2>2, <2>5, <2>8 DEF IInv, Joined, Ending
  <2>10. EntriesAllocated'
    <3>1. \A u \in Tasks : pc'[u] # "unborn" => u < arr_size'
      BY <1>0, <1>1, <1>2, <2>2, <2>7 DEF Birth, Tasks
    <3>2. arr_size' \in Nat /\ arr_max_size' \in Nat /\ \A u \in Tasks : u \in Int
      BY <1>0 DEF Typed, TypeOK, Tasks
    <3> QED BY <2>2, <3>1, <3>2 DEF EntriesAllocated
  <2> QED BY <2>7, <2>9, <2>10
<1>4. CASE ~\E p \in Priorities : so_fork(t, p)
  <2>1. UNCHANGED <<arr_size, arr_max_size>>
    BY <1>4 DEF TaskStep, load_sem, enter_sem_wait, leave_sem_wait, end_thread, so_exec,
       so_wait, so_signal, signal_iteration, signal_return, array
  <2>2. \A u \in Tasks \ {t} : pc'[u] = pc[u]
    BY <1>0, <1>4 DEF TaskStep, load_sem, enter_sem_wait, leave_sem_wait, end_thread, so_exec,
       so_wait, so_signal, signal_iteration, signal_return, PayTime, preemptThread
  <2>3. pc'[t] # "unborn"
    BY <1>0, <1>2, <1>4 DEF TaskStep, load_sem, enter_sem_wait, leave_sem_wait, end_thread,
       so_exec, so_wait, so_signal, signal_iteration, signal_return, PayTime, preemptThread
  <2>4. Birth'
    BY <1>1, <1>2, <2>1, <2>2, <2>3 DEF IInv, Birth
  <2>5. Joined'
    BY <1>1, <1>2, <2>1, <2>2 DEF IInv, Joined, Ending
  <2>6. EntriesAllocated'
    BY <1>1, <1>2, <2>1, <2>2 DEF IInv, EntriesAllocated
  <2> QED BY <2>4, <2>5, <2>6
<1> QED BY <1>3, <1>4

(* A step of Main that only moves Main and the pointers it holds.          *)
LEMMA TasksUntouched ==
  ASSUME IInv, UNCHANGED <<pq_head, priority, timer, io, sem, pc, loop, quantum>>
  PROVE  TaskInv'
<1>1. Passed' /\ Ordered' /\ Ranked' /\ Refilled'
  BY DEF IInv, Passed, Ordered, Ranked, Refilled
<1>2. NoTaskLost' /\ OneTaskAtATime' /\ ReadyTasksAreServed' /\ FullQuantum'
  BY DEF IInv, NoTaskLost, OneTaskAtATime, ReadyTasksAreServed, FullQuantum, Scheduled, Suspended
<1> QED BY <1>1, <1>2 DEF TaskInv

(* Where no task was born, nothing is queued, posted or waiting.           *)
LEMMA Nobody ==
  ASSUME Typed, IInv, \A u \in Tasks : pc[u] \in {"unborn", "done"}, ~\E u \in Tasks : sem[u] > 0
  PROVE  /\ pq_head = <<>> /\ TasksIn(pq_head) = {}
         /\ \A u \in Tasks : sem[u] = 0 /\ io[u] = NoDevice
<1>1. \A u \in Tasks : ~Suspended(u)
  BY DEF Suspended
<1>2. \A u \in Tasks : u \notin TasksIn(pq_head) /\ io[u] = NoDevice
  BY <1>1 DEF IInv, NoTaskLost
<1>3. TasksIn(pq_head) = {}
  BY <1>2, Unsettled
<1>4. pq_head = <<>>
  BY <1>3, EmptyQueue, Unsettled
<1>5. sem \in [Tasks -> Nat]
  BY DEF Typed, TypeOK
<1> QED BY <1>2, <1>3, <1>4, <1>5

LEMMA NobodyPosted ==
  ASSUME Typed, IInv, \A u \in Tasks : pc[u] \in {"unborn", "done"}
  PROVE  ~\E u \in Tasks : sem[u] > 0
<1>1. \A u \in Tasks : sem[u] \in Nat /\ sem[u] <= 1 /\ sem[u] # 1
  BY DEF IInv, NoTaskLost, Suspended, Typed, TypeOK
<1> QED BY <1>1

LEMMA InitTasks ==
  ASSUME Typed, Typed', IInv, NEW q \in Quanta, NEW n \in IoCounts, so_init(q, n)
  PROVE  IInv'
<1>1. ~allocated /\ main = "idle"
  BY DEF so_init, IInv, Birth
<1>2. \A u \in Tasks : pc[u] = "unborn"
  BY <1>1 DEF IInv, Birth
<1>3. \A u \in Tasks : sem[u] = 0 /\ io[u] = NoDevice
  BY <1>2, Nobody, NobodyPosted
<1>4. /\ pq_head' = <<>> /\ main' = "ready" /\ allocated' /\ arr_size' = 0 /\ arr_max_size' = 1
      /\ quantum' >= 1 /\ UNCHANGED <<priority, timer, io, tid, sem, pc, loop>>
  BY DEF so_init
<1>5. TasksIn(pq_head') = {} /\ DOMAIN pq_head' = {}
  BY <1>4 DEF TasksIn
<1>6. Birth' /\ Joined' /\ EntriesAllocated'
  BY <1>2, <1>4 DEF Birth, Joined, EntriesAllocated, Ending, Tasks
<1>7. Passed' /\ Ordered' /\ Ranked' /\ Refilled'
  BY <1>2, <1>3, <1>4, <1>5 DEF Passed, Ordered, Sorted, Carries, Ranked, Refilled
<1>8. NoTaskLost' /\ OneTaskAtATime' /\ ReadyTasksAreServed' /\ FullQuantum'
  BY <1>2, <1>3, <1>4, <1>5 DEF NoTaskLost, OneTaskAtATime, ReadyTasksAreServed, FullQuantum,
     Scheduled, Suspended, Distinct
<1> QED BY <1>6, <1>7, <1>8 DEF IInv

LEMMA ForkMainTasks ==
  ASSUME MainForks <= 1, Typed, Typed', IInv, NEW p \in Priorities, so_fork_main(p)
  PROVE  IInv'
<1>1. allocated /\ arr_size = 0 /\ quantum >= 1
  <2>1. forks \in Nat /\ forks < MainForks /\ main = "ready"
    BY DEF so_fork_main, Typed, TypeOK
  <2>2. forks = 0
    BY <2>1, ConstantsAssumption
  <2> QED BY <2>1, <2>2 DEF IInv, Birth
<1>2. \A u \in Tasks : pc[u] = "unborn"
  BY <1>1 DEF IInv, Birth, Tasks
<1>3. pq_head = <<>> /\ TasksIn(pq_head) = {} /\ \A u \in Tasks : sem[u] = 0 /\ io[u] = NoDevice
  BY <1>2, Nobody, NobodyPosted
<1>4. 0 \in Tasks /\ p \in Nat
  BY ConstantsAssumption DEF Tasks
<1>5. /\ pc \in [Tasks -> PCs] /\ timer \in Timers /\ io \in [Tasks -> {NoDevice} \cup Devices]
      /\ forks \in Nat /\ quantum \in Nat /\ arr_max_size \in Nat
  BY ConstantsAssumption DEF Typed, TypeOK, Timers
<1>6. /\ pq_head' = <<>> /\ main' = "created" /\ allocated' /\ forks' = forks + 1
      /\ pc' = [pc EXCEPT ![0] = "running"] /\ timer' = [timer EXCEPT ![0] = quantum]
      /\ io' = [io EXCEPT ![0] = NoDevice]
      /\ UNCHANGED <<quantum, sem, loop>>
  BY <1>1, <1>3 DEF so_fork_main, config
<1>7. arr_size' = 1 /\ 1 < arr_max_size'
  BY <1>1, <1>5 DEF so_fork_main, GrowArray, IInv, EntriesAllocated
<1>8. TasksIn(pq_head') = {} /\ DOMAIN pq_head' = {}
  BY <1>6 DEF TasksIn
<1>9. \A u \in Tasks : /\ pc'[u] = IF u = 0 THEN "running" ELSE "unborn"
                       /\ io'[u] = NoDevice /\ sem'[u] = 0
  BY <1>2, <1>3, <1>4, <1>5, <1>6
<1>10. Birth' /\ Joined' /\ EntriesAllocated'
  <2>1. \A u \in Tasks : u >= 1 <=> u # 0
    BY DEF Tasks
  <2>2. \A u \in Tasks : pc'[u] # "unborn" => u = 0
    BY <1>9
  <2> QED BY <1>1, <1>5, <1>6, <1>7, <1>9, <2>1, <2>2 DEF Birth, Joined, EntriesAllocated, Ending
<1>11. Passed' /\ Ordered' /\ Ranked' /\ Refilled'
  BY <1>6, <1>8, <1>9 DEF Passed, Ordered, Sorted, Carries, Ranked, Refilled, topPrioAbove
<1>12. NoTaskLost' /\ OneTaskAtATime' /\ ReadyTasksAreServed'
  BY <1>6, <1>8, <1>9 DEF NoTaskLost, OneTaskAtATime, ReadyTasksAreServed, Scheduled, Suspended,
     Distinct
<1>13. FullQuantum'
  BY <1>1, <1>4, <1>5, <1>6, <1>9 DEF FullQuantum, Scheduled, Timers
<1> QED BY <1>10, <1>11, <1>12, <1>13 DEF IInv

(* so_end frees everything only when every task is done.                   *)
LEMMA EndReturnTasks ==
  ASSUME Typed, Typed', IInv, so_end_return
  PROVE  /\ \A u \in Tasks : pc[u] \in {"unborn", "done"} /\ sem[u] = 0
         /\ pq_head = <<>>
         /\ IInv'
<1>1. main = "join" /\ idx >= arr_size /\ allocated
  BY DEF so_end_return, JoinedAll, IInv, Birth
<1>2. arr_size \in Int /\ idx \in Int /\ \A u \in Tasks : u \in Int
  BY DEF Typed, TypeOK, Tasks
<1>3. \A u \in Tasks : pc[u] \in {"unborn", "done"}
  BY <1>1, <1>2 DEF IInv, Birth, Joined, Ending
<1>4. pq_head = <<>> /\ \A u \in Tasks : sem[u] = 0
  BY <1>3, Nobody, NobodyPosted
<1>5. /\ pq_head' = <<>> /\ main' = "idle" /\ ~allocated' /\ quantum' = quantum
      /\ \A u \in Tasks : sem'[u] = 0 /\ io'[u] = NoDevice /\ pc'[u] = "unborn"
  BY DEF so_end_return, config
<1>6. TasksIn(pq_head') = {} /\ DOMAIN pq_head' = {}
  BY <1>5 DEF TasksIn
<1>7. Birth' /\ Joined' /\ EntriesAllocated'
  BY <1>5 DEF Birth, Joined, EntriesAllocated, Ending
<1>8. Passed' /\ Ordered' /\ Ranked' /\ Refilled'
  BY <1>5, <1>6 DEF Passed, Ordered, Sorted, Carries, Ranked, Refilled
<1>9. NoTaskLost' /\ OneTaskAtATime' /\ ReadyTasksAreServed' /\ FullQuantum'
  BY <1>5, <1>6 DEF NoTaskLost, OneTaskAtATime, ReadyTasksAreServed, FullQuantum,
     Scheduled, Suspended, Distinct
<1>10. IInv'
  BY <1>7, <1>8, <1>9 DEF IInv
<1> QED BY <1>3, <1>4, <1>10

LEMMA MainStepInvariant ==
  ASSUME MainForks <= 1, Typed, Typed', IInv, MainStep
  PROVE  IInv'
<1>1. CASE \E q \in Quanta, n \in IoCounts : so_init(q, n)
  BY <1>1, InitTasks
<1>2. CASE \E p \in Priorities : so_fork_main(p)
  BY <1>2, ForkMainTasks
<1>3. CASE so_end_return
  BY <1>3, EndReturnTasks
<1>4. CASE \/ load_tid \/ store_tid \/ so_end \/ load_join \/ enter_join
           \/ leave_join \/ free_task \/ so_end_again
  <2>1. UNCHANGED <<allocated, arr_size, arr_max_size, quantum, pq_head, priority, timer, io,
                    sem, pc, loop, forks>>
    BY <1>4 DEF load_tid, store_tid, so_end, load_join, enter_join, leave_join, free_task,
       so_end_again, array, config, taskVars, mainVars
  <2>2. TaskInv'
    BY <2>1, TasksUntouched
  <2>3. EntriesAllocated'
    BY <2>1 DEF IInv, EntriesAllocated
  <2>4. main' = "idle" <=> main = "idle"
    BY <1>4 DEF load_tid, store_tid, so_end, load_join, enter_join, leave_join, free_task,
       so_end_again, taskVars, mainVars
  <2>5. Birth'
    BY <2>1, <2>4 DEF IInv, Birth
  <2>6. Joined'
    <3>1. CASE load_tid \/ store_tid
      BY <3>1 DEF load_tid, store_tid, Joined, Ending
    <3>2. CASE so_end
      BY <3>2 DEF so_end, Joined, Ending, Tasks
    <3>3. CASE load_join \/ enter_join
      BY <2>1, <3>3 DEF load_join, enter_join, IInv, Joined, Ending
    <3>4. CASE leave_join
      BY <2>1, <3>4 DEF leave_join, IInv, Joined, Ending
    <3>5. CASE free_task
      <4>1. \A u \in Tasks : u < idx + 1 => u < idx \/ u = idx
        BY DEF Typed, TypeOK, Tasks
      <4> QED BY <2>1, <3>5, <4>1 DEF free_task, IInv, Joined, Ending
    <3>6. CASE so_end_again
      BY <2>1, <3>6 DEF so_end_again, taskVars, mainVars, IInv, Joined, Ending
    <3> QED BY <1>4, <3>1, <3>2, <3>3, <3>4, <3>5, <3>6
  <2> QED BY <2>2, <2>3, <2>5, <2>6 DEF TaskInv, IInv
<1> QED BY <1>1, <1>2, <1>3, <1>4 DEF MainStep

LEMMA InitInvariant == Init => IInv
<1> SUFFICES ASSUME Init PROVE IInv
  OBVIOUS
<1>1. TasksIn(pq_head) = {} /\ DOMAIN pq_head = {}
  BY DEF Init, TasksIn
<1>2. \A u \in Tasks : pc[u] = "unborn" /\ sem[u] = 0 /\ io[u] = NoDevice
  BY DEF Init
<1>3. Birth /\ Joined /\ EntriesAllocated
  BY <1>2 DEF Init, Birth, Joined, EntriesAllocated, Ending
<1>4. Passed /\ Ordered /\ Ranked /\ Refilled
  BY <1>1, <1>2 DEF Passed, Ordered, Sorted, Carries, Ranked, Refilled
<1>5. NoTaskLost /\ OneTaskAtATime /\ ReadyTasksAreServed /\ FullQuantum
  BY <1>1, <1>2 DEF Init, NoTaskLost, OneTaskAtATime, ReadyTasksAreServed, FullQuantum,
     Scheduled, Suspended, Distinct
<1> QED BY <1>3, <1>4, <1>5 DEF IInv

LEMMA StepInvariant ==
  ASSUME MainForks <= 1, Typed, Typed', IInv, [Next]_vars
  PROVE  IInv'
<1>1. CASE MainStep
  BY <1>1, MainStepInvariant
<1>2. ASSUME NEW t \in Tasks, TaskStep(t) PROVE IInv'
  BY <1>2, TaskStepTasks, TaskStepArray DEF TaskInv, IInv
<1>3. CASE UNCHANGED vars
  <2>1. UNCHANGED <<allocated, arr_size, arr_max_size, quantum, pq_head, priority, timer, io,
                    sem, pc, loop, main, idx, forks>>
    BY <1>3 DEF vars, array, config, taskVars, mainVars
  <2>2. TaskInv'
    BY <2>1, TasksUntouched
  <2>3. Birth' /\ Joined' /\ EntriesAllocated'
    BY <2>1 DEF IInv, Birth, Joined, EntriesAllocated, Ending
  <2> QED BY <2>2, <2>3 DEF TaskInv, IInv
<1> QED BY <1>1, <1>2, <1>3 DEF Next
-----------------------------------------------------------------------------
(* When the initialising thread forks the first task only, as the comment  *)
(* at libscheduler.c:120 supposes, the strengthened invariant holds.       *)
THEOREM Invariance ==
  ASSUME MainForks <= 1
  PROVE  Spec => [](Typed /\ IInv)
<1>1. Init => Typed /\ IInv
  BY InitTyped, InitInvariant
<1>2. Typed /\ IInv /\ [Next]_vars => Typed' /\ IInv'
  BY TypedInductive, StepInvariant
<1> QED BY <1>1, <1>2, PTL DEF Spec

(* At any time at most one task has the processor.                         *)
THEOREM MutualExclusion ==
  ASSUME MainForks <= 1
  PROVE  Spec => []OneTaskAtATime
<1>1. IInv => OneTaskAtATime
  BY DEF IInv
<1> QED BY <1>1, Invariance, PTL

(* No wakeup is lost or doubled, even one that comes before its sleeper    *)
(* has reached sem_wait.                                                   *)
THEOREM NoLostWakeup ==
  ASSUME MainForks <= 1
  PROVE  Spec => []NoTaskLost
<1>1. IInv => NoTaskLost
  BY DEF IInv
<1> QED BY <1>1, Invariance, PTL

(* While the list of READY tasks is not empty some task has the processor: *)
(* no end of a handler, no so_wait and no preemption leaves them to nobody.*)
THEOREM ReadyServed ==
  ASSUME MainForks <= 1
  PROVE  Spec => []ReadyTasksAreServed
<1>1. IInv => ReadyTasksAreServed
  BY DEF IInv
<1> QED BY <1>1, Invariance, PTL

(* The running task has the highest priority among the READY ones.         *)
THEOREM PriorityRespected ==
  ASSUME MainForks <= 1
  PROVE  Spec => []HighestPriorityRuns
<1>1. IInv => HighestPriorityRuns
  BY DEF IInv, Ranked, HighestPriorityRuns
<1> QED BY <1>1, Invariance, PTL

(* Every turn is a full quantum, and the timer never wraps.                *)
THEOREM QuantumRespected ==
  ASSUME MainForks <= 1
  PROVE  Spec => []FullQuantum
<1>1. IInv => FullQuantum
  BY DEF IInv
<1> QED BY <1>1, Invariance, PTL

(* However often the array grows, so_fork's index is inside it.            *)
THEOREM ArrayLargeEnough ==
  ASSUME MainForks <= 1
  PROVE  Spec => []EntriesAllocated
<1>1. IInv => EntriesAllocated
  BY DEF IInv
<1> QED BY <1>1, Invariance, PTL

(* so_end frees what it frees only after every task has ended.             *)
THEOREM TeardownSafe ==
  ASSUME MainForks <= 1
  PROVE  Spec => TeardownQuiescent
<1> DEFINE Quiescent ==
      main = "join" /\ main' = "idle" =>
        /\ pq_head = <<>>
        /\ \A t \in Tasks : pc[t] \in {"unborn", "done"} /\ sem[t] = 0
<1>1. Typed /\ IInv /\ Typed' /\ [Next]_vars => [Quiescent]_vars
  <2> SUFFICES ASSUME Typed, IInv, Typed', Next, main = "join", main' = "idle"
               PROVE  so_end_return
    BY EndReturnTasks
  <2>1. ~\E t \in Tasks : TaskStep(t)
    BY DEF TaskStep, load_sem, enter_sem_wait, leave_sem_wait, end_thread, so_exec, so_fork,
       so_wait, so_signal, signal_iteration, signal_return, taskVars, mainVars
  <2>2. MainStep
    BY <2>1 DEF Next
  <2> QED BY <2>2 DEF MainStep, so_init, so_fork_main, load_tid, store_tid, so_end, load_join,
         enter_join, leave_join, free_task, so_end_again, taskVars, mainVars
<1> QED BY <1>1, Invariance, PTL DEF Spec, TeardownQuiescent

(* so_signal leaves no task waiting for the device it signals.             *)
THEOREM SignalComplete ==
  ASSUME MainForks <= 1
  PROVE  Spec => SignalWakesAll
<1> DEFINE Complete ==
      \A t \in Tasks : pc[t] = "signalling" /\ pc'[t] # "signalling" =>
        \A u \in Tasks : io[u] # loop[t].io
<1>1. ASSUME Typed, IInv, Typed', Next, NEW t \in Tasks, pc[t] = "signalling", pc'[t] # "signalling"
      PROVE  \A u \in Tasks : io[u] # loop[t].io
  <2>1. signal_return(t)
    <3>1. /\ HasProcessor(t) /\ t < arr_size /\ pc \in [Tasks -> PCs]
          /\ \A u \in Tasks : u # t => ~HasProcessor(u)
      BY <1>1, SoleRunner DEF HasProcessor, Typed, TypeOK
    <3>2. ASSUME MainStep PROVE FALSE
      <4>1. CASE so_end_return
        BY <1>1, <4>1, EndReturnTasks
      <4>2. CASE \E p \in Priorities : so_fork_main(p)
        <5>1. pc' = [pc EXCEPT ![arr_size] = IF arr_size = 0 THEN "running" ELSE "park"]
          BY <4>2 DEF so_fork_main
        <5>2. t # arr_size
          BY <3>1 DEF Tasks
        <5> QED BY <1>1, <3>1, <5>1, <5>2
      <4>3. CASE ~so_end_return /\ ~\E p \in Priorities : so_fork_main(p)
        BY <1>1, <3>2, <4>3 DEF MainStep, so_init, load_tid, store_tid, so_end, load_join,
           enter_join, leave_join, free_task, so_end_again, taskVars
      <4> QED BY <4>1, <4>2, <4>3
    <3>3. ASSUME NEW u \in Tasks, TaskStep(u), u # t PROVE FALSE
      <4>1. pc' = [pc EXCEPT ![u] = "loaded"] \/ pc' = [pc EXCEPT ![u] = "blocked"]
            \/ pc' = [pc EXCEPT ![u] = "running"]
        BY <3>1, <3>3 DEF TaskStep, load_sem, enter_sem_wait, leave_sem_wait, end_thread, so_exec,
           so_fork, so_wait, so_signal, signal_iteration, signal_return, HasProcessor
      <4> QED BY <1>1, <3>1, <3>3, <4>1
    <3>4. TaskStep(t)
      BY <1>1, <3>2, <3>3 DEF Next
    <3> QED BY <1>1, <3>4 DEF TaskStep, load_sem, enter_sem_wait, leave_sem_wait, end_thread,
         so_exec, so_fork, so_wait, so_signal, signal_iteration, signal_return
  <2>2. arr_size \in Nat /\ loop[t].i >= arr_size /\ \A u \in Tasks : u \in Int
    BY <1>1, <2>1 DEF signal_return, SignalledAll, Typed, TypeOK, Tasks
  <2>3. \A u \in Tasks : u < loop[t].i => io[u] # loop[t].io
    BY <1>1 DEF IInv, Passed
  <2>4. \A u \in Tasks : u >= arr_size => io[u] = NoDevice
    BY <1>1 DEF IInv, Birth, NoTaskLost, Suspended
  <2>5. loop[t].io # NoDevice /\ loop[t].i \in Int
    <3>1. loop[t].io # NoDevice
      BY <1>1 DEF IInv, Passed
    <3>2. loop \in [Tasks -> [io : {NoDevice} \cup Devices, i : 0..MaxTasks]]
      BY <1>1 DEF Typed, TypeOK
    <3> QED BY <3>1, <3>2
  <2> QED BY <2>2, <2>3, <2>4, <2>5
<1>2. Typed /\ IInv /\ Typed' /\ [Next]_vars => [Complete]_vars
  BY <1>1
<1> QED BY <1>2, Invariance, PTL DEF Spec, SignalWakesAll
=============================================================================
