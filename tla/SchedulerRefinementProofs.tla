---------------------- MODULE SchedulerRefinementProofs ----------------------
(***************************************************************************)
(* libscheduler.c implements the round robin scheduler, for any number of  *)
(* tasks, any priorities, quanta and devices, under every interleaving:    *)
(* each step is one of RoundRobin's, or leaves its state alone.            *)
(***************************************************************************)
EXTENDS SchedulerRefinement, SchedulerProofs, FiniteSetTheorems

(* Tasks, and places in a queue, in ascending order.                       *)

(* s lists the elements of S, the least one first.                         *)
Lists(s, S) ==
  /\ s \in Seq(S) /\ IsAscending(s)
  /\ \A x \in S : \E j \in DOMAIN s : s[j] = x

LEMMA ListsTyped ==
  ASSUME NEW S \in SUBSET Nat, NEW s, Lists(s, S)
  PROVE  /\ Len(s) \in Nat /\ DOMAIN s = 1..Len(s) /\ s \in [1..Len(s) -> S]
         /\ \A i \in DOMAIN s : s[i] \in S /\ s[i] \in Nat
         /\ \A i, j \in DOMAIN s : s[i] = s[j] => i = j
<1>1. s \in Seq(S)
  BY DEF Lists
<1>2. Len(s) \in Nat /\ DOMAIN s = 1..Len(s) /\ s \in [1..Len(s) -> S]
  BY <1>1
<1>3. \A i \in DOMAIN s : s[i] \in S /\ s[i] \in Nat
  BY <1>2
<1>4. \A i, j \in DOMAIN s : i < j => s[i] < s[j]
  BY DEF Lists, IsAscending
<1>5. \A i, j \in DOMAIN s : s[i] = s[j] => i = j
  BY <1>2, <1>3, <1>4
<1> QED BY <1>2, <1>3, <1>5

(* Two such lists agree up to any position, hence everywhere.              *)
LEMMA ListsAgree ==
  ASSUME NEW S \in SUBSET Nat, NEW s, NEW t, Lists(s, S), Lists(t, S),
         NEW m \in DOMAIN s, \A i \in 1..(m - 1) : i \in DOMAIN t /\ s[i] = t[i]
  PROVE  m \in DOMAIN t /\ t[m] <= s[m]
<1>1. /\ Len(s) \in Nat /\ DOMAIN s = 1..Len(s) /\ \A i \in DOMAIN s : s[i] \in S /\ s[i] \in Nat
      /\ Len(t) \in Nat /\ DOMAIN t = 1..Len(t) /\ \A i \in DOMAIN t : t[i] \in S /\ t[i] \in Nat
  BY ListsTyped
<1>2. PICK j \in DOMAIN t : t[j] = s[m]
  BY <1>1 DEF Lists
<1>3. ~(j < m)
  <2> SUFFICES ASSUME j < m PROVE FALSE
    OBVIOUS
  <2>1. j \in DOMAIN s /\ s[j] = s[m]
    BY <1>1, <1>2
  <2>2. s[j] < s[m]
    BY <2>1 DEF Lists, IsAscending
  <2> QED BY <1>1, <2>1, <2>2
<1>4. m \in DOMAIN t
  BY <1>1, <1>2, <1>3
<1>5. j = m \/ t[m] < t[j]
  BY <1>1, <1>3, <1>4 DEF Lists, IsAscending
<1> QED BY <1>1, <1>2, <1>4, <1>5

LEMMA ListsUnique ==
  ASSUME NEW S \in SUBSET Nat, NEW s, NEW t, Lists(s, S), Lists(t, S)
  PROVE  s = t
<1>1. /\ Len(s) \in Nat /\ DOMAIN s = 1..Len(s) /\ \A i \in DOMAIN s : s[i] \in S /\ s[i] \in Nat
      /\ Len(t) \in Nat /\ DOMAIN t = 1..Len(t) /\ \A i \in DOMAIN t : t[i] \in S /\ t[i] \in Nat
  BY ListsTyped
<1> DEFINE I == {i \in DOMAIN s \cup DOMAIN t : ~(i \in DOMAIN s \cap DOMAIN t /\ s[i] = t[i])}
<1>2. I = {}
  <2> SUFFICES ASSUME I # {} PROVE FALSE
    OBVIOUS
  <2>1. I \in SUBSET Nat
    BY <1>1
  <2>2. PICK m \in I : \A i \in I : m <= i
    BY <2>1, LeastNumber
  <2>3. ASSUME NEW i \in 1..(m - 1)
        PROVE  i \in DOMAIN s /\ i \in DOMAIN t /\ s[i] = t[i]
    <3>1. m \in Nat /\ ~(m <= i)
      BY <2>1
    <3>2. i \in DOMAIN s \cup DOMAIN t
      BY <1>1, <3>1
    <3>3. i \notin I
      BY <2>2, <3>1
    <3> QED BY <3>2, <3>3
  <2>4. m \in DOMAIN s /\ m \in DOMAIN t /\ t[m] <= s[m] /\ s[m] <= t[m]
    BY <2>3, ListsAgree
  <2>5. s[m] \in Nat /\ t[m] \in Nat
    BY <1>1, <2>4
  <2> QED BY <2>2, <2>4, <2>5
<1>3. Len(s) = Len(t)
  <2>1. \A i \in 1..Len(s) : i \in 1..Len(t)
    BY <1>1, <1>2
  <2>2. \A i \in 1..Len(t) : i \in 1..Len(s)
    BY <1>1, <1>2
  <2>3. Len(s) \in Nat /\ Len(t) \in Nat
    BY <1>1
  <2>4. Len(s) <= Len(t) /\ Len(t) <= Len(s)
    BY <2>1, <2>2, <2>3
  <2> QED BY <2>3, <2>4
<1>4. \A i \in DOMAIN s : s[i] = t[i]
  BY <1>1, <1>2
<1>5. s \in Seq(S) /\ t \in Seq(S)
  BY DEF Lists
<1> QED BY <1>1, <1>3, <1>4, <1>5, SeqEqual

(* A bounded set of naturals can be listed.                                *)
LEMMA ListsExtend ==
  ASSUME NEW n \in Nat, NEW S \in SUBSET (0..n), n \in S, NEW s, Lists(s, S \ {n})
  PROVE  Lists(Append(s, n), S)
<1>1. s \in Seq(S \ {n}) /\ Len(s) \in Nat /\ DOMAIN s = 1..Len(s)
      /\ \A i \in DOMAIN s : s[i] \in S /\ s[i] < n
  <2>1. s \in Seq(S \ {n})
    BY DEF Lists
  <2>2. Len(s) \in Nat /\ DOMAIN s = 1..Len(s) /\ \A i \in DOMAIN s : s[i] \in S \ {n}
    BY <2>1
  <2>3. \A x \in S \ {n} : x < n
    OBVIOUS
  <2> QED BY <2>1, <2>2, <2>3
<1>2. s \in Seq(S)
  BY <1>1
<1>3. /\ Append(s, n) \in Seq(S) /\ DOMAIN Append(s, n) = 1..(Len(s) + 1)
      /\ Append(s, n)[Len(s) + 1] = n /\ \A i \in 1..Len(s) : Append(s, n)[i] = s[i]
  BY <1>1, <1>2
<1>4. IsAscending(Append(s, n))
  BY <1>1, <1>3 DEF Lists, IsAscending
<1>5. \A x \in S : \E j \in DOMAIN Append(s, n) : Append(s, n)[j] = x
  <2> SUFFICES ASSUME NEW x \in S PROVE \E j \in DOMAIN Append(s, n) : Append(s, n)[j] = x
    OBVIOUS
  <2>1. CASE x = n
    BY <1>1, <1>3, <2>1
  <2>2. CASE x # n
    <3>1. PICK j \in DOMAIN s : s[j] = x
      BY <2>2 DEF Lists
    <3> QED BY <1>1, <1>3, <3>1
  <2> QED BY <2>1, <2>2
<1> QED BY <1>3, <1>4, <1>5 DEF Lists

LEMMA ListsExist ==
  ASSUME NEW n \in Nat, NEW S \in SUBSET (0..(n - 1))
  PROVE  \E s : Lists(s, S)
<1> DEFINE Fails == {k \in Nat : \E T \in SUBSET (0..(k - 1)) : \A s : ~Lists(s, T)}
<1>1. Fails = {}
  <2> SUFFICES ASSUME Fails # {} PROVE FALSE
    OBVIOUS
  <2>1. PICK m \in Fails : \A k \in Fails : m <= k
    BY LeastNumber
  <2>2. PICK T \in SUBSET (0..(m - 1)) : \A s : ~Lists(s, T)
    BY <2>1
  <2>3. m # 0
    <3> SUFFICES ASSUME m = 0 PROVE FALSE
      OBVIOUS
    <3>1. T = {}
      OBVIOUS
    <3>2. << >> \in Seq(T) /\ DOMAIN << >> = {}
      OBVIOUS
    <3>3. Lists(<< >>, T)
      BY <3>1, <3>2 DEF Lists, IsAscending
    <3> QED BY <2>2, <3>3
  <2>4. m \in Nat /\ m - 1 \in Nat /\ m - 1 \notin Fails
    <3>1. m \in Nat
      OBVIOUS
    <3>2. m - 1 \in Nat /\ ~(m <= m - 1)
      BY <2>3, <3>1
    <3> QED BY <2>1, <3>1, <3>2
  <2> HIDE DEF Fails
  <2>5. \A U \in SUBSET (0..((m - 1) - 1)) : \E s : Lists(s, U)
    BY <2>4 DEF Fails
  <2>6. T \ {m - 1} \in SUBSET (0..((m - 1) - 1))
    <3>1. \A x \in T : x \in Nat /\ x <= m - 1
      BY <2>4
    <3>2. \A x \in T \ {m - 1} : x \in 0..((m - 1) - 1)
      BY <2>4, <3>1
    <3> QED BY <3>2
  <2>7. PICK s : Lists(s, T \ {m - 1})
    BY <2>5, <2>6
  <2>8. CASE m - 1 \in T
    BY <2>2, <2>4, <2>7, <2>8, ListsExtend
  <2>9. CASE m - 1 \notin T
    <3>1. T \ {m - 1} = T
      BY <2>9
    <3> QED BY <2>2, <2>7, <3>1
  <2> QED BY <2>8, <2>9
<1>2. n \notin Fails
  BY <1>1
<1> QED BY <1>2

(* Ascending(S) is that list.                                              *)
LEMMA ListsCount ==
  ASSUME NEW S \in SUBSET Nat, NEW s, Lists(s, S)
  PROVE  IsFiniteSet(S) /\ Cardinality(S) = Len(s)
<1>1. /\ Len(s) \in Nat /\ DOMAIN s = 1..Len(s) /\ s \in [1..Len(s) -> S]
      /\ \A i, j \in 1..Len(s) : s[i] = s[j] => i = j
  BY ListsTyped
<1>2. \A x \in S : \E j \in 1..Len(s) : s[j] = x
  BY <1>1 DEF Lists
<1>3. s \in Injection(1..Len(s), S)
  BY <1>1 DEF Injection, IsInjective
<1>4. s \in Surjection(1..Len(s), S)
  BY <1>1, <1>2 DEF Surjection
<1>5. ExistsBijection(1..Len(s), S)
  BY <1>3, <1>4 DEF ExistsBijection, Bijection
<1> QED BY <1>1, <1>5, FS_CountingElements, FS_NatBijection

LEMMA AscendingLists ==
  ASSUME NEW S \in SUBSET Nat, NEW s, Lists(s, S)
  PROVE  Ascending(S) = s
<1> DEFINE n == Cardinality(S)
           r == Ascending(S)
<1>1. IsFiniteSet(S) /\ n = Len(s) /\ s \in [1..n -> S] /\ n \in Nat
  BY ListsCount, ListsTyped
<1>2. r \in [1..n -> S] /\ IsAscending(r)
  <2>1. \E x \in [1..n -> S] : IsAscending(x)
    BY <1>1 DEF Lists
  <2> QED BY <2>1 DEF Ascending
<1> HIDE DEF r, n
<1>3. r \in Seq(S) /\ DOMAIN r = 1..n
  BY <1>1, <1>2
<1>4. r \in Injection(1..n, S)
  <2>1. \A j, k \in 1..n : j < k => r[j] < r[k]
    BY <1>2, <1>3 DEF IsAscending
  <2>2. \A j \in 1..n : r[j] \in Nat
    BY <1>2
  <2>3. \A j, k \in 1..n : r[j] = r[k] => j = k
    BY <1>1, <2>1, <2>2
  <2> QED BY <1>2, <2>3 DEF Injection, IsInjective
<1>5. Cardinality(1..n) = n
  <2>1. 1 \in Int /\ n \in Int
    BY <1>1
  <2>2. Cardinality(1..n) = IF 1 > n THEN 0 ELSE n - 1 + 1
    BY <2>1, FS_Interval
  <2> QED BY <1>1, <2>2
<1>6. r \in Surjection(1..n, S)
  BY <1>1, <1>4, <1>5, FS_Injection DEF n
<1>7. Lists(r, S)
  BY <1>2, <1>3, <1>6 DEF Lists, Surjection
<1> QED BY <1>7, ListsUnique DEF r

LEMMA AscendingOf ==
  ASSUME NEW n \in Nat, NEW S \in SUBSET (0..(n - 1))
  PROVE  Lists(Ascending(S), S)
<1>1. PICK s : Lists(s, S)
  BY ListsExist
<1>2. S \in SUBSET Nat
  OBVIOUS
<1> QED BY <1>1, <1>2, AscendingLists

LEMMA ListsEmpty == Lists(<<>>, {})
<1>1. <<>> \in Seq({}) /\ DOMAIN <<>> = {}
  OBVIOUS
<1> QED BY <1>1 DEF Lists, IsAscending

(* The least element comes first, the others after it.                     *)
LEMMA ListsLeast ==
  ASSUME NEW S \in SUBSET Nat, NEW m \in S, \A x \in S : m <= x,
         NEW s, Lists(s, S \ {m})
  PROVE  Lists(<<m>> \o s, S)
<1> DEFINE r == <<m>> \o s
<1>1. /\ s \in Seq(S \ {m}) /\ Len(s) \in Nat /\ DOMAIN s = 1..Len(s)
      /\ \A i \in DOMAIN s : s[i] \in S /\ m < s[i]
  <2>1. s \in Seq(S \ {m})
    BY DEF Lists
  <2>2. Len(s) \in Nat /\ DOMAIN s = 1..Len(s) /\ \A i \in DOMAIN s : s[i] \in S \ {m}
    BY <2>1
  <2>3. \A x \in S \ {m} : m < x
    OBVIOUS
  <2> QED BY <2>1, <2>2, <2>3
<1>2. s \in Seq(S) /\ <<m>> \in Seq(S) /\ Len(<<m>>) = 1
  BY <1>1
<1>3. r \in Seq(S) /\ DOMAIN r = 1..(Len(s) + 1)
      /\ r[1] = m /\ \A i \in 1..Len(s) : r[i + 1] = s[i]
  BY <1>1, <1>2
<1> HIDE DEF r
<1>4. \A i \in 2..(Len(s) + 1) : i - 1 \in DOMAIN s /\ r[i] = s[i - 1]
  BY <1>1, <1>3
<1>5. IsAscending(r)
  <2> SUFFICES ASSUME NEW j \in DOMAIN r, NEW k \in DOMAIN r, j < k PROVE r[j] < r[k]
    BY DEF IsAscending
  <2>1. k \in 2..(Len(s) + 1) /\ (j = 1 \/ j \in 2..(Len(s) + 1))
    BY <1>1, <1>3
  <2>2. CASE j = 1
    BY <1>1, <1>3, <1>4, <2>1, <2>2
  <2>3. CASE j \in 2..(Len(s) + 1)
    <3>1. j - 1 \in DOMAIN s /\ k - 1 \in DOMAIN s /\ j - 1 < k - 1
      BY <1>4, <2>1, <2>3
    <3>2. s[j - 1] < s[k - 1]
      BY <3>1 DEF Lists, IsAscending
    <3> QED BY <1>4, <2>1, <2>3, <3>2
  <2> QED BY <2>1, <2>2, <2>3
<1>6. \A x \in S : \E j \in DOMAIN r : r[j] = x
  <2> SUFFICES ASSUME NEW x \in S PROVE \E j \in DOMAIN r : r[j] = x
    OBVIOUS
  <2>1. CASE x = m
    BY <1>1, <1>3, <2>1
  <2>2. CASE x # m
    <3>1. PICK i \in DOMAIN s : s[i] = x
      BY <2>2 DEF Lists
    <3>2. i + 1 \in DOMAIN r /\ r[i + 1] = x
      BY <1>1, <1>3, <3>1
    <3> QED BY <3>2
  <2> QED BY <2>1, <2>2
<1> QED BY <1>3, <1>5, <1>6 DEF Lists, r

(* A function that keeps the order takes lists to lists.                   *)
LEMMA ListsMoved ==
  ASSUME NEW S \in SUBSET Nat, NEW T \in SUBSET Nat, NEW s, Lists(s, S),
         NEW f \in [S -> T], \A i, j \in S : i < j => f[i] < f[j],
         \A y \in T : \E x \in S : f[x] = y
  PROVE  Lists([k \in DOMAIN s |-> f[s[k]]], T)
<1> DEFINE r == [k \in DOMAIN s |-> f[s[k]]]
<1>1. Len(s) \in Nat /\ DOMAIN s = 1..Len(s) /\ \A i \in DOMAIN s : s[i] \in S
  BY ListsTyped
<1>2. DOMAIN r = 1..Len(s) /\ \A i \in 1..Len(s) : r[i] = f[s[i]] /\ r[i] \in T
  BY <1>1
<1>3. r \in Seq(T)
  BY <1>1
<1>4. IsAscending(r)
  <2>1. \A j, k \in DOMAIN s : j < k => s[j] < s[k]
    BY DEF Lists, IsAscending
  <2> QED BY <1>1, <1>2, <2>1 DEF IsAscending
<1>5. \A y \in T : \E j \in DOMAIN r : r[j] = y
  <2> SUFFICES ASSUME NEW y \in T PROVE \E j \in DOMAIN r : r[j] = y
    OBVIOUS
  <2>1. PICK x \in S : f[x] = y
    OBVIOUS
  <2>2. PICK j \in DOMAIN s : s[j] = x
    BY DEF Lists
  <2> QED BY <1>1, <1>2, <2>1, <2>2
<1> HIDE DEF r
<1>6. Lists(r, T)
  BY <1>3, <1>4, <1>5 DEF Lists
<1> QED BY <1>6 DEF r
-----------------------------------------------------------------------------
(* The tasks queued at one priority, before and after a queue operation.   *)

LEMMA PositionsTyped ==
  ASSUME NEW q \in Queues, NEW p
  PROVE  /\ Positions(q, p) \in SUBSET Nat
         /\ Lists(Ascending(Positions(q, p)), Positions(q, p))
         /\ \A i \in Positions(q, p) : i \in 1..Len(q) /\ q[i].prio = p /\ q[i].tIndex \in Tasks
<1>1. Len(q) \in Nat /\ DOMAIN q = 1..Len(q) /\ \A i \in DOMAIN q : q[i].tIndex \in Tasks
  BY NodesOf DEF Queues
<1>2. PICK n \in Nat : n = Len(q) + 1
  BY <1>1
<1>3. Positions(q, p) \in SUBSET (0..(n - 1))
  BY <1>1, <1>2 DEF Positions
<1>4. Lists(Ascending(Positions(q, p)), Positions(q, p))
  BY <1>3, AscendingOf
<1> QED BY <1>1, <1>4 DEF Positions

(* at lists the places of the nodes of priority p.                         *)
LEMMA QueuedAtList ==
  ASSUME NEW q \in Queues, NEW p, NEW at, Lists(at, Positions(q, p))
  PROVE  /\ QueuedAt(q, p) = [k \in DOMAIN at |-> q[at[k]].tIndex]
         /\ QueuedAt(q, p) \in Seq(Tasks)
<1>1. Positions(q, p) \in SUBSET Nat
      /\ \A i \in Positions(q, p) : q[i].tIndex \in Tasks
  BY PositionsTyped
<1>2. Ascending(Positions(q, p)) = at
  BY <1>1, AscendingLists
<1>3. Len(at) \in Nat /\ DOMAIN at = 1..Len(at) /\ \A i \in DOMAIN at : at[i] \in Positions(q, p)
  BY <1>1, ListsTyped
<1>4. QueuedAt(q, p) = [k \in DOMAIN at |-> q[at[k]].tIndex]
  BY <1>2 DEF QueuedAt
<1>5. [k \in DOMAIN at |-> q[at[k]].tIndex] \in [1..Len(at) -> Tasks]
  BY <1>1, <1>3
<1> QED BY <1>3, <1>4, <1>5

LEMMA QueuedAtTyped ==
  ASSUME NEW q \in Queues, NEW p
  PROVE  QueuedAt(q, p) \in Seq(Tasks)
BY PositionsTyped, QueuedAtList

LEMMA QueuedAtEmpty ==
  ASSUME NEW q \in Queues, NEW p
  PROVE  QueuedAt(q, p) = <<>> <=> Positions(q, p) = {}
<1> DEFINE at == Ascending(Positions(q, p))
<1>1. Lists(at, Positions(q, p)) /\ Positions(q, p) \in SUBSET Nat
  BY PositionsTyped
<1> HIDE DEF at
<1>2. /\ QueuedAt(q, p) = [k \in DOMAIN at |-> q[at[k]].tIndex]
      /\ QueuedAt(q, p) \in Seq(Tasks)
  BY <1>1, QueuedAtList
<1>3. /\ Len(at) \in Nat /\ DOMAIN at = 1..Len(at)
      /\ \A i \in DOMAIN at : at[i] \in Positions(q, p)
      /\ \A x \in Positions(q, p) : \E j \in DOMAIN at : at[j] = x
  BY <1>1, ListsTyped DEF Lists
<1>4. DOMAIN at = {} <=> Positions(q, p) = {}
  BY <1>3
<1>5. DOMAIN QueuedAt(q, p) = DOMAIN at
  BY <1>2
<1>6. QueuedAt(q, p) = <<>> <=> DOMAIN QueuedAt(q, p) = {}
  BY <1>2
<1> QED BY <1>4, <1>5, <1>6

(* Nodes that keep their order list the same tasks.                        *)
LEMMA QueuedAtMoved ==
  ASSUME NEW q \in Queues, NEW r \in Queues, NEW p,
         NEW f \in [Positions(q, p) -> Positions(r, p)],
         \A i, j \in Positions(q, p) : i < j => f[i] < f[j],
         \A j \in Positions(r, p) : \E i \in Positions(q, p) : f[i] = j,
         \A i \in Positions(q, p) : r[f[i]].tIndex = q[i].tIndex
  PROVE  QueuedAt(r, p) = QueuedAt(q, p)
<1> DEFINE at == Ascending(Positions(q, p))
           bt == [k \in DOMAIN at |-> f[at[k]]]
<1>1. /\ Positions(q, p) \in SUBSET Nat /\ Positions(r, p) \in SUBSET Nat
      /\ Lists(at, Positions(q, p))
  BY PositionsTyped
<1> HIDE DEF at
<1>2. Lists(bt, Positions(r, p))
  BY <1>1, ListsMoved
<1>3. \A i \in DOMAIN at : at[i] \in Positions(q, p)
  BY <1>1, ListsTyped
<1>4. QueuedAt(q, p) = [k \in DOMAIN at |-> q[at[k]].tIndex]
  BY <1>1, QueuedAtList
<1>5. QueuedAt(r, p) = [k \in DOMAIN bt |-> r[bt[k]].tIndex]
  BY <1>2, QueuedAtList
<1>6. DOMAIN bt = DOMAIN at /\ \A k \in DOMAIN at : r[bt[k]].tIndex = q[at[k]].tIndex
  BY <1>3
<1> HIDE DEF bt
<1> QED BY <1>4, <1>5, <1>6

(* enqueue puts the task behind those of its priority.                     *)
LEMMA QueuedAtEnqueue ==
  ASSUME NEW q \in Queues, Sorted(q), NEW t \in Tasks, NEW p0 \in Nat, NEW p
  PROVE  /\ enqueue(q, t, p0) \in Queues
         /\ QueuedAt(enqueue(q, t, p0), p) =
              IF p = p0 THEN Append(QueuedAt(q, p), t) ELSE QueuedAt(q, p)
<1> DEFINE e == enqueue(q, t, p0)
           k == InsertPos(q, p0)
<1>1. /\ e \in Queues /\ k \in 1..(Len(q) + 1)
      /\ \A i \in 1..(k - 1) : q[i].prio >= p0
      /\ k <= Len(q) => q[k].prio < p0
  BY InsertPosSplits, EnqueueTyped DEF Queues
<1>2. Inserted(q, e, k, pqNode(t, p0))
  BY EnqueueInserts DEF Queues
<1>3. /\ Len(q) \in Nat /\ DOMAIN q = 1..Len(q) /\ DOMAIN e = 1..(Len(q) + 1)
      /\ \A i \in DOMAIN q : q[i].prio \in Nat
      /\ e[k].tIndex = t /\ e[k].prio = p0
      /\ \A i \in DOMAIN q : i < k => e[i] = q[i]
      /\ \A i \in DOMAIN q : i >= k => e[i + 1] = q[i]
  <2>1. /\ DOMAIN e = 1..(Len(q) + 1) /\ e[k] = pqNode(t, p0)
        /\ \A i \in 1..(k - 1) : e[i] = q[i]
        /\ \A i \in (k + 1)..(Len(q) + 1) : e[i] = q[i - 1]
    BY <1>2 DEF Inserted
  <2>2. Len(q) \in Nat /\ DOMAIN q = 1..Len(q) /\ \A i \in DOMAIN q : q[i].prio \in Nat
    BY NodesOf DEF Queues
  <2>3. \A i \in DOMAIN q : i < k => e[i] = q[i]
    BY <1>1, <2>1, <2>2
  <2>4. ASSUME NEW i \in DOMAIN q, i >= k PROVE e[i + 1] = q[i]
    <3>1. i + 1 \in (k + 1)..(Len(q) + 1) /\ (i + 1) - 1 = i
      BY <1>1, <2>2, <2>4
    <3>2. e[i + 1] = q[(i + 1) - 1]
      BY <2>1, <3>1
    <3> QED BY <3>1, <3>2
  <2>5. e[k].tIndex = t /\ e[k].prio = p0
    BY <2>1 DEF pqNode
  <2> QED BY <2>1, <2>2, <2>3, <2>4, <2>5
<1>4. \A i \in DOMAIN q : i >= k => q[i].prio < p0
  <2> SUFFICES ASSUME NEW i \in DOMAIN q, i >= k PROVE q[i].prio < p0
    OBVIOUS
  <2>1. k \in DOMAIN q /\ q[k].prio < p0 /\ q[k].prio >= q[i].prio
    BY <1>1, <1>3 DEF Sorted
  <2> QED BY <1>3, <2>1
<1> HIDE DEF e, k
<1>5. CASE p = p0
  <2> DEFINE at == Ascending(Positions(q, p))
  <2>1. /\ Lists(at, Positions(q, p)) /\ Positions(q, p) \in SUBSET Nat
    BY PositionsTyped
  <2>2. \A i \in Positions(q, p) : i \in DOMAIN q /\ i < k
    BY <1>1, <1>3, <1>4, <1>5 DEF Positions
  <2>3. Positions(e, p) = Positions(q, p) \cup {k}
    <3>1. \A i \in Positions(q, p) : i \in Positions(e, p)
      BY <1>3, <2>2 DEF Positions
    <3>2. k \in Positions(e, p)
      BY <1>1, <1>3, <1>5 DEF Positions
    <3>3. ASSUME NEW i \in Positions(e, p), i # k PROVE i \in Positions(q, p)
      <4>1. i \in 1..(Len(q) + 1) /\ e[i].prio = p0
        BY <1>3, <1>5 DEF Positions
      <4>2. ~(i > k)
        <5> SUFFICES ASSUME i > k PROVE FALSE
          OBVIOUS
        <5>1. i - 1 \in DOMAIN q /\ i - 1 >= k /\ (i - 1) + 1 = i
          BY <1>1, <1>3, <4>1
        <5>2. e[i] = q[i - 1] /\ q[i - 1].prio < p0 /\ q[i - 1].prio \in Nat
          BY <1>3, <1>4, <5>1
        <5> QED BY <4>1, <5>2
      <4>3. i \in DOMAIN q /\ i < k
        BY <1>1, <1>3, <3>3, <4>1, <4>2
      <4> QED BY <1>3, <1>5, <4>1, <4>3 DEF Positions
    <3> QED BY <3>1, <3>2, <3>3
  <2>4. Lists(Append(at, k), Positions(e, p))
    <3>1. k \in Nat /\ k \in Positions(e, p) /\ Positions(e, p) \ {k} = Positions(q, p)
      BY <1>1, <2>2, <2>3
    <3>2. Positions(e, p) \in SUBSET (0..k)
      BY <1>1, <2>1, <2>2, <2>3
    <3> QED BY <2>1, <3>1, <3>2, ListsExtend
  <2> HIDE DEF at
  <2>5. /\ Len(at) \in Nat /\ DOMAIN at = 1..Len(at)
        /\ \A i \in DOMAIN at : at[i] \in Positions(q, p)
        /\ at \in Seq(Nat)
    <3>1. at \in Seq(Positions(q, p))
      BY <2>1 DEF Lists
    <3>2. at \in Seq(Nat)
      BY <2>1, <3>1
    <3> QED BY <2>1, <3>2, ListsTyped
  <2>6. /\ QueuedAt(q, p) = [i \in DOMAIN at |-> q[at[i]].tIndex]
        /\ QueuedAt(q, p) \in Seq(Tasks)
    BY <2>1, QueuedAtList
  <2>7. QueuedAt(e, p) = [i \in DOMAIN Append(at, k) |-> e[Append(at, k)[i]].tIndex]
    BY <1>1, <2>4, QueuedAtList
  <2>8. /\ DOMAIN Append(at, k) = 1..(Len(at) + 1) /\ Append(at, k)[Len(at) + 1] = k
        /\ \A i \in 1..Len(at) : Append(at, k)[i] = at[i]
    BY <2>5
  <2>9. \A i \in 1..Len(at) : e[at[i]] = q[at[i]]
    BY <1>3, <2>2, <2>5
  <2>10. Len(QueuedAt(q, p)) = Len(at) /\ \A i \in 1..Len(at) : QueuedAt(q, p)[i] = q[at[i]].tIndex
    BY <2>5, <2>6
  <2>11. /\ DOMAIN Append(QueuedAt(q, p), t) = 1..(Len(at) + 1)
         /\ Append(QueuedAt(q, p), t)[Len(at) + 1] = t
         /\ \A i \in 1..Len(at) : Append(QueuedAt(q, p), t)[i] = q[at[i]].tIndex
         /\ Append(QueuedAt(q, p), t) \in Seq(Tasks)
    BY <2>6, <2>10
  <2>12. \A i \in 1..(Len(at) + 1) : QueuedAt(e, p)[i] = Append(QueuedAt(q, p), t)[i]
    <3> SUFFICES ASSUME NEW i \in 1..(Len(at) + 1)
                 PROVE  QueuedAt(e, p)[i] = Append(QueuedAt(q, p), t)[i]
      OBVIOUS
    <3>1. QueuedAt(e, p)[i] = e[Append(at, k)[i]].tIndex
      BY <2>7, <2>8
    <3>2. CASE i = Len(at) + 1
      BY <1>3, <2>8, <2>11, <3>1, <3>2
    <3>3. CASE i \in 1..Len(at)
      BY <2>8, <2>9, <2>11, <3>1, <3>3
    <3>4. i = Len(at) + 1 \/ i \in 1..Len(at)
      BY <2>5
    <3> QED BY <3>2, <3>3, <3>4, Zenon
  <2>13. QueuedAt(e, p) \in Seq(Tasks) /\ Len(QueuedAt(e, p)) = Len(at) + 1
    <3>1. QueuedAt(e, p) \in Seq(Tasks)
      BY <1>1, QueuedAtTyped
    <3>2. DOMAIN QueuedAt(e, p) = 1..(Len(at) + 1)
      BY <2>7, <2>8
    <3> QED BY <2>5, <3>1, <3>2
  <2>14. Len(Append(QueuedAt(q, p), t)) = Len(at) + 1
    BY <2>6, <2>10
  <2>15. QueuedAt(e, p) = Append(QueuedAt(q, p), t)
    BY <2>11, <2>12, <2>13, <2>14, SeqEqual
  <2> QED BY <1>1, <1>5, <2>15 DEF e
<1>6. CASE p # p0
  <2> DEFINE f == [i \in Positions(q, p) |-> IF i < k THEN i ELSE i + 1]
  <2>1. \A i \in Positions(q, p) : i \in Nat /\ i \in DOMAIN q /\ q[i].prio = p
    BY <1>3 DEF Positions
  <2>2. k \in Nat
    BY <1>1
  <2>3. \A i \in Positions(q, p) : f[i] \in DOMAIN e /\ e[f[i]] = q[i]
    BY <1>3, <2>1, <2>2
  <2>4. f \in [Positions(q, p) -> Positions(e, p)]
    BY <2>1, <2>3 DEF Positions
  <2>5. \A i, j \in Positions(q, p) : i < j => f[i] < f[j]
    BY <2>1, <2>2
  <2>6. ASSUME NEW j \in Positions(e, p) PROVE \E i \in Positions(q, p) : f[i] = j
    <3>1. j \in 1..(Len(q) + 1) /\ e[j].prio = p /\ j # k
      BY <1>3, <1>6 DEF Positions
    <3>2. CASE j < k
      <4>1. j \in DOMAIN q /\ e[j] = q[j]
        BY <1>1, <1>3, <3>1, <3>2
      <4>2. j \in Positions(q, p) /\ f[j] = j
        BY <3>1, <3>2, <4>1 DEF Positions
      <4> QED BY <4>2
    <3>3. CASE j > k
      <4>1. j - 1 \in DOMAIN q /\ j - 1 >= k /\ (j - 1) + 1 = j
        BY <1>1, <1>3, <3>1, <3>3
      <4>2. e[j] = q[j - 1]
        BY <1>3, <4>1
      <4>3. j - 1 \in Positions(q, p) /\ ~(j - 1 < k)
        BY <2>2, <3>1, <4>1, <4>2 DEF Positions
      <4>4. f[j - 1] = j
        BY <4>1, <4>3
      <4> QED BY <4>3, <4>4
    <3> QED BY <2>2, <3>1, <3>2, <3>3
  <2> HIDE DEF f
  <2>7. \A i \in Positions(q, p) : e[f[i]].tIndex = q[i].tIndex
    BY <2>3
  <2>8. QueuedAt(e, p) = QueuedAt(q, p)
    BY <1>1, <2>4, <2>5, <2>6, <2>7, QueuedAtMoved
  <2> QED BY <1>1, <1>6, <2>8 DEF e
<1> QED BY <1>5, <1>6

(* dequeue takes the first task of the highest priority in the queue.      *)
LEMMA QueuedAtDequeue ==
  ASSUME NEW q \in Queues, Sorted(q), q # <<>>, NEW p
  PROVE  /\ dequeue(q) \in Queues
         /\ p = Head(q).prio => /\ QueuedAt(q, p) # <<>>
                                /\ Head(QueuedAt(q, p)) = dequeued(q)
                                /\ QueuedAt(dequeue(q), p) = Tail(QueuedAt(q, p))
         /\ p # Head(q).prio => QueuedAt(dequeue(q), p) = QueuedAt(q, p)
<1> DEFINE d == dequeue(q)
<1>1. /\ d \in Queues /\ Len(q) \in Nat \ {0} /\ DOMAIN q = 1..Len(q)
      /\ DOMAIN d = 1..(Len(q) - 1)
      /\ \A i \in DOMAIN q : i # 1 => i - 1 \in DOMAIN d /\ d[i - 1] = q[i]
      /\ Head(q) = q[1] /\ dequeued(q) = q[1].tIndex
  <2>1. q \in Seq(Nodes(Tasks)) /\ Len(q) \in Nat \ {0} /\ DOMAIN q = 1..Len(q) /\ Head(q) = q[1]
    BY DEF Queues
  <2>2. /\ d \in Seq(Nodes(Tasks)) /\ Len(d) = Len(q) - 1
        /\ \A i \in 1..(Len(q) - 1) : d[i] = q[i + 1]
    BY <2>1 DEF dequeue
  <2> HIDE DEF d
  <2>3. ASSUME NEW i \in DOMAIN q, i # 1 PROVE i - 1 \in 1..(Len(q) - 1) /\ d[i - 1] = q[i]
    <3>1. i - 1 \in 1..(Len(q) - 1) /\ (i - 1) + 1 = i
      BY <2>1, <2>3
    <3>2. d[i - 1] = q[(i - 1) + 1]
      BY <2>2, <3>1
    <3> QED BY <3>1, <3>2
  <2>4. DOMAIN d = 1..(Len(q) - 1)
    BY <2>1, <2>2
  <2>5. dequeued(q) = q[1].tIndex
    BY <2>1 DEF dequeued
  <2> QED BY <2>1, <2>2, <2>3, <2>4, <2>5 DEF Queues
<1> HIDE DEF d
(* The nodes behind the first one, one place up.                           *)
<1> DEFINE S == Positions(q, p) \ {1}
           f == [i \in S |-> i - 1]
<1>2. \A i \in S : i \in Nat /\ i > 1 /\ i \in DOMAIN q /\ q[i].prio = p
  BY <1>1 DEF Positions
<1>3. f \in [S -> Positions(d, p)]
  BY <1>1, <1>2 DEF Positions
<1>4. \A i, j \in S : i < j => f[i] < f[j]
  BY <1>2
<1>5. ASSUME NEW j \in Positions(d, p) PROVE \E i \in S : f[i] = j
  <2>1. j \in 1..(Len(q) - 1) /\ d[j].prio = p
    BY <1>1 DEF Positions
  <2>2. j + 1 \in DOMAIN q /\ j + 1 # 1 /\ (j + 1) - 1 = j
    BY <1>1, <2>1
  <2>3. d[j] = q[j + 1]
    BY <1>1, <2>2
  <2>4. j + 1 \in S
    BY <2>1, <2>2, <2>3 DEF Positions
  <2>5. f[j + 1] = j
    BY <2>2, <2>4
  <2> QED BY <2>4, <2>5
<1>6. \A i \in S : d[f[i]].tIndex = q[i].tIndex
  BY <1>1, <1>2
<1>7. S \in SUBSET Nat /\ Positions(d, p) \in SUBSET Nat /\ Positions(q, p) \in SUBSET Nat
  BY <1>1, PositionsTyped
<1>8. CASE p # Head(q).prio
  <2>1. S = Positions(q, p)
    BY <1>1, <1>8 DEF Positions
  <2> HIDE DEF f, S
  <2>2. f \in [Positions(q, p) -> Positions(d, p)]
    BY <1>3, <2>1
  <2>3. QueuedAt(d, p) = QueuedAt(q, p)
    BY <1>1, <1>4, <1>5, <1>6, <2>1, <2>2, QueuedAtMoved
  <2> QED BY <1>1, <1>8, <2>3 DEF d
<1>9. CASE p = Head(q).prio
  <2>1. 1 \in Positions(q, p)
    BY <1>1, <1>9 DEF Positions
  <2>2. PICK n \in Nat : n = Len(q) + 1
    BY <1>1
  <2>3. S \in SUBSET (0..(n - 1))
    BY <1>1, <1>2, <2>2
  <2> HIDE DEF f, S
  <2>4. PICK bt : Lists(bt, S)
    BY <2>3, ListsExist
  <2> DEFINE at == <<1>> \o bt
             ct == [k \in DOMAIN bt |-> f[bt[k]]]
  <2>5. Lists(at, Positions(q, p))
    <3>1. \A x \in Positions(q, p) : 1 <= x
      BY <1>1 DEF Positions
    <3> QED BY <1>7, <2>1, <2>4, <3>1, ListsLeast DEF S
  <2>6. Lists(ct, Positions(d, p))
    BY <1>3, <1>4, <1>5, <1>7, <2>4, ListsMoved
  <2>7. /\ Len(bt) \in Nat /\ DOMAIN bt = 1..Len(bt) /\ bt \in Seq(Nat)
        /\ \A i \in DOMAIN bt : bt[i] \in S
    <3>1. bt \in Seq(S)
      BY <2>4 DEF Lists
    <3> QED BY <1>7, <2>4, <3>1, ListsTyped
  <2>8. /\ DOMAIN at = 1..(Len(bt) + 1) /\ at[1] = 1
        /\ \A k \in 1..Len(bt) : at[k + 1] = bt[k]
    BY <2>7
  <2>9. DOMAIN ct = 1..Len(bt) /\ \A k \in 1..Len(bt) : d[ct[k]].tIndex = q[bt[k]].tIndex
    BY <1>6, <2>7
  <2> HIDE DEF at, ct
  <2>10. /\ QueuedAt(q, p) = [k \in DOMAIN at |-> q[at[k]].tIndex] /\ QueuedAt(q, p) \in Seq(Tasks)
         /\ QueuedAt(d, p) = [k \in DOMAIN ct |-> d[ct[k]].tIndex] /\ QueuedAt(d, p) \in Seq(Tasks)
    BY <1>1, <2>5, <2>6, QueuedAtList
  <2>11. Len(QueuedAt(q, p)) = Len(bt) + 1 /\ Len(QueuedAt(d, p)) = Len(bt)
    BY <2>7, <2>8, <2>9, <2>10
  <2>12. QueuedAt(q, p) # <<>> /\ Head(QueuedAt(q, p)) = q[1].tIndex
    <3>1. QueuedAt(q, p) # <<>>
      BY <2>7, <2>10, <2>11
    <3>2. Head(QueuedAt(q, p)) = QueuedAt(q, p)[1]
      BY <2>10, <3>1
    <3>3. QueuedAt(q, p)[1] = q[at[1]].tIndex
      BY <2>7, <2>8, <2>10
    <3> QED BY <2>8, <3>1, <3>2, <3>3
  <2>13. \A k \in 1..Len(bt) : QueuedAt(d, p)[k] = QueuedAt(q, p)[k + 1]
    <3> SUFFICES ASSUME NEW k \in 1..Len(bt) PROVE QueuedAt(d, p)[k] = QueuedAt(q, p)[k + 1]
      OBVIOUS
    <3>1. k + 1 \in DOMAIN at /\ at[k + 1] = bt[k]
      BY <2>7, <2>8
    <3>2. QueuedAt(q, p)[k + 1] = q[at[k + 1]].tIndex
      BY <2>10, <3>1
    <3>3. QueuedAt(d, p)[k] = d[ct[k]].tIndex
      BY <2>9, <2>10
    <3> QED BY <2>9, <3>1, <3>2, <3>3
  <2>14. PICK a \in Seq(Tasks) : a = QueuedAt(q, p)
    BY <2>10
  <2>15. /\ Tail(a) \in Seq(Tasks) /\ Len(Tail(a)) = Len(bt)
         /\ \A k \in 1..Len(bt) : Tail(a)[k] = a[k + 1]
    BY <2>7, <2>11, <2>12, <2>14, HeadTailProperties
  <2>16. QueuedAt(d, p) = Tail(QueuedAt(q, p))
    <3>1. PICK b \in Seq(Tasks) : b = QueuedAt(d, p)
      BY <2>10
    <3>2. Len(b) = Len(Tail(a)) /\ \A k \in 1..Len(b) : b[k] = Tail(a)[k]
      BY <2>11, <2>13, <2>14, <2>15, <3>1
    <3>3. b = Tail(a)
      BY <2>15, <3>2, SeqEqual
    <3> QED BY <2>14, <3>1, <3>3
  <2> QED BY <1>1, <1>9, <2>12, <2>16 DEF d
<1> QED BY <1>8, <1>9
-----------------------------------------------------------------------------
(* The mapping, while so_signal has nobody left to wake.                  *)

NoneWaking == \A t \in Tasks : ~AboutToWake(t)

LEMMA Mapping ==
  ASSUME Typed, NoneWaking
  PROVE  /\ deviceBar = io
         /\ readyBar = [p \in Levels |-> QueuedAt(pq_head, p)]
<1>1. io \in [Tasks -> {NoDevice} \cup Devices] /\ pq_head \in Queues
  BY DEF Typed, TypeOK, Queues, Nodes
<1>2. deviceBar = io
  BY <1>1 DEF deviceBar, NoneWaking
<1>3. \A p : ReadyAt(p) = QueuedAt(pq_head, p)
  <2> SUFFICES ASSUME NEW p PROVE ReadyAt(p) = QueuedAt(pq_head, p)
    OBVIOUS
  <2>1. WakingAt(p) = {}
    BY DEF WakingAt, NoneWaking
  <2>2. Ascending(WakingAt(p)) = <<>>
    BY <2>1, ListsEmpty, AscendingLists
  <2>3. QueuedAt(pq_head, p) \in Seq(Tasks)
    BY <1>1, QueuedAtTyped
  <2> QED BY <2>2, <2>3 DEF ReadyAt
<1> QED BY <1>2, <1>3 DEF readyBar

LEMMA MappingNext ==
  (Typed /\ NoneWaking => /\ deviceBar = io
                          /\ readyBar = [p \in Levels |-> QueuedAt(pq_head, p)])'
<1>1. Typed /\ NoneWaking => /\ deviceBar = io
                             /\ readyBar = [p \in Levels |-> QueuedAt(pq_head, p)]
  BY Mapping
<1> QED BY <1>1, PTL

(* The status of a task that has not the processor.                        *)
Resting(where, waitsFor) ==
  IF where = "unborn" THEN "none"
  ELSE IF where = "done" THEN "ended"
  ELSE IF waitsFor # NoDevice THEN "waiting"
  ELSE "ready"

(* The processor is handed over (wakeNextThread) as the abstract scheduler *)
(* dispatches: q is the queue, and every task is at rest.                  *)
LEMMA Dispatches ==
  ASSUME Typed, Typed', NEW q \in Queues, Sorted(q), wakeNextThread(q),
         \A i \in DOMAIN q : q[i].prio \in Levels,
         \A u \in Tasks : sem[u] = 0,
         \A u \in Tasks : pc'[u] \notin {"running", "signalling"},
         \A u \in TasksIn(q) : pc'[u] \notin {"unborn", "done"} /\ timer'[u] = quantum,
         NEW sts, sts = [u \in Tasks |-> Resting(pc'[u], io'[u])]
  PROVE  RR!Dispatch(sts, [p \in Levels |-> QueuedAt(q, p)]) /\ deviceBar' = io'
<1> DEFINE rs == [p \in Levels |-> QueuedAt(q, p)]
<1>1. /\ owesBar' = FALSE /\ deviceBar' = io'
      /\ readyBar' = [p \in Levels |-> QueuedAt(pq_head', p)]
      /\ \A u \in Tasks : ~AboutToWake(u)'
  <2>1. owesBar' = FALSE
    BY DEF owesBar
  <2>2. \A u \in Tasks : ~AboutToWake(u)'
    BY DEF AboutToWake
  <2>3. NoneWaking'
    BY <2>2 DEF NoneWaking
  <2> QED BY <2>1, <2>2, <2>3, MappingNext
<1>2. sem \in [Tasks -> Nat]
  BY DEF Typed, TypeOK
<1>3. CASE q = <<>> /\ pq_head' = q /\ UNCHANGED sem
  <2>1. \A u \in Tasks : ~Scheduled(u)'
    BY <1>3 DEF Scheduled
  <2>2. \A p \in Levels : rs[p] = <<>>
    <3>1. \A p : Positions(q, p) = {}
      BY <1>3 DEF Positions
    <3> QED BY <3>1, QueuedAtEmpty
  <2>3. readyBar' = rs
    BY <1>1, <1>3
  <2>4. statusBar' = sts
    BY <1>1, <2>1 DEF statusBar, StatusOf, Resting
  <2>5. TimeLeft' = 0
    BY <2>1 DEF TimeLeft
  <2> HIDE DEF rs
  <2>6. RR!Dispatch(sts, rs)
    BY <1>1, <2>2, <2>3, <2>4, <2>5 DEF RR!Dispatch
  <2> QED BY <1>1, <2>6 DEF rs
<1>4. CASE q # <<>> /\ pq_head' = dequeue(q) /\ sem' = [sem EXCEPT ![dequeued(q)] = @ + 1]
  <2> DEFINE w == dequeued(q)
             p == Head(q).prio
  <2>1. /\ Len(q) \in Nat \ {0} /\ DOMAIN q = 1..Len(q) /\ Head(q) = q[1]
        /\ w = q[1].tIndex /\ w \in Tasks /\ w \in TasksIn(q) /\ p \in Levels
        /\ \A i \in DOMAIN q : q[i].prio \in Nat
    <3>1. q # <<>>
      BY <1>4
    <3>2. Len(q) \in Nat \ {0} /\ DOMAIN q = 1..Len(q) /\ Head(q) = q[1]
      BY <3>1, EmptySeq DEF Queues
    <3>3. w \in Tasks /\ w \in TasksIn(q)
      BY <3>1, DequeueTyped DEF Queues
    <3>4. w = q[1].tIndex
      BY <3>2 DEF dequeued
    <3>5. p \in Levels
      BY <3>2
    <3>6. \A i \in DOMAIN q : q[i].prio \in Nat
      BY NodesOf DEF Queues
    <3> HIDE DEF p, w
    <3> QED BY <3>2, <3>3, <3>4, <3>5, <3>6
  <2>2. \A u \in Tasks : Scheduled(u)' <=> u = w
    BY <1>2, <1>4, <2>1 DEF Scheduled
  <2>3. /\ rs[p] # <<>> /\ Head(rs[p]) = w
        /\ readyBar' = [r \in Levels |-> IF r = p THEN Tail(rs[p]) ELSE rs[r]]
    <3>1. /\ QueuedAt(q, p) # <<>> /\ Head(QueuedAt(q, p)) = w
          /\ QueuedAt(dequeue(q), p) = Tail(QueuedAt(q, p))
      BY <1>4, QueuedAtDequeue
    <3>2. \A r \in Levels : r # p => QueuedAt(dequeue(q), r) = QueuedAt(q, r)
      BY <1>4, QueuedAtDequeue
    <3> HIDE DEF p, w
    <3>3. readyBar' = [r \in Levels |-> IF r = p THEN Tail(rs[p]) ELSE rs[r]]
      BY <1>1, <1>4, <2>1, <3>1, <3>2
    <3> QED BY <2>1, <3>1, <3>3
  <2>4. ~RR!Better(p, rs)
    <3> SUFFICES ASSUME NEW r \in Levels, r > p, rs[r] # <<>> PROVE FALSE
      BY DEF RR!Better
    <3>1. Positions(q, r) # {}
      BY QueuedAtEmpty
    <3>2. PICK i \in DOMAIN q : q[i].prio = r
      BY <3>1 DEF Positions
    <3>3. q[1].prio >= q[i].prio
      BY <2>1 DEF Sorted
    <3> QED BY <2>1, <3>2, <3>3
  <2>5. statusBar' = [sts EXCEPT ![w] = "running"]
    <3>1. pc'[w] \notin {"unborn", "done"}
      BY <2>1
    <3> HIDE DEF w
    <3>2. \A u \in Tasks : StatusOf(u)' = IF u = w THEN "running" ELSE Resting(pc'[u], io'[u])
      BY <1>1, <2>2, <3>1 DEF StatusOf, Resting
    <3> QED BY <2>1, <3>2 DEF statusBar
  <2>6. TimeLeft' = quantum
    <3>1. timer'[w] = quantum
      BY <2>1
    <3>2. \E u \in Tasks : Scheduled(u)'
      BY <2>1, <2>2
    <3>3. (CHOOSE u \in Tasks : Scheduled(u)') = w
      BY <2>1, <2>2
    <3> QED BY <3>1, <3>2, <3>3 DEF TimeLeft
  <2> HIDE DEF rs, w, p
  <2>7. RR!Dispatch(sts, rs)
    BY <1>1, <2>1, <2>3, <2>4, <2>5, <2>6 DEF RR!Dispatch
  <2> QED BY <1>1, <2>7 DEF rs
<1> QED BY <1>3, <1>4 DEF wakeNextThread

(* A call of the running task t costs what it costs in the abstract        *)
(* scheduler: q is the queue, tm the timers and pcs where the tasks are,   *)
(* before t pays.                                                          *)
LEMMA Pays ==
  ASSUME Typed, Typed', NEW t \in Tasks, NEW tm \in Timers, NEW q \in Queues,
         NEW pcs \in [Tasks -> PCs], PayTime(t, tm, q, pcs),
         Sorted(q), t \notin TasksIn(q),
         \A i \in DOMAIN q : q[i].prio \in Levels,
         priority[t] \in Levels, priority'[t] = priority[t],
         \A u \in Tasks : sem[u] = 0,
         \A u \in Tasks \ {t} : pcs[u] \notin {"running", "signalling"},
         \A u \in TasksIn(q) : pcs[u] \notin {"unborn", "done"} /\ tm[u] = quantum,
         io'[t] = NoDevice, quantum \in 1..UINT_MAX,
         TimeLeft = tm[t], tm[t] \in 1..quantum,
         NEW sts,
         sts = [u \in Tasks |-> IF u = t THEN "running" ELSE Resting(pcs[u], io'[u])]
  PROVE  RR!Pay(t, sts, [p \in Levels |-> QueuedAt(q, p)]) /\ deviceBar' = io'
<1> DEFINE rs == [p \in Levels |-> QueuedAt(q, p)]
           left == Decrement(tm[t])
           paid == [tm EXCEPT ![t] = left]
<1>1. /\ Levels \subseteq Nat /\ UINT_MAX \in Nat /\ tm[t] \in Nat \ {0} /\ left = tm[t] - 1
      /\ Len(q) \in Nat /\ DOMAIN q = 1..Len(q)
  <2>1. Levels \subseteq Nat /\ UINT_MAX \in Nat
    BY ConstantsAssumption DEF Levels
  <2>2. tm[t] \in Nat \ {0}
    BY <2>1
  <2>3. left = tm[t] - 1
    BY <2>2 DEF Decrement
  <2>4. Len(q) \in Nat /\ DOMAIN q = 1..Len(q)
    BY DEF Queues
  <2> HIDE DEF left
  <2> QED BY <2>1, <2>2, <2>3, <2>4
<1>2. topPrioAbove(q, priority[t]) <=> RR!Better(priority'[t], rs)
  <2>1. ASSUME topPrioAbove(q, priority[t]) PROVE RR!Better(priority'[t], rs)
    <3>1. q # <<>> /\ priority[t] < Head(q).prio
      BY <2>1 DEF topPrioAbove
    <3>2. Head(q) = q[1] /\ 1 \in DOMAIN q
      BY <3>1, EmptySeq DEF Queues
    <3>3. Head(q).prio \in Levels /\ QueuedAt(q, Head(q).prio) # <<>>
      BY <3>1, <3>2, QueuedAtDequeue
    <3>4. Head(q).prio > priority'[t]
      BY <1>1, <3>1, <3>3
    <3> QED BY <3>3, <3>4 DEF RR!Better
  <2>2. ASSUME RR!Better(priority'[t], rs) PROVE topPrioAbove(q, priority[t])
    <3>1. PICK r \in Levels : r > priority'[t] /\ rs[r] # <<>>
      BY <2>2 DEF RR!Better
    <3>2. Positions(q, r) # {}
      BY <3>1, QueuedAtEmpty
    <3>3. PICK i \in DOMAIN q : q[i].prio = r
      BY <3>2 DEF Positions
    <3>4. q # <<>> /\ Head(q) = q[1] /\ 1 \in DOMAIN q /\ 1 <= i
      BY <1>1, <3>3
    <3>5. q[1].prio >= q[i].prio /\ q[1].prio \in Levels
      BY <3>4 DEF Sorted
    <3>6. priority[t] < Head(q).prio
      <4>1. q[1].prio \in Nat /\ priority[t] \in Nat /\ r \in Nat
        BY <1>1, <3>5
      <4>2. priority[t] < r /\ r <= q[1].prio
        BY <3>1, <3>3, <3>5, <4>1
      <4> QED BY <3>4, <4>1, <4>2
    <3> QED BY <3>4, <3>6 DEF topPrioAbove
  <2> QED BY <2>1, <2>2
<1>3. isPreempted(t, left, q) <=> tm[t] <= 1 \/ RR!Better(priority'[t], rs)
  BY <1>1, <1>2 DEF isPreempted
<1>4. CASE isPreempted(t, left, q) /\ preemptThread(t, paid, q, pcs)
  <2> DEFINE e == enqueue(q, t, priority[t])
  <2>1. /\ timer' = [tm EXCEPT ![t] = quantum] /\ pc' = [pcs EXCEPT ![t] = "park"]
        /\ wakeNextThread(e)
    BY <1>4 DEF preemptThread, Timers
  <2>2. priority[t] \in Nat
    BY <1>1
  <2>3. /\ e \in Queues
        /\ \A p : QueuedAt(e, p) = IF p = priority[t] THEN Append(QueuedAt(q, p), t)
                                   ELSE QueuedAt(q, p)
    <3>1. PICK p0 \in Nat : p0 = priority[t]
      BY <2>2
    <3>2. e = enqueue(q, t, p0)
      BY <3>1
    <3> HIDE DEF e
    <3>3. /\ enqueue(q, t, p0) \in Queues
          /\ \A p : QueuedAt(enqueue(q, t, p0), p) =
                     IF p = p0 THEN Append(QueuedAt(q, p), t) ELSE QueuedAt(q, p)
      BY QueuedAtEnqueue
    <3> QED BY <3>1, <3>2, <3>3
  <2>4. Sorted(e)
    <3>1. PICK pr : pr = [u \in Tasks |-> priority[t]]
      OBVIOUS
    <3>2. pr[t] = priority[t]
      BY <3>1
    <3> QED BY <2>2, <3>2, EnqueueKeeps DEF Queues
  <2>5. TasksIn(e) = TasksIn(q) \cup {t}
    BY <2>2, EnqueueTasks DEF Queues
  <2>6. \A i \in DOMAIN e : e[i].prio \in Levels
    <3>1. \A i \in DOMAIN e :
            \/ e[i] = pqNode(t, priority[t])
            \/ \E j \in DOMAIN q : e[i] = q[j]
      BY <2>2, EnqueuePositions DEF Queues
    <3> QED BY <3>1 DEF pqNode
  <2> HIDE DEF e
  <2>7. \A u \in Tasks : pc'[u] = IF u = t THEN "park" ELSE pcs[u]
    BY <2>1
  <2>8. \A u \in TasksIn(e) : pc'[u] \notin {"unborn", "done"} /\ timer'[u] = quantum
    <3>1. \A u \in TasksIn(q) : u \in Tasks
      BY NodesOf DEF TasksIn, Queues
    <3> QED BY <2>1, <2>5, <2>7, <3>1 DEF Timers
  <2>9. \A u \in Tasks : pc'[u] \notin {"running", "signalling"}
    BY <2>7
  <2> DEFINE sts2 == [sts EXCEPT ![t] = "ready"]
  <2>10. sts2 = [u \in Tasks |-> Resting(pc'[u], io'[u])]
    BY <2>7 DEF Resting
  <2> HIDE DEF sts2
  <2>11. RR!Dispatch(sts2, [p \in Levels |-> QueuedAt(e, p)]) /\ deviceBar' = io'
    BY <2>1, <2>3, <2>4, <2>6, <2>8, <2>9, <2>10, Dispatches
  <2>12. [p \in Levels |-> QueuedAt(e, p)] = [rs EXCEPT ![priority'[t]] = Append(@, t)]
    BY <2>3
  <2>13. RR!Dispatch([sts EXCEPT ![t] = "ready"], [rs EXCEPT ![priority'[t]] = Append(@, t)])
    BY <2>11, <2>12 DEF sts2
  <2>14. TimeLeft <= 1 \/ RR!Better(priority'[t], rs)
    BY <1>3, <1>4
  <2> HIDE DEF rs
  <2>15. RR!Pay(t, sts, rs)
    BY <2>13, <2>14 DEF RR!Pay
  <2> QED BY <2>11, <2>15 DEF rs
<1>5. CASE /\ ~isPreempted(t, left, q)
           /\ timer' = paid /\ pq_head' = q
           /\ pc' = [pcs EXCEPT ![t] = "running"]
           /\ UNCHANGED sem
  <2>1. TimeLeft > 1 /\ ~RR!Better(priority'[t], rs)
    BY <1>1, <1>3, <1>5
  <2>2. \A u \in Tasks : pc'[u] = IF u = t THEN "running" ELSE pcs[u]
    BY <1>5
  <2>3. \A u \in Tasks : ~AboutToWake(u)'
    BY <2>2 DEF AboutToWake
  <2>4. /\ owesBar' = FALSE /\ deviceBar' = io'
        /\ readyBar' = [p \in Levels |-> QueuedAt(pq_head', p)]
    <3>1. owesBar' = FALSE
      BY <2>2 DEF owesBar
    <3>2. NoneWaking'
      BY <2>3 DEF NoneWaking
    <3> QED BY <3>1, <3>2, MappingNext
  <2>5. readyBar' = rs
    BY <1>5, <2>4
  <2>6. \A u \in Tasks : Scheduled(u)' <=> u = t
    BY <1>5, <2>2 DEF Scheduled
  <2>7. statusBar' = sts
    <3>1. \A u \in Tasks : StatusOf(u)' = IF u = t THEN "running" ELSE Resting(pcs[u], io'[u])
      BY <2>2, <2>3, <2>6 DEF StatusOf, Resting
    <3> QED BY <3>1 DEF statusBar
  <2>8. TimeLeft' = TimeLeft - 1
    <3>1. timer'[t] = left
      BY <1>5 DEF Timers
    <3>2. \E u \in Tasks : Scheduled(u)'
      BY <2>6
    <3>3. (CHOOSE u \in Tasks : Scheduled(u)') = t
      BY <2>6
    <3>4. TimeLeft' = timer'[t]
      BY <3>2, <3>3 DEF TimeLeft
    <3> QED BY <1>1, <3>1, <3>4
  <2> HIDE DEF rs
  <2>9. RR!Pay(t, sts, rs)
    BY <2>1, <2>4, <2>5, <2>7, <2>8 DEF RR!Pay
  <2> QED BY <2>4, <2>9 DEF rs
<1> QED BY <1>4, <1>5 DEF PayTime
-----------------------------------------------------------------------------
(* Each step of the library is a step of the abstract scheduler.           *)

(* Tasks are created with a priority the abstract scheduler knows.         *)
Levelled == \A t \in Tasks : pc[t] # "unborn" => priority[t] \in Levels

(* The mapping, while t has the processor and so_signal has nobody left to *)
(* wake.                                                                   *)
LEMMA Holder ==
  ASSUME Typed, IInv, Levelled, NoneWaking, NEW t \in Tasks, HasProcessor(t)
  PROVE  /\ deviceBar = io /\ readyBar = [p \in Levels |-> QueuedAt(pq_head, p)]
         /\ statusBar = [u \in Tasks |-> IF u = t THEN "running" ELSE Resting(pc[u], io[u])]
         /\ TimeLeft = timer[t] /\ timer[t] \in 1..quantum /\ quantum \in 1..UINT_MAX
         /\ pq_head \in Queues /\ Sorted(pq_head) /\ t \notin TasksIn(pq_head)
         /\ \A i \in DOMAIN pq_head : pq_head[i].prio \in Levels
         /\ \A u \in TasksIn(pq_head) :
              u \in Tasks /\ pc[u] \notin {"unborn", "done"} /\ timer[u] = quantum
         /\ priority[t] \in Levels /\ io[t] = NoDevice
         /\ \A u \in Tasks : sem[u] = 0 /\ (u # t => ~HasProcessor(u))
         /\ allocated /\ t < arr_size
<1>1. /\ \A u \in Tasks : sem[u] = 0 /\ (u # t => ~HasProcessor(u))
      /\ t \notin TasksIn(pq_head) /\ io[t] = NoDevice
      /\ allocated /\ t < arr_size /\ timer[t] \in 1..quantum /\ quantum \in 1..UINT_MAX
  BY SoleRunner
<1>2. deviceBar = io /\ readyBar = [p \in Levels |-> QueuedAt(pq_head, p)]
  BY Mapping
<1>3. \A u \in Tasks : Scheduled(u) <=> u = t
  BY <1>1 DEF Scheduled, HasProcessor
<1>4. TimeLeft = timer[t]
  <2>1. (CHOOSE u \in Tasks : Scheduled(u)) = t
    BY <1>3
  <2> QED BY <1>3, <2>1 DEF TimeLeft
<1>5. statusBar = [u \in Tasks |-> IF u = t THEN "running" ELSE Resting(pc[u], io[u])]
  <2>1. pc[t] \notin {"unborn", "done"}
    BY DEF HasProcessor
  <2>2. \A u \in Tasks : StatusOf(u) = IF u = t THEN "running" ELSE Resting(pc[u], io[u])
    BY <1>3, <2>1 DEF StatusOf, Resting, NoneWaking
  <2> QED BY <2>2 DEF statusBar
<1>6. /\ pq_head \in Queues /\ Sorted(pq_head)
      /\ \A u \in TasksIn(pq_head) :
           u \in Tasks /\ pc[u] \notin {"unborn", "done"} /\ timer[u] = quantum
  <2>1. \A u \in TasksIn(pq_head) : u \in Tasks /\ timer[u] = quantum /\ Suspended(u)
    BY <1>1, Unsettled
  <2> QED BY <2>1, Unsettled DEF IInv, Ordered, Suspended
<1>7. \A i \in DOMAIN pq_head : pq_head[i].prio \in Levels
  <2>1. \A i \in DOMAIN pq_head : pq_head[i].tIndex \in TasksIn(pq_head)
    BY DEF TasksIn
  <2>2. \A i \in DOMAIN pq_head : pq_head[i].prio = priority[pq_head[i].tIndex]
    BY DEF IInv, Ordered, Carries
  <2> QED BY <1>6, <2>1, <2>2 DEF Levelled
<1>8. priority[t] \in Levels
  BY DEF Levelled, HasProcessor
<1> QED BY <1>1, <1>2, <1>4, <1>5, <1>6, <1>7, <1>8

(* So it is while t is in its handler, and then t owes nothing.            *)
LEMMA InHandler ==
  ASSUME Typed, IInv, NEW t \in Tasks, pc[t] = "running"
  PROVE  HasProcessor(t) /\ NoneWaking /\ owesBar = FALSE
<1>1. HasProcessor(t)
  BY DEF HasProcessor
<1>2. \A u \in Tasks : pc[u] # "signalling"
  BY <1>1, SoleRunner DEF HasProcessor
<1> QED BY <1>1, <1>2 DEF NoneWaking, AboutToWake, owesBar

LEMMA EndImplements ==
  ASSUME Typed, Typed', IInv, Levelled, NEW t \in Tasks, end_thread(t)
  PROVE  RR!Running(t) /\ RR!End(t)
<1>1. HasProcessor(t) /\ NoneWaking /\ owesBar = FALSE
  BY InHandler DEF end_thread
<1>2. /\ pc \in [Tasks -> PCs] /\ pc' = [pc EXCEPT ![t] = "done"] /\ wakeNextThread(pq_head)
      /\ UNCHANGED <<io, timer, quantum, priority>>
  BY DEF end_thread, config, Typed, TypeOK
<1>3. \A u \in Tasks : pc'[u] = IF u = t THEN "done" ELSE pc[u]
  BY <1>2
<1>4. [statusBar EXCEPT ![t] = "ended"] = [u \in Tasks |-> Resting(pc'[u], io'[u])]
  BY <1>1, <1>2, <1>3, Holder DEF Resting
<1>5. \A u \in Tasks : pc'[u] \notin {"running", "signalling"}
  BY <1>1, <1>3, Holder DEF HasProcessor
<1>6. \A u \in TasksIn(pq_head) : pc'[u] \notin {"unborn", "done"} /\ timer'[u] = quantum
  BY <1>1, <1>2, <1>3, Holder
<1>7. /\ RR!Dispatch([statusBar EXCEPT ![t] = "ended"], [p \in Levels |-> QueuedAt(pq_head, p)])
      /\ deviceBar' = io'
  <2>1. /\ pq_head \in Queues /\ Sorted(pq_head)
        /\ \A i \in DOMAIN pq_head : pq_head[i].prio \in Levels
        /\ \A u \in Tasks : sem[u] = 0
    BY <1>1, Holder
  <2> QED BY <1>2, <1>4, <1>5, <1>6, <2>1, Dispatches
<1>8. statusBar[t] = "running" /\ deviceBar = io /\ readyBar = [p \in Levels |-> QueuedAt(pq_head, p)]
  BY <1>1, Holder
<1> QED BY <1>1, <1>2, <1>7, <1>8 DEF RR!Running, RR!End

LEMMA WaitImplements ==
  ASSUME Typed, Typed', IInv, Levelled, NEW t \in Tasks, NEW d \in Devices, so_wait(t, d)
  PROVE  RR!Running(t) /\ RR!Wait(t, d)
<1>1. HasProcessor(t) /\ NoneWaking /\ owesBar = FALSE
  BY InHandler DEF so_wait
<1>2. /\ pc \in [Tasks -> PCs] /\ pc' = [pc EXCEPT ![t] = "park"] /\ wakeNextThread(pq_head)
      /\ io \in [Tasks -> {NoDevice} \cup Devices] /\ io' = [io EXCEPT ![t] = d] /\ d # NoDevice
      /\ UNCHANGED <<timer, quantum, priority>>
  <2>1. d # NoDevice
    BY ConstantsAssumption DEF NoDevice
  <2> QED BY <2>1 DEF so_wait, config, Typed, TypeOK
<1>3. \A u \in Tasks : /\ pc'[u] = IF u = t THEN "park" ELSE pc[u]
                       /\ io'[u] = IF u = t THEN d ELSE io[u]
  BY <1>2
<1>4. [statusBar EXCEPT ![t] = "waiting"] = [u \in Tasks |-> Resting(pc'[u], io'[u])]
  BY <1>1, <1>2, <1>3, Holder DEF Resting
<1>5. \A u \in Tasks : pc'[u] \notin {"running", "signalling"}
  BY <1>1, <1>3, Holder DEF HasProcessor
<1>6. \A u \in TasksIn(pq_head) : pc'[u] \notin {"unborn", "done"} /\ timer'[u] = quantum
  BY <1>1, <1>2, <1>3, Holder
<1>7. /\ RR!Dispatch([statusBar EXCEPT ![t] = "waiting"], [p \in Levels |-> QueuedAt(pq_head, p)])
      /\ deviceBar' = io'
  <2>1. /\ pq_head \in Queues /\ Sorted(pq_head)
        /\ \A i \in DOMAIN pq_head : pq_head[i].prio \in Levels
        /\ \A u \in Tasks : sem[u] = 0
    BY <1>1, Holder
  <2> QED BY <1>2, <1>4, <1>5, <1>6, <2>1, Dispatches
<1>8. statusBar[t] = "running" /\ deviceBar = io /\ readyBar = [p \in Levels |-> QueuedAt(pq_head, p)]
  BY <1>1, Holder
<1> QED BY <1>1, <1>2, <1>7, <1>8 DEF RR!Running, RR!Wait

LEMMA ExecImplements ==
  ASSUME Typed, Typed', IInv, Levelled, NEW t \in Tasks, so_exec(t)
  PROVE  RR!Running(t) /\ RR!Exec(t)
<1>1. HasProcessor(t) /\ NoneWaking /\ owesBar = FALSE
  BY InHandler DEF so_exec
<1>2. pc \in [Tasks -> PCs] /\ timer \in Timers /\ PayTime(t, timer, pq_head, pc)
      /\ UNCHANGED <<io, quantum, priority>>
  BY DEF so_exec, config, Typed, TypeOK, Timers
<1>3. /\ statusBar = [u \in Tasks |-> IF u = t THEN "running" ELSE Resting(pc[u], io'[u])]
      /\ statusBar[t] = "running"
      /\ deviceBar = io /\ readyBar = [p \in Levels |-> QueuedAt(pq_head, p)]
  BY <1>1, <1>2, Holder
<1>4. \A u \in Tasks \ {t} : pc[u] \notin {"running", "signalling"}
  BY <1>1, Holder DEF HasProcessor
<1>5. RR!Pay(t, statusBar, [p \in Levels |-> QueuedAt(pq_head, p)]) /\ deviceBar' = io'
  BY <1>1, <1>2, <1>3, <1>4, Holder, Pays
<1> QED BY <1>1, <1>2, <1>3, <1>5 DEF RR!Running, RR!Exec

LEMMA ForkImplements ==
  ASSUME Typed, Typed', IInv, Levelled, NEW t \in Tasks, NEW p \in Priorities, so_fork(t, p)
  PROVE  \E u \in Tasks, l \in Levels : RR!Running(t) /\ RR!Fork(t, u, l)
<1> DEFINE new == arr_size
           q == enqueue(pq_head, new, p)
           tm == [timer EXCEPT ![new] = quantum]
           pcs == [pc EXCEPT ![new] = "park"]
           sts == [statusBar EXCEPT ![new] = "ready"]
<1>1. HasProcessor(t) /\ NoneWaking /\ owesBar = FALSE
  BY InHandler DEF so_fork
<1>2. /\ allocated /\ t < new /\ new \in Tasks /\ new # t /\ p \in Nat /\ p \in Levels
  <2>1. allocated /\ t < new
    BY <1>1, Holder
  <2>2. new \in Tasks /\ new # t
    BY <2>1, ConstantsAssumption DEF so_fork, Typed, TypeOK, Tasks
  <2>3. p \in Nat /\ p \in Levels
    BY ConstantsAssumption DEF so_fork, AcceptsPriority, Levels
  <2> QED BY <2>1, <2>2, <2>3
<1>3. pc[new] = "unborn" /\ new \notin TasksIn(pq_head) /\ io[new] = NoDevice
  <2>1. pc[new] = "unborn"
    BY <1>2 DEF IInv, Birth, Tasks
  <2>2. new \notin TasksIn(pq_head)
    BY <1>1, <2>1, Holder
  <2>3. io[new] = NoDevice
    BY <1>1, <1>2, <2>1, Holder, Unsettled DEF Suspended
  <2> QED BY <2>1, <2>2, <2>3
<1>4. /\ pc \in [Tasks -> PCs] /\ timer \in Timers
      /\ io \in [Tasks -> {NoDevice} \cup Devices] /\ priority \in [Tasks -> 0..SO_MAX_PRIO]
      /\ io' = [io EXCEPT ![new] = NoDevice] /\ priority' = [priority EXCEPT ![new] = p]
      /\ quantum' = quantum
      /\ PayTime(t, tm, q, pcs)
  BY DEF Typed, TypeOK, so_fork, config, Timers
<1>5. /\ io' = io /\ priority'[t] = priority[t]
      /\ \A u \in Tasks : pcs[u] = IF u = new THEN "park" ELSE pc[u]
      /\ \A u \in Tasks : tm[u] = IF u = new THEN quantum ELSE timer[u]
  BY <1>2, <1>3, <1>4 DEF Timers
<1>6. /\ pq_head \in Queues /\ Sorted(pq_head)
      /\ \A i \in DOMAIN pq_head : pq_head[i].prio \in Levels
      /\ \A u \in Tasks : sem[u] = 0
      /\ quantum \in 1..UINT_MAX
  BY <1>1, Holder
<1>7. /\ q \in Queues
      /\ [l \in Levels |-> QueuedAt(q, l)]
           = [[l \in Levels |-> QueuedAt(pq_head, l)] EXCEPT ![p] = Append(@, new)]
  <2>1. /\ enqueue(pq_head, new, p) \in Queues
        /\ \A l : QueuedAt(enqueue(pq_head, new, p), l) =
                    IF l = p THEN Append(QueuedAt(pq_head, l), new) ELSE QueuedAt(pq_head, l)
    <3>1. PICK n \in Tasks : n = new
      BY <1>2
    <3>2. PICK h \in Queues : h = pq_head
      BY <1>6
    <3>3. /\ enqueue(h, n, p) \in Queues
          /\ \A l : QueuedAt(enqueue(h, n, p), l) =
                      IF l = p THEN Append(QueuedAt(h, l), n) ELSE QueuedAt(h, l)
      BY <1>2, <1>6, <3>2, QueuedAtEnqueue
    <3> QED BY <3>1, <3>2, <3>3
  <2> HIDE DEF q
  <2>2. [l \in Levels |-> QueuedAt(enqueue(pq_head, new, p), l)]
           = [[l \in Levels |-> QueuedAt(pq_head, l)] EXCEPT ![p] = Append(@, new)]
    BY <2>1
  <2> QED BY <2>1, <2>2 DEF q
<1>8. Sorted(q) /\ TasksIn(q) = TasksIn(pq_head) \cup {new}
      /\ \A i \in DOMAIN q : q[i].prio \in Levels
  <2>1. TasksIn(q) = TasksIn(pq_head) \cup {new}
    BY <1>2, <1>6, EnqueueTasks DEF Queues
  <2>2. Sorted(q)
    <3>1. PICK pr : pr = [u \in Tasks |-> p]
      OBVIOUS
    <3>2. pr[new] = p
      BY <1>2, <3>1
    <3> QED BY <1>2, <1>6, <3>2, EnqueueKeeps DEF Queues
  <2>3. \A i \in DOMAIN q : q[i] = pqNode(new, p) \/ \E j \in DOMAIN pq_head : q[i] = pq_head[j]
    BY <1>2, <1>6, EnqueuePositions DEF Queues
  <2>4. \A i \in DOMAIN q : q[i].prio \in Levels
    <3> HIDE DEF q
    <3> QED BY <1>2, <1>6, <2>3 DEF pqNode
  <2> QED BY <2>1, <2>2, <2>4
<1> HIDE DEF q
<1>9. tm \in Timers /\ pcs \in [Tasks -> PCs]
  BY <1>2, <1>4, <1>6, ConstantsAssumption DEF Timers, PCs
<1>10. sts = [u \in Tasks |-> IF u = t THEN "running" ELSE Resting(pcs[u], io'[u])]
  <2>1. statusBar = [u \in Tasks |-> IF u = t THEN "running" ELSE Resting(pc[u], io[u])]
    BY <1>1, Holder
  <2>2. Resting("park", NoDevice) = "ready"
    BY DEF Resting
  <2> HIDE DEF pcs
  <2> QED BY <1>2, <1>3, <1>5, <2>1, <2>2
<1>11. /\ t \notin TasksIn(q) /\ priority[t] \in Levels /\ io'[t] = NoDevice
       /\ TimeLeft = tm[t] /\ tm[t] \in 1..quantum
       /\ \A u \in Tasks \ {t} : pcs[u] \notin {"running", "signalling"}
       /\ \A u \in TasksIn(q) : pcs[u] \notin {"unborn", "done"} /\ tm[u] = quantum
  <2> HIDE DEF pcs, tm
  <2>1. t \notin TasksIn(q) /\ priority[t] \in Levels /\ io'[t] = NoDevice
    BY <1>1, <1>2, <1>5, <1>8, Holder
  <2>2. TimeLeft = tm[t] /\ tm[t] \in 1..quantum
    BY <1>1, <1>2, <1>5, Holder
  <2>3. \A u \in Tasks \ {t} : pcs[u] \notin {"running", "signalling"}
    BY <1>1, <1>5, Holder DEF HasProcessor
  <2>4. \A u \in TasksIn(q) : pcs[u] \notin {"unborn", "done"} /\ tm[u] = quantum
    BY <1>1, <1>2, <1>5, <1>8, Holder
  <2> QED BY <2>1, <2>2, <2>3, <2>4
<1> HIDE DEF pcs, tm, sts
<1>12. RR!Pay(t, sts, [l \in Levels |-> QueuedAt(q, l)]) /\ deviceBar' = io'
  <2>1. tm \in Timers /\ q \in Queues /\ pcs \in [Tasks -> PCs]
    BY <1>7, <1>9
  <2>2. /\ PayTime(t, tm, q, pcs) /\ Sorted(q) /\ t \notin TasksIn(q)
        /\ \A i \in DOMAIN q : q[i].prio \in Levels
        /\ priority[t] \in Levels /\ priority'[t] = priority[t]
        /\ \A u \in Tasks : sem[u] = 0
    BY <1>4, <1>5, <1>6, <1>8, <1>11
  <2>3. /\ io'[t] = NoDevice /\ quantum \in 1..UINT_MAX
        /\ TimeLeft = tm[t] /\ tm[t] \in 1..quantum
    BY <1>6, <1>11
  <2>4. /\ \A u \in Tasks \ {t} : pcs[u] \notin {"running", "signalling"}
        /\ \A u \in TasksIn(q) : pcs[u] \notin {"unborn", "done"} /\ tm[u] = quantum
    BY <1>11
  <2> QED BY <1>10, <2>1, <2>2, <2>3, <2>4, Pays
<1>13. /\ statusBar[t] = "running" /\ statusBar[new] = "none" /\ deviceBar = io
       /\ readyBar = [l \in Levels |-> QueuedAt(pq_head, l)]
  <2>1. /\ statusBar = [u \in Tasks |-> IF u = t THEN "running" ELSE Resting(pc[u], io[u])]
        /\ deviceBar = io /\ readyBar = [l \in Levels |-> QueuedAt(pq_head, l)]
    BY <1>1, Holder
  <2> QED BY <1>2, <1>3, <2>1 DEF Resting
<1>14. RR!Running(t) /\ RR!Fork(t, new, p)
  BY <1>1, <1>4, <1>5, <1>7, <1>12, <1>13 DEF RR!Running, RR!Fork, sts
<1> QED BY <1>2, <1>14

(* so_signal has nobody left to wake when its loop ends, since the tasks   *)
(* beyond the array wait for nothing.                                      *)
LEMMA ReturnImplements ==
  ASSUME Typed, Typed', IInv, Levelled, NEW t \in Tasks, signal_return(t)
  PROVE  RR!PaySignal(t)
<1>1. HasProcessor(t) /\ pc[t] = "signalling" /\ owesBar
  BY DEF signal_return, HasProcessor, owesBar
<1>2. NoneWaking
  <2>1. \A u \in Tasks : sem[u] = 0 /\ (u # t => ~HasProcessor(u))
    BY <1>1, SoleRunner
  <2>2. \A u \in Tasks : io[u] = loop[t].io => u < loop[t].i
    <3> SUFFICES ASSUME NEW u \in Tasks, io[u] = loop[t].io, ~(u < loop[t].i) PROVE FALSE
      OBVIOUS
    <3>1. loop[t].io # NoDevice
      BY <1>1 DEF IInv, Passed
    <3>2. u >= arr_size
      <4>1. u \in Int /\ loop[t].i \in Int /\ arr_size \in Int
        BY ConstantsAssumption DEF Typed, TypeOK, Tasks
      <4>2. loop[t].i >= arr_size
        BY DEF signal_return, SignalledAll
      <4> QED BY <4>1, <4>2
    <3>3. pc[u] = "unborn"
      BY <3>2 DEF IInv, Birth
    <3> QED BY <2>1, <3>1, <3>3, Unsettled DEF Suspended
  <2>3. ASSUME NEW u \in Tasks, AboutToWake(u) PROVE FALSE
    <3>1. PICK s \in Tasks \ {u} : pc[s] = "signalling" /\ io[u] = loop[s].io /\ u >= loop[s].i
      BY <2>3 DEF AboutToWake
    <3>2. s = t
      BY <2>1, <3>1 DEF HasProcessor
    <3>3. u \in Int /\ loop[t].i \in Int
      BY ConstantsAssumption DEF Typed, TypeOK, Tasks
    <3> QED BY <2>2, <3>1, <3>2, <3>3
  <2> QED BY <2>3 DEF NoneWaking
<1>3. pc \in [Tasks -> PCs] /\ timer \in Timers /\ PayTime(t, timer, pq_head, pc)
      /\ UNCHANGED <<io, quantum, priority>>
  BY DEF signal_return, config, Typed, TypeOK, Timers
<1>4. /\ statusBar = [u \in Tasks |-> IF u = t THEN "running" ELSE Resting(pc[u], io'[u])]
      /\ statusBar[t] = "running"
      /\ deviceBar = io /\ readyBar = [p \in Levels |-> QueuedAt(pq_head, p)]
  BY <1>1, <1>2, <1>3, Holder
<1>5. \A u \in Tasks \ {t} : pc[u] \notin {"running", "signalling"}
  BY <1>1, <1>2, Holder DEF HasProcessor
<1>6. RR!Pay(t, statusBar, [p \in Levels |-> QueuedAt(pq_head, p)]) /\ deviceBar' = io'
  BY <1>1, <1>2, <1>3, <1>4, <1>5, Holder, Pays
<1> QED BY <1>1, <1>3, <1>4, <1>6 DEF RR!PaySignal

(* so_signal, once called, has woken its waiters as far as the abstract    *)
(* scheduler is concerned: they are READY, in the order of their indices.  *)
LEMMA SignalImplements ==
  ASSUME Typed, Typed', IInv, Levelled, NEW t \in Tasks, NEW d \in Devices, so_signal(t, d)
  PROVE  RR!Running(t) /\ RR!Signal(t, d)
<1>1. HasProcessor(t) /\ NoneWaking /\ owesBar = FALSE
  BY InHandler DEF so_signal
<1>2. /\ pc \in [Tasks -> PCs] /\ pc' = [pc EXCEPT ![t] = "signalling"] /\ d # NoDevice
      /\ loop'[t] = [io |-> d, i |-> 0]
      /\ UNCHANGED <<io, timer, quantum, priority, pq_head, sem>>
  <2>1. d # NoDevice
    BY ConstantsAssumption DEF NoDevice
  <2>2. loop \in [Tasks -> [io : {NoDevice} \cup Devices, i : 0..MaxTasks]]
    BY DEF Typed, TypeOK
  <2>3. loop'[t] = [io |-> d, i |-> 0]
    BY <2>2 DEF so_signal
  <2> QED BY <2>1, <2>3 DEF so_signal, config, Typed, TypeOK
<1>3. /\ deviceBar = io /\ readyBar = [p \in Levels |-> QueuedAt(pq_head, p)]
      /\ statusBar = [u \in Tasks |-> IF u = t THEN "running" ELSE Resting(pc[u], io[u])]
      /\ TimeLeft = timer[t] /\ io[t] = NoDevice /\ pq_head \in Queues
      /\ \A u \in Tasks : sem[u] = 0 /\ (u # t => ~HasProcessor(u))
  BY <1>1, Holder
<1>4. io \in [Tasks -> {NoDevice} \cup Devices] /\ \A u \in Tasks : u >= 0
  BY ConstantsAssumption DEF Typed, TypeOK, Tasks
<1>5. \A u \in Tasks : AboutToWake(u)' <=> io[u] = d
  <2>1. \A s \in Tasks : pc'[s] = "signalling" <=> s = t
    BY <1>2, <1>3 DEF HasProcessor
  <2>2. loop'[t].io = d /\ loop'[t].i = 0
    BY <1>2
  <2>3. \A u \in Tasks : AboutToWake(u)' <=> u # t /\ io'[u] = loop'[t].io /\ u >= loop'[t].i
    BY <2>1 DEF AboutToWake
  <2> QED BY <1>2, <1>3, <1>4, <2>2, <2>3
<1>6. \A u \in Tasks : Scheduled(u)' <=> u = t
  BY <1>2, <1>3 DEF Scheduled, HasProcessor
<1>7. owesBar' = TRUE
  BY <1>2 DEF owesBar
<1>8. TimeLeft' = TimeLeft
  <2>1. (CHOOSE u \in Tasks : Scheduled(u)') = t
    BY <1>6
  <2> QED BY <1>2, <1>3, <1>6, <2>1 DEF TimeLeft
<1>9. deviceBar' = [u \in Tasks |-> IF deviceBar[u] = d THEN NoDevice ELSE deviceBar[u]]
  BY <1>2, <1>3, <1>5 DEF deviceBar
<1>10. readyBar' = [p \in Levels |-> readyBar[p] \o RR!Waiters(d, p)]
  <2>1. \A p : WakingAt(p)' = {u \in Tasks : deviceBar[u] = d /\ priority[u] = p}
    BY <1>2, <1>3, <1>5 DEF WakingAt
  <2>2. \A p \in Levels : ReadyAt(p)' = QueuedAt(pq_head, p) \o Ascending(WakingAt(p)')
    BY <1>2 DEF ReadyAt, QueuedAt, Positions
  <2>3. \A p \in Levels : ReadyAt(p)' = readyBar[p] \o RR!Waiters(d, p)
    <3> SUFFICES ASSUME NEW p \in Levels PROVE ReadyAt(p)' = readyBar[p] \o RR!Waiters(d, p)
      OBVIOUS
    <3>1. RR!Waiters(d, p) = Ascending({u \in Tasks : deviceBar[u] = d /\ priority[u] = p})
      <4>1. \A S : RR!Cardinality(S) = Cardinality(S)
        BY DEF RR!Cardinality, Cardinality
      <4>2. \A s : RR!IsAscending(s) <=> IsAscending(s)
        BY DEF RR!IsAscending, IsAscending
      <4>3. \A S : RR!Ascending(S) = Ascending(S)
        BY <4>1, <4>2 DEF RR!Ascending, Ascending
      <4> QED BY <4>3 DEF RR!Waiters
    <3>2. RR!Waiters(d, p) = Ascending(WakingAt(p)')
      BY <2>1, <3>1
    <3>3. readyBar[p] = QueuedAt(pq_head, p)
      BY <1>3
    <3> QED BY <2>2, <3>2, <3>3
  <2> QED BY <2>3 DEF readyBar
<1>11. statusBar' = [u \in Tasks |-> IF deviceBar[u] = d THEN "ready" ELSE statusBar[u]]
  <2>1. \A u \in Tasks : io[u] = d => pc[u] \notin {"unborn", "done"} /\ u # t
    BY <1>2, <1>3, Unsettled DEF Suspended
  <2>2. \A u \in Tasks : pc'[u] = IF u = t THEN "signalling" ELSE pc[u]
    BY <1>2
  <2>3. \A u \in Tasks : StatusOf(u)' = IF io[u] = d THEN "ready" ELSE statusBar[u]
    <3> SUFFICES ASSUME NEW u \in Tasks
                 PROVE  StatusOf(u)' = IF io[u] = d THEN "ready" ELSE statusBar[u]
      OBVIOUS
    <3>1. CASE u = t
      BY <1>2, <1>3, <1>6, <2>1, <2>2, <3>1 DEF StatusOf
    <3>2. CASE u # t /\ io[u] = d
      BY <1>2, <1>5, <1>6, <2>1, <2>2, <3>2 DEF StatusOf
    <3>3. CASE u # t /\ io[u] # d
      BY <1>2, <1>3, <1>5, <1>6, <2>2, <3>3 DEF StatusOf, Resting
    <3> QED BY <3>1, <3>2, <3>3
  <2> QED BY <1>3, <2>3 DEF statusBar
<1> QED BY <1>1, <1>2, <1>3, <1>7, <1>8, <1>9, <1>10, <1>11 DEF RR!Running, RR!Signal

(* An iteration of its loop moves the first of them into the queue, to the *)
(* place it has already.                                                   *)
LEMMA IterationStutters ==
  ASSUME Typed, Typed', IInv, Levelled, NEW t \in Tasks, signal_iteration(t)
  PROVE  UNCHANGED RR!vars
<1> DEFINE i == loop[t].i
           d == loop[t].io
<1>1. HasProcessor(t) /\ pc[t] = "signalling"
  BY DEF signal_iteration, HasProcessor
<1>2. \A u \in Tasks : sem[u] = 0 /\ (u # t => ~HasProcessor(u))
  BY <1>1, SoleRunner
<1>3. /\ io \in [Tasks -> {NoDevice} \cup Devices] /\ timer \in Timers /\ pq_head \in Queues
      /\ loop \in [Tasks -> [io : {NoDevice} \cup Devices, i : 0..MaxTasks]]
      /\ priority \in [Tasks -> 0..SO_MAX_PRIO]
      /\ loop'[t].i = i + 1 /\ loop'[t].io = d
      /\ UNCHANGED <<quantum, priority, sem, pc>>
  BY DEF signal_iteration, config, Typed, TypeOK, Timers, Queues, Nodes
<1>4. i \in Tasks /\ d # NoDevice /\ (\A u \in Tasks : u < i => io[u] # d)
      /\ Tasks \subseteq Nat
  <2>1. d # NoDevice /\ \A u \in Tasks : u < i => io[u] # d
    BY <1>1 DEF IInv, Passed
  <2>2. i < arr_size /\ i \in Nat /\ arr_size \in Nat /\ arr_size <= MaxTasks /\ MaxTasks \in Nat
    <3>1. i \in 0..MaxTasks /\ MaxTasks \in Nat
      BY <1>3, ConstantsAssumption
    <3> QED BY <3>1 DEF signal_iteration, Typed, TypeOK
  <2>3. Tasks \subseteq Nat
    BY <2>2 DEF Tasks
  <2> HIDE DEF i, d
  <2> QED BY <2>1, <2>2, <2>3 DEF Tasks
<1>5. \A s \in Tasks : pc[s] = "signalling" <=> s = t
  BY <1>1, <1>2 DEF HasProcessor
<1> HIDE DEF i, d
<1>6. \A u \in Tasks : AboutToWake(u) <=> u # t /\ io[u] = d /\ u >= i
  BY <1>5 DEF AboutToWake, i, d
<1>7. \A u \in Tasks : AboutToWake(u)' <=> u # t /\ io'[u] = d /\ u >= i + 1
  BY <1>3, <1>5 DEF AboutToWake
<1>8. \A u \in Tasks : Scheduled(u) <=> u = t
  BY <1>1, <1>2 DEF Scheduled, HasProcessor
<1>9. \A u \in Tasks : Scheduled(u)' <=> u = t
  BY <1>1, <1>2, <1>3 DEF Scheduled, HasProcessor
<1>10. owesBar' = owesBar
  BY <1>3 DEF owesBar
<1>11. CASE io[i] = d /\ i # t
  <2>1. /\ timer' = [timer EXCEPT ![i] = quantum] /\ io' = [io EXCEPT ![i] = NoDevice]
        /\ pq_head' = enqueue(pq_head, i, priority[i])
    BY <1>11 DEF signal_iteration, i, d
  <2>2. \A u \in Tasks : io'[u] = IF u = i THEN NoDevice ELSE io[u]
    BY <1>3, <2>1
  <2>3. \A u \in Tasks : AboutToWake(u)' <=> AboutToWake(u) /\ u # i
    BY <1>4, <1>6, <1>7, <2>2
  <2>4. AboutToWake(i) /\ \A u \in Tasks : AboutToWake(u) => i <= u
    BY <1>4, <1>6, <1>11
  <2>5. TimeLeft' = TimeLeft
    <3>1. (CHOOSE u \in Tasks : Scheduled(u)') = t /\ (CHOOSE u \in Tasks : Scheduled(u)) = t
      BY <1>8, <1>9
    <3>2. timer'[t] = timer[t]
      BY <1>3, <1>11, <2>1 DEF Timers
    <3> QED BY <1>8, <1>9, <3>1, <3>2 DEF TimeLeft
  <2>6. deviceBar' = deviceBar
    BY <2>2, <2>3, <2>4 DEF deviceBar
  <2>7. statusBar' = statusBar
    <3>1. \A u \in Tasks : StatusOf(u)' = StatusOf(u)
      BY <1>3, <1>8, <1>9, <2>2, <2>3, <2>4 DEF StatusOf
    <3> QED BY <3>1 DEF statusBar
  <2>8. ASSUME NEW p \in Levels PROVE ReadyAt(p)' = ReadyAt(p)
    <3>1. PICK l \in Nat : l = priority[i]
      <4>1. priority[i] \in 0..5
        BY <1>3, <1>4 DEF SO_MAX_PRIO
      <4>2. priority[i] \in Nat
        BY <4>1
      <4> QED BY <4>2, Zenon
    <3>2. Sorted(pq_head)
      BY DEF IInv, Ordered
    <3>3. QueuedAt(pq_head', p) = IF p = l THEN Append(QueuedAt(pq_head, p), i)
                                  ELSE QueuedAt(pq_head, p)
      <4>1. PICK j \in Tasks : j = i
        BY <1>4
      <4>2. PICK h \in Queues : h = pq_head
        BY <1>3
      <4>3. QueuedAt(enqueue(h, j, l), p) = IF p = l THEN Append(QueuedAt(h, p), j)
                                            ELSE QueuedAt(h, p)
        BY <3>2, <4>2, QueuedAtEnqueue
      <4> QED BY <2>1, <3>1, <4>1, <4>2, <4>3
    <3>4. ReadyAt(p)' = QueuedAt(pq_head', p) \o Ascending(WakingAt(p)')
      BY DEF ReadyAt, QueuedAt, Positions
    <3>5. CASE p # l
      <4>1. WakingAt(p)' = WakingAt(p)
        BY <1>3, <2>3, <3>1, <3>5 DEF WakingAt
      <4> QED BY <3>3, <3>4, <3>5, <4>1 DEF ReadyAt
    <3>6. CASE p = l
      <4>1. WakingAt(p)' = WakingAt(p) \ {i} /\ i \in WakingAt(p)
        BY <1>3, <1>4, <2>3, <2>4, <3>1, <3>6 DEF WakingAt
      <4>2. PICK W \in SUBSET Nat : W = WakingAt(p)
        BY <1>4 DEF WakingAt
      <4>3. PICK m \in W : m = i
        BY <4>1, <4>2
      <4>4. \A x \in W : m <= x
        BY <2>4, <4>2, <4>3 DEF WakingAt
      <4>5. W \ {m} \in SUBSET (0..(MaxTasks - 1)) /\ MaxTasks \in Nat
        BY <4>2, ConstantsAssumption DEF WakingAt, Tasks
      <4>6. PICK a : Lists(a, W \ {m})
        BY <4>5, ListsExist
      <4>7. Ascending(W \ {m}) = a /\ Ascending(W) = <<m>> \o a
        <5>1. W \ {m} \in SUBSET Nat
          OBVIOUS
        <5>2. Ascending(W \ {m}) = a
          BY <4>6, <5>1, AscendingLists
        <5>3. Lists(<<m>> \o a, W)
          BY <4>4, <4>6, ListsLeast
        <5> QED BY <5>2, <5>3, AscendingLists
      <4>8. PICK b : b = QueuedAt(pq_head, p) /\ b \in Seq(Nat)
        <5>1. QueuedAt(pq_head, p) \in Seq(Tasks)
          BY <1>3, QueuedAtTyped
        <5>2. QueuedAt(pq_head, p) \in Seq(Nat)
          BY <1>4, <5>1, SeqMonotonic
        <5> QED BY <5>2, Zenon
      <4>9. a \in Seq(Nat)
        <5>1. a \in Seq(W \ {m})
          BY <4>6 DEF Lists
        <5>2. W \ {m} \subseteq Nat
          OBVIOUS
        <5> QED BY <5>1, <5>2, SeqMonotonic
      <4>10. Append(b, m) \o a = b \o (<<m>> \o a)
        <5>1. m \in Nat
          OBVIOUS
        <5> QED BY <4>8, <4>9, <5>1
      <4>11. ReadyAt(p) = b \o (<<m>> \o a)
        BY <4>2, <4>7, <4>8 DEF ReadyAt
      <4>12. ReadyAt(p)' = Append(b, m) \o a
        BY <3>3, <3>4, <3>6, <4>1, <4>2, <4>3, <4>7, <4>8
      <4> QED BY <4>10, <4>11, <4>12
    <3> QED BY <3>5, <3>6
  <2>9. readyBar' = readyBar
    BY <2>8 DEF readyBar
  <2> QED BY <1>3, <1>10, <2>5, <2>6, <2>7, <2>9 DEF RR!vars
<1>12. CASE ~(io[i] = d /\ i # t)
  <2>1. timer' = timer /\ io' = io /\ pq_head' = pq_head
    BY <1>12 DEF signal_iteration, i, d
  <2>2. \A u \in Tasks : AboutToWake(u)' <=> AboutToWake(u)
    BY <1>4, <1>6, <1>7, <1>12, <2>1
  <2>3. TimeLeft' = TimeLeft
    BY <1>8, <1>9, <2>1 DEF TimeLeft
  <2>4. deviceBar' = deviceBar
    BY <2>1, <2>2 DEF deviceBar
  <2>5. statusBar' = statusBar
    <3>1. \A u \in Tasks : StatusOf(u)' = StatusOf(u)
      BY <1>3, <1>8, <1>9, <2>1, <2>2 DEF StatusOf
    <3> QED BY <3>1 DEF statusBar
  <2>6. readyBar' = readyBar
    <3>1. \A p : WakingAt(p)' = WakingAt(p)
      BY <1>3, <2>2 DEF WakingAt
    <3>2. \A p : ReadyAt(p)' = ReadyAt(p)
      BY <2>1, <3>1 DEF ReadyAt, QueuedAt, Positions
    <3> QED BY <3>2 DEF readyBar
  <2> QED BY <1>3, <1>10, <2>3, <2>4, <2>5, <2>6 DEF RR!vars
<1> QED BY <1>11, <1>12

(* The steps that hand nothing over: semaphores, addresses, joining.       *)
LEMMA Unnoticed ==
  ASSUME UNCHANGED <<pq_head, priority, timer, io, loop>>,
         \A u \in Tasks : Scheduled(u)' <=> Scheduled(u),
         \A u \in Tasks : pc'[u] = "unborn" <=> pc[u] = "unborn",
         \A u \in Tasks : pc'[u] = "done" <=> pc[u] = "done",
         \A u \in Tasks : pc'[u] = "signalling" <=> pc[u] = "signalling"
  PROVE  UNCHANGED <<priority, statusBar, readyBar, deviceBar, TimeLeft, owesBar>>
<1>1. \A u \in Tasks : AboutToWake(u)' <=> AboutToWake(u)
  BY DEF AboutToWake
<1>2. owesBar' = owesBar
  BY DEF owesBar
<1>3. TimeLeft' = TimeLeft
  <2>1. (\E u \in Tasks : Scheduled(u)') <=> \E u \in Tasks : Scheduled(u)
    OBVIOUS
  <2>2. (CHOOSE u \in Tasks : Scheduled(u)') = (CHOOSE u \in Tasks : Scheduled(u))
    OBVIOUS
  <2> QED BY <2>1, <2>2 DEF TimeLeft
<1>4. deviceBar' = deviceBar
  BY <1>1 DEF deviceBar
<1>5. statusBar' = statusBar
  <2>1. \A u \in Tasks : StatusOf(u)' = StatusOf(u)
    BY <1>1 DEF StatusOf
  <2> QED BY <2>1 DEF statusBar
<1>6. readyBar' = readyBar
  <2>1. \A p : WakingAt(p)' = WakingAt(p)
    BY <1>1 DEF WakingAt
  <2>2. \A p : ReadyAt(p)' = ReadyAt(p)
    BY <2>1 DEF ReadyAt, QueuedAt, Positions
  <2> QED BY <2>2 DEF readyBar
<1> QED BY <1>2, <1>3, <1>4, <1>5, <1>6

LEMMA SemWaitStutters ==
  ASSUME Typed, IInv, NEW t \in Tasks,
         load_sem(t) \/ enter_sem_wait(t) \/ leave_sem_wait(t)
  PROVE  UNCHANGED RR!vars
<1>1. pc \in [Tasks -> PCs] /\ sem \in [Tasks -> Nat] /\ \A u \in Tasks : sem[u] <= 1
  BY DEF Typed, TypeOK, IInv, NoTaskLost
<1>2. UNCHANGED <<quantum, pq_head, priority, timer, io, loop>>
  BY DEF load_sem, enter_sem_wait, leave_sem_wait, config, mainVars
<1>3. \A u \in Tasks \ {t} : pc'[u] = pc[u] /\ sem'[u] = sem[u]
  BY <1>1 DEF load_sem, enter_sem_wait, leave_sem_wait
<1>4. CASE load_sem(t) \/ enter_sem_wait(t)
  <2>1. pc[t] \in {"park", "loaded"} /\ pc'[t] \in {"loaded", "blocked"} /\ sem'[t] = sem[t]
    BY <1>1, <1>4 DEF load_sem, enter_sem_wait
  <2>2. \A u \in Tasks : Scheduled(u)' <=> Scheduled(u)
    BY <1>3, <2>1 DEF Scheduled
  <2>3. /\ \A u \in Tasks : pc'[u] = "unborn" <=> pc[u] = "unborn"
        /\ \A u \in Tasks : pc'[u] = "done" <=> pc[u] = "done"
        /\ \A u \in Tasks : pc'[u] = "signalling" <=> pc[u] = "signalling"
    BY <1>3, <2>1
  <2> QED BY <1>2, <2>2, <2>3, Unnoticed DEF RR!vars
<1>5. CASE leave_sem_wait(t)
  <2>1. pc[t] = "blocked" /\ pc'[t] = "running" /\ sem[t] > 0
    BY <1>1, <1>5 DEF leave_sem_wait
  <2>2. \A u \in Tasks : Scheduled(u)' <=> Scheduled(u)
    BY <1>3, <2>1 DEF Scheduled
  <2>3. /\ \A u \in Tasks : pc'[u] = "unborn" <=> pc[u] = "unborn"
        /\ \A u \in Tasks : pc'[u] = "done" <=> pc[u] = "done"
        /\ \A u \in Tasks : pc'[u] = "signalling" <=> pc[u] = "signalling"
    BY <1>3, <2>1
  <2> QED BY <1>2, <2>2, <2>3, Unnoticed DEF RR!vars
<1> QED BY <1>4, <1>5

LEMMA TasksUnnoticed ==
  ASSUME UNCHANGED <<quantum, taskVars>>
  PROVE  UNCHANGED RR!vars
<1>1. UNCHANGED <<quantum, pq_head, priority, timer, io, sem, pc, loop>>
  BY DEF taskVars
<1>2. \A u \in Tasks : Scheduled(u)' <=> Scheduled(u)
  BY <1>1 DEF Scheduled
<1> QED BY <1>1, <1>2, Unnoticed DEF RR!vars

(* Before the first task and after the last one the abstract scheduler has *)
(* nothing.                                                                *)
LEMMA Empty ==
  ASSUME Typed, IInv, \A u \in Tasks : pc[u] \in {"unborn", "done"}
  PROVE  /\ pq_head = <<>> /\ \A u \in Tasks : sem[u] = 0 /\ ~Scheduled(u)
         /\ io = [u \in Tasks |-> NoDevice] /\ deviceBar = io
         /\ readyBar = [p \in Levels |-> <<>>] /\ TimeLeft = 0 /\ owesBar = FALSE
<1>1. \A u \in Tasks : ~Suspended(u) /\ sem[u] = 0 /\ io[u] = NoDevice /\ u \notin TasksIn(pq_head)
  <2>1. \A u \in Tasks : ~Suspended(u)
    BY DEF Suspended
  <2>2. sem \in [Tasks -> Nat]
    BY DEF Typed, TypeOK
  <2>3. \A u \in Tasks : sem[u] <= 1 /\ sem[u] # 1 /\ io[u] = NoDevice /\ u \notin TasksIn(pq_head)
    BY <2>1 DEF IInv, NoTaskLost
  <2> QED BY <2>1, <2>2, <2>3
<1>2. pq_head = <<>>
  <2>1. TasksIn(pq_head) = {}
    BY <1>1, Unsettled
  <2> QED BY <2>1, EmptyQueue, Unsettled
<1>3. \A u \in Tasks : ~Scheduled(u)
  BY <1>1 DEF Scheduled
<1>4. io = [u \in Tasks |-> NoDevice]
  BY <1>1 DEF Typed, TypeOK
<1>5. NoneWaking /\ owesBar = FALSE
  BY DEF NoneWaking, AboutToWake, owesBar
<1>6. deviceBar = io /\ readyBar = [p \in Levels |-> <<>>]
  <2>1. \A p : QueuedAt(pq_head, p) = <<>>
    <3>1. \A p : Positions(pq_head, p) = {}
      BY <1>2 DEF Positions
    <3> QED BY <3>1, QueuedAtEmpty, Unsettled
  <2> QED BY <1>5, <2>1, Mapping
<1>7. TimeLeft = 0
  BY <1>3 DEF TimeLeft
<1> QED BY <1>1, <1>2, <1>3, <1>4, <1>5, <1>6, <1>7

LEMMA EmptyNext ==
  (Typed /\ IInv /\ (\A u \in Tasks : pc[u] \in {"unborn", "done"}) =>
     /\ io = [u \in Tasks |-> NoDevice] /\ deviceBar = io
     /\ readyBar = [p \in Levels |-> <<>>] /\ TimeLeft = 0 /\ owesBar = FALSE)'
<1>1. Typed /\ IInv /\ (\A u \in Tasks : pc[u] \in {"unborn", "done"}) =>
        /\ io = [u \in Tasks |-> NoDevice] /\ deviceBar = io
        /\ readyBar = [p \in Levels |-> <<>>] /\ TimeLeft = 0 /\ owesBar = FALSE
  BY Empty
<1> QED BY <1>1, PTL

LEMMA InitImplements ==
  ASSUME Typed, Typed', IInv, IInv', NEW q \in Quanta, NEW n \in IoCounts, so_init(q, n)
  PROVE  RR!NoTasks /\ \E x \in Quanta \ {0} : RR!Configure(x)
<1>1. \A u \in Tasks : pc[u] = "unborn"
  BY DEF so_init, IInv, Birth
<1>2. pc' = pc /\ priority' = priority /\ quantum' = q /\ q # 0
  <2>1. q \in Nat
    BY ConstantsAssumption
  <2> QED BY <2>1 DEF so_init
<1>3. /\ readyBar' = readyBar /\ deviceBar' = deviceBar /\ TimeLeft' = TimeLeft
      /\ owesBar' = owesBar
  BY <1>1, <1>2, Empty, EmptyNext
<1>4. statusBar = [u \in Tasks |-> "none"] /\ statusBar' = statusBar
  <2>1. \A u \in Tasks : StatusOf(u) = "none" /\ StatusOf(u)' = "none"
    BY <1>1, <1>2 DEF StatusOf
  <2> QED BY <2>1 DEF statusBar
<1>5. RR!NoTasks
  BY <1>4 DEF RR!NoTasks
<1>6. RR!Configure(q)
  BY <1>2, <1>3, <1>4 DEF RR!Configure
<1> QED BY <1>2, <1>5, <1>6

(* The one task the initialising thread forks is the first.                *)
LEMMA FirstImplements ==
  ASSUME MainForks <= 1, Typed, Typed', IInv, IInv', NEW p \in Priorities, so_fork_main(p)
  PROVE  RR!NoTasks /\ \E u \in Tasks, l \in Levels : RR!First(u, l)
<1>1. arr_size = 0 /\ 0 \in Tasks /\ allocated
  <2>1. allocated
    BY DEF so_fork_main, IInv, Birth
  <2>2. forks = 0
    BY ConstantsAssumption DEF so_fork_main, Typed, TypeOK
  <2> QED BY <2>1, <2>2, ConstantsAssumption DEF IInv, Birth, Tasks
<1>2. \A u \in Tasks : pc[u] = "unborn"
  BY <1>1, ConstantsAssumption DEF IInv, Birth, Tasks
<1>3. /\ pc \in [Tasks -> PCs] /\ timer \in Timers /\ io \in [Tasks -> {NoDevice} \cup Devices]
      /\ pc' = [pc EXCEPT ![0] = "running"] /\ timer' = [timer EXCEPT ![0] = quantum]
      /\ io' = [io EXCEPT ![0] = NoDevice] /\ priority' = [priority EXCEPT ![0] = p]
      /\ UNCHANGED <<pq_head, sem, loop, quantum>>
  BY <1>1 DEF so_fork_main, config, Typed, TypeOK, Timers
<1>4. p \in Levels
  BY DEF so_fork_main, AcceptsPriority, Levels
<1>5. /\ pq_head = <<>> /\ (\A u \in Tasks : sem[u] = 0) /\ io = [u \in Tasks |-> NoDevice]
      /\ deviceBar = io /\ readyBar = [l \in Levels |-> <<>>] /\ owesBar = FALSE
  BY <1>2, Empty
<1>6. \A u \in Tasks : pc'[u] = IF u = 0 THEN "running" ELSE "unborn"
  BY <1>1, <1>2, <1>3
<1>7. io' = io
  BY <1>1, <1>3, <1>5
<1>8. \A u \in Tasks : ~AboutToWake(u)'
  BY <1>6 DEF AboutToWake
<1>9. owesBar' = FALSE
  BY <1>6 DEF owesBar
<1>10. deviceBar' = deviceBar /\ readyBar' = readyBar
  <2>1. NoneWaking'
    BY <1>8 DEF NoneWaking
  <2>2. deviceBar' = io' /\ readyBar' = [l \in Levels |-> QueuedAt(pq_head', l)]
    BY <2>1, MappingNext
  <2>3. NoneWaking
    BY <1>2 DEF NoneWaking, AboutToWake
  <2>4. readyBar = [l \in Levels |-> QueuedAt(pq_head, l)]
    BY <2>3, Mapping
  <2> QED BY <1>3, <1>5, <1>7, <2>2, <2>4
<1>11. \A u \in Tasks : Scheduled(u)' <=> u = 0
  BY <1>3, <1>5, <1>6 DEF Scheduled
<1>12. statusBar = [u \in Tasks |-> "none"]
  <2>1. \A u \in Tasks : StatusOf(u) = "none"
    BY <1>2 DEF StatusOf
  <2> QED BY <2>1 DEF statusBar
<1>13. statusBar' = [statusBar EXCEPT ![0] = "running"]
  <2>1. \A u \in Tasks : StatusOf(u)' = IF u = 0 THEN "running" ELSE "none"
    BY <1>6, <1>11 DEF StatusOf
  <2> QED BY <1>12, <2>1 DEF statusBar
<1>14. TimeLeft' = quantum
  <2>1. (CHOOSE u \in Tasks : Scheduled(u)') = 0
    BY <1>1, <1>11
  <2>2. timer'[0] = quantum
    BY <1>1, <1>3 DEF Timers
  <2> QED BY <1>1, <1>11, <2>1, <2>2 DEF TimeLeft
<1>15. RR!NoTasks
  BY <1>12 DEF RR!NoTasks
<1>16. RR!First(0, p)
  BY <1>3, <1>5, <1>9, <1>10, <1>13, <1>14 DEF RR!First
<1> QED BY <1>1, <1>4, <1>15, <1>16

LEMMA DestroyImplements ==
  ASSUME Typed, Typed', IInv, IInv', so_end_return
  PROVE  RR!Destroy
<1>1. \A u \in Tasks : pc[u] \in {"unborn", "done"}
  <2> SUFFICES ASSUME NEW u \in Tasks, pc[u] # "unborn" PROVE pc[u] = "done"
    OBVIOUS
  <2>1. main = "join" /\ idx >= arr_size
    BY DEF so_end_return, JoinedAll
  <2>2. ~(u >= arr_size)
    BY DEF IInv, Birth
  <2>3. u < idx
    BY <2>1, <2>2, ConstantsAssumption DEF Typed, TypeOK, Tasks
  <2> QED BY <2>1, <2>3 DEF IInv, Joined, Ending
<1>2. /\ pc' = [u \in Tasks |-> "unborn"] /\ priority' = [u \in Tasks |-> 0] /\ quantum' = quantum
  BY DEF so_end_return, config
<1>3. /\ readyBar' = readyBar /\ deviceBar' = deviceBar /\ TimeLeft' = TimeLeft
      /\ owesBar' = owesBar
  BY <1>1, <1>2, Empty, EmptyNext
<1>4. \A u \in Tasks : statusBar[u] \in {"none", "ended"}
  BY <1>1 DEF statusBar, StatusOf
<1>5. statusBar' = [u \in Tasks |-> "none"]
  <2>1. \A u \in Tasks : StatusOf(u)' = "none"
    BY <1>2 DEF StatusOf
  <2> QED BY <2>1 DEF statusBar
<1> QED BY <1>2, <1>3, <1>4, <1>5 DEF RR!Destroy
-----------------------------------------------------------------------------
(* The initial states and every step.                                      *)

LEMMA LevelledStep ==
  ASSUME Typed, IInv, Levelled, [Next]_vars
  PROVE  Levelled'
<1>1. ASSUME NEW new \in Tasks, NEW p \in Levels, priority' = [priority EXCEPT ![new] = p],
             \A u \in Tasks : u # new => (pc'[u] # "unborn" => pc[u] # "unborn")
      PROVE  Levelled'
  <2>1. priority \in [Tasks -> 0..SO_MAX_PRIO]
    BY DEF Typed, TypeOK
  <2> QED BY <1>1, <2>1 DEF Levelled
<1>2. pc \in [Tasks -> PCs]
  BY DEF Typed, TypeOK
<1>3. ASSUME NEW t \in Tasks, NEW p \in Priorities, so_fork(t, p) PROVE Levelled'
  <2>1. /\ arr_size \in Tasks /\ p \in Levels /\ priority' = [priority EXCEPT ![arr_size] = p]
    BY <1>3, ConstantsAssumption DEF so_fork, AcceptsPriority, Levels, Tasks, Typed, TypeOK
  <2>2. pc[t] = "running" /\ pc' \in {[pc EXCEPT ![arr_size] = "park", ![t] = "park"],
                                       [pc EXCEPT ![arr_size] = "park", ![t] = "running"]}
    BY <1>3 DEF so_fork, PayTime, preemptThread
  <2>3. \A u \in Tasks : u # arr_size => (pc'[u] # "unborn" => pc[u] # "unborn")
    BY <1>2, <2>2
  <2> QED BY <1>1, <2>1, <2>3
<1>4. ASSUME NEW p \in Priorities, so_fork_main(p) PROVE Levelled'
  <2>1. /\ arr_size \in Tasks /\ p \in Levels /\ priority' = [priority EXCEPT ![arr_size] = p]
    BY <1>4, ConstantsAssumption DEF so_fork_main, AcceptsPriority, Levels, Tasks, Typed, TypeOK
  <2>2. pc' = [pc EXCEPT ![arr_size] = IF arr_size = 0 THEN "running" ELSE "park"]
    BY <1>4 DEF so_fork_main
  <2>3. \A u \in Tasks : u # arr_size => (pc'[u] # "unborn" => pc[u] # "unborn")
    BY <1>2, <2>2
  <2> QED BY <1>1, <2>1, <2>3
<1>5. ASSUME so_end_return PROVE Levelled'
  BY <1>5 DEF so_end_return, Levelled
<1>6. ASSUME UNCHANGED <<priority, pc>> PROVE Levelled'
  BY <1>6 DEF Levelled
<1>7. ASSUME NEW t \in Tasks, NEW x, pc[t] # "unborn", UNCHANGED priority,
             pc' = [pc EXCEPT ![t] = x]
      PROVE  Levelled'
  <2>1. \A u \in Tasks : pc'[u] # "unborn" => pc[u] # "unborn"
    BY <1>2, <1>7
  <2> QED BY <1>7, <2>1 DEF Levelled
<1>8. ASSUME NEW t \in Tasks, load_sem(t) \/ enter_sem_wait(t) \/ leave_sem_wait(t)
                              \/ end_thread(t) \/ \E d \in Devices : so_wait(t, d) \/ so_signal(t, d)
      PROVE  Levelled'
  BY <1>7, <1>8 DEF load_sem, enter_sem_wait, leave_sem_wait, end_thread, so_wait, so_signal
<1>9. ASSUME NEW t \in Tasks, so_exec(t) \/ signal_return(t)
      PROVE  Levelled'
  BY <1>7, <1>9 DEF so_exec, signal_return, PayTime, preemptThread
<1>10. ASSUME NEW t \in Tasks, signal_iteration(t) PROVE Levelled'
  BY <1>6, <1>10 DEF signal_iteration
<1>11. ASSUME NEW q \in Quanta, NEW n \in IoCounts, so_init(q, n) PROVE Levelled'
  BY <1>6, <1>11 DEF so_init
<1>12. ASSUME load_tid \/ store_tid \/ so_end \/ load_join \/ enter_join \/ leave_join
              \/ free_task \/ so_end_again \/ UNCHANGED vars
       PROVE  Levelled'
  BY <1>6, <1>12 DEF load_tid, store_tid, so_end, load_join, enter_join, leave_join, free_task,
                     so_end_again, taskVars, vars
<1> QED BY <1>3, <1>4, <1>5, <1>8, <1>9, <1>10, <1>11, <1>12 DEF Next, TaskStep, MainStep

LEMMA StepImplements ==
  ASSUME MainForks <= 1, Typed, Typed', IInv, IInv', Levelled, [Next]_vars
  PROVE  [RR!Next]_(RR!vars)
<1>1. ASSUME NEW t \in Tasks, end_thread(t) PROVE RR!Next
  BY <1>1, EndImplements DEF RR!Next, RR!Call
<1>2. ASSUME NEW t \in Tasks, so_exec(t) PROVE RR!Next
  BY <1>2, ExecImplements DEF RR!Next, RR!Call
<1>3. ASSUME NEW t \in Tasks, NEW p \in Priorities, so_fork(t, p) PROVE RR!Next
  BY <1>3, ForkImplements DEF RR!Next, RR!Call
<1>4. ASSUME NEW t \in Tasks, NEW d \in Devices, so_wait(t, d) \/ so_signal(t, d) PROVE RR!Next
  BY <1>4, WaitImplements, SignalImplements DEF RR!Next, RR!Call
<1>5. ASSUME NEW t \in Tasks, signal_return(t) PROVE RR!Next
  BY <1>5, ReturnImplements DEF RR!Next
<1>6. ASSUME NEW t \in Tasks, signal_iteration(t) PROVE UNCHANGED RR!vars
  BY <1>6, IterationStutters
<1>7. ASSUME NEW t \in Tasks, load_sem(t) \/ enter_sem_wait(t) \/ leave_sem_wait(t)
      PROVE  UNCHANGED RR!vars
  BY <1>7, SemWaitStutters
<1>8. ASSUME NEW q \in Quanta, NEW n \in IoCounts, so_init(q, n) PROVE RR!Next
  BY <1>8, InitImplements DEF RR!Next
<1>9. ASSUME NEW p \in Priorities, so_fork_main(p) PROVE RR!Next
  BY <1>9, FirstImplements DEF RR!Next
<1>10. ASSUME so_end_return PROVE RR!Next
  BY <1>10, DestroyImplements DEF RR!Next
<1>11. ASSUME load_tid \/ store_tid \/ so_end \/ load_join \/ enter_join \/ leave_join
              \/ free_task \/ so_end_again \/ UNCHANGED vars
       PROVE  UNCHANGED RR!vars
  <2>1. UNCHANGED <<quantum, taskVars>>
    BY <1>11 DEF load_tid, store_tid, so_end, load_join, enter_join, leave_join, free_task,
                 so_end_again, config, vars
  <2> QED BY <2>1, TasksUnnoticed
<1> QED BY <1>1, <1>2, <1>3, <1>4, <1>5, <1>6, <1>7, <1>8, <1>9, <1>10, <1>11
        DEF Next, TaskStep, MainStep

LEMMA InitMapped == Init => RR!Init /\ Levelled
<1> SUFFICES ASSUME Init PROVE RR!Init /\ Levelled
  OBVIOUS
<1>1. Typed /\ IInv
  BY InitTyped, InitInvariant
<1>2. pc = [u \in Tasks |-> "unborn"] /\ priority = [u \in Tasks |-> 0] /\ quantum = 0
  BY DEF Init
<1>3. /\ io = [u \in Tasks |-> NoDevice] /\ deviceBar = io
      /\ readyBar = [p \in Levels |-> <<>>] /\ TimeLeft = 0 /\ owesBar = FALSE
  BY <1>1, <1>2, Empty
<1>4. statusBar = [u \in Tasks |-> "none"]
  <2>1. \A u \in Tasks : StatusOf(u) = "none"
    BY <1>2 DEF StatusOf
  <2> QED BY <2>1 DEF statusBar
<1>5. RR!Init
  BY <1>2, <1>3, <1>4 DEF RR!Init
<1>6. Levelled
  BY <1>2 DEF Levelled
<1> QED BY <1>5, <1>6

(* libscheduler.c implements "Round Robin with priorities": whatever the   *)
(* threads and handlers do, what happens to the tasks is what the abstract *)
(* scheduler allows, as long as the initialising thread forks no task but  *)
(* the first.                                                              *)
THEOREM Implements ==
  ASSUME MainForks <= 1
  PROVE  Spec => ImplementsRoundRobin
<1>1. Init => RR!Init /\ Levelled
  BY InitMapped
<1>2. Typed /\ IInv /\ Levelled /\ [Next]_vars => Levelled'
  BY LevelledStep
<1>3. Typed /\ Typed' /\ IInv /\ IInv' /\ Levelled /\ [Next]_vars => [RR!Next]_(RR!vars)
  BY StepImplements
<1> QED BY <1>1, <1>2, <1>3, Invariance, PTL DEF Spec, ImplementsRoundRobin, RR!Spec
=============================================================================
