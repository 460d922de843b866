------------------------------ MODULE PrioQueue ------------------------------
(***************************************************************************)
(* The scheduler's priority queue, thread-scheduler/prio_queue.c.          *)
(*                                                                         *)
(* The linked list reached from "head" is the sequence of its nodes, the   *)
(* head first.  A node is the record of the two fields the list carries    *)
(* besides "next".                                                         *)
(***************************************************************************)
EXTENDS Integers, Sequences, SequencesExt

pqNode(t, p) == [tIndex |-> t, prio |-> p]

(* An operator named after another one, with a suffix, is a plausible slip *)
(* in it: stopping in front of equals, never unlinking the node.           *)
InsertPosBeforeEquals(q, p) ==
  LET first == SelectInSeq(q, LAMBDA n : n.prio <= p)
  IN  IF first = 0 THEN Len(q) + 1 ELSE first

(* The node in front of which enqueue's loop stops: the first one of       *)
(* strictly lower priority, or the end of the list.                        *)
InsertPos(q, p) ==
  LET first == SelectInSeq(q, LAMBDA n : n.prio < p)
  IN  IF first = 0 THEN Len(q) + 1 ELSE first

enqueue(q, t, p) == InsertAt(q, InsertPos(q, p), pqNode(t, p))

(* dequeue returns the first node's index and unlinks it.                  *)
dequeued(q) == Head(q).tIndex
dequeueKeepingNode(q) == q
dequeue(q)  == Tail(q)

(* Is some queued node's priority, as topPrio reports it, above p?         *)
topPrioAbove(q, p) == q # <<>> /\ p < Head(q).prio

(* No task is queued twice; the nodes are ordered by priority; every node  *)
(* carries its task's priority.                                            *)
Distinct(q) == \A i, j \in DOMAIN q : q[i].tIndex = q[j].tIndex => i = j
Sorted(q) == \A i, j \in DOMAIN q : i <= j => q[i].prio >= q[j].prio
Carries(q, prio) == \A i \in DOMAIN q : q[i].prio = prio[q[i].tIndex]

TasksIn(q) == {q[i].tIndex : i \in DOMAIN q}
=============================================================================
