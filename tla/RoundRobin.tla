------------------------------ MODULE RoundRobin ------------------------------
(***************************************************************************)
(* What the thread scheduler promises: "Round Robin with priorities"       *)
(* (README.md), one task at a time.                                        *)
(*                                                                         *)
(* There is no thread, semaphore, array or linked list here.  A task is    *)
(* READY in the first-come-first-served queue of its priority; a call of   *)
(* the running task is one step, and so_signal wakes all its waiters in    *)
(* one step.                                                               *)
(***************************************************************************)
EXTENDS Orders

CONSTANTS Tasks,     \* tasks, in the order of their creation
          Levels,    \* priorities
          Quanta, Devices,
          None       \* no running task, no device

VARIABLES
  quantum,
  prio,      \* priority, by task
  status,    \* "none", "running", "ready", "waiting" or "ended", by task
  ready,     \* the READY tasks, by priority, the next one first
  device,    \* the device a waiting task waits for
  left,      \* time left to the running task
  owes       \* the running task has yet to pay for a signal it gave

vars == <<quantum, prio, status, ready, device, left, owes>>

Init ==
  /\ quantum = 0 /\ left = 0 /\ owes = FALSE
  /\ prio = [t \in Tasks |-> 0]
  /\ status = [t \in Tasks |-> "none"]
  /\ ready = [p \in Levels |-> <<>>]
  /\ device = [t \in Tasks |-> None]

Better(p, rs) == \E q \in Levels : q > p /\ rs[q] # <<>>

(* The processor is free: the first task of the highest priority gets it,  *)
(* with a full quantum.                                                    *)
Dispatch(sts, rs) ==
  /\ owes' = FALSE
  /\ \/ /\ \A p \in Levels : rs[p] = <<>>
        /\ ready' = rs /\ status' = sts /\ left' = 0
     \/ \E p \in Levels :
          /\ rs[p] # <<>> /\ ~Better(p, rs)
          /\ ready' = [q \in Levels |-> IF q = p THEN Tail(rs[p]) ELSE rs[q]]
          /\ status' = [sts EXCEPT ![Head(rs[p])] = "running"]
          /\ left' = quantum

(* A call of the running task t costs one unit of time, and t gives way    *)
(* when its time is up or a better task is READY.                          *)
Pay(t, sts, rs) ==
  \/ /\ left > 1 /\ ~Better(prio'[t], rs)
     /\ left' = left - 1 /\ status' = sts /\ ready' = rs /\ owes' = FALSE
  \/ /\ left <= 1 \/ Better(prio'[t], rs)
     /\ Dispatch([sts EXCEPT ![t] = "ready"], [rs EXCEPT ![prio'[t]] = Append(@, t)])

Running(t) == status[t] = "running" /\ ~owes
-----------------------------------------------------------------------------
(* Before the first task (NoTasks).                                        *)
Configure(q) ==
  /\ quantum' = q
  /\ UNCHANGED <<prio, status, ready, device, left, owes>>

(* The first task runs at once.                                            *)
First(u, p) ==
  /\ prio' = [prio EXCEPT ![u] = p]
  /\ status' = [status EXCEPT ![u] = "running"]
  /\ left' = quantum
  /\ UNCHANGED <<quantum, ready, device, owes>>

(* What the running task t may do.                                         *)
Fork(t, u, p) ==
  /\ status[u] = "none"
  /\ prio' = [prio EXCEPT ![u] = p]
  /\ Pay(t, [status EXCEPT ![u] = "ready"], [ready EXCEPT ![p] = Append(@, u)])
  /\ UNCHANGED <<quantum, device>>

Exec(t) ==
  /\ UNCHANGED <<quantum, prio, device>>
  /\ Pay(t, status, ready)

Wait(t, d) ==
  /\ device' = [device EXCEPT ![t] = d]
  /\ Dispatch([status EXCEPT ![t] = "waiting"], ready)
  /\ UNCHANGED <<quantum, prio>>

(* All the tasks that wait for d become READY, in the order of creation.   *)
Waiters(d, p) ==
  Ascending({t \in Tasks : device[t] = d /\ prio[t] = p})

Signal(t, d) ==
  /\ ready' = [p \in Levels |-> ready[p] \o Waiters(d, p)]
  /\ status' = [u \in Tasks |-> IF device[u] = d THEN "ready" ELSE status[u]]
  /\ device' = [u \in Tasks |-> IF device[u] = d THEN None ELSE device[u]]
  /\ owes' = TRUE
  /\ UNCHANGED <<quantum, prio, left>>

PaySignal(t) ==
  /\ status[t] = "running" /\ owes
  /\ UNCHANGED <<quantum, prio, device>>
  /\ Pay(t, status, ready)

End(t) ==
  /\ Dispatch([status EXCEPT ![t] = "ended"], ready)
  /\ UNCHANGED <<quantum, prio, device>>

(* The scheduler may be destroyed once every task has ended.               *)
Destroy ==
  /\ \A t \in Tasks : status[t] \in {"none", "ended"}
  /\ status' = [t \in Tasks |-> "none"]
  /\ prio' = [t \in Tasks |-> 0]
  /\ UNCHANGED <<quantum, ready, device, left, owes>>

(* A call of the running task t, or its end.                               *)
Call(t) ==
  \/ \E u \in Tasks, p \in Levels : Fork(t, u, p)
  \/ Exec(t)
  \/ \E d \in Devices : Wait(t, d) \/ Signal(t, d)
  \/ End(t)

NoTasks == \A t \in Tasks : status[t] = "none"

Next ==
  \/ /\ NoTasks
     /\ \/ \E q \in Quanta : Configure(q)
        \/ \E u \in Tasks, p \in Levels : First(u, p)
  \/ \E t \in Tasks : Running(t) /\ Call(t)
  \/ \E t \in Tasks : PaySignal(t)
  \/ Destroy

Spec == Init /\ [][Next]_vars
=============================================================================
