------------------------- MODULE SchedulerRefinement -------------------------
(* libscheduler.c implements the round robin scheduler: the refinement     *)
(* mapping from the state of Scheduler to that of RoundRobin.              *)
EXTENDS Scheduler, Orders

(* A task that waits for the device being signalled, and that so_signal's  *)
(* loop has yet to reach, counts as READY already.                         *)
AboutToWake(t) ==
  \E s \in Tasks \ {t} :
    pc[s] = "signalling" /\ io[t] = loop[s].io /\ t >= loop[s].i

StatusOf(t) ==
  IF pc[t] = "unborn" THEN "none"
  ELSE IF pc[t] = "done" THEN "ended"
  ELSE IF Scheduled(t) THEN "running"
  ELSE IF io[t] # NoDevice /\ ~AboutToWake(t) THEN "waiting"
  ELSE "ready"

(* The tasks queued at one priority, the first in the queue first, then    *)
(* those about to join them.                                               *)
Positions(q, p) == {i \in DOMAIN q : q[i].prio = p}

QueuedAt(q, p) ==
  LET at == Ascending(Positions(q, p))
  IN  [k \in DOMAIN at |-> q[at[k]].tIndex]

WakingAt(p) == {t \in Tasks : AboutToWake(t) /\ priority[t] = p}

ReadyAt(p) == QueuedAt(pq_head, p) \o Ascending(WakingAt(p))

TimeLeft ==
  IF \E t \in Tasks : Scheduled(t)
  THEN timer[CHOOSE t \in Tasks : Scheduled(t)]
  ELSE 0

Levels == {p \in Priorities : p <= SO_MAX_PRIO}

statusBar == [t \in Tasks |-> StatusOf(t)]
readyBar  == [p \in Levels |-> ReadyAt(p)]
deviceBar == [t \in Tasks |-> IF AboutToWake(t) THEN NoDevice ELSE io[t]]
owesBar   == \E t \in Tasks : pc[t] = "signalling"

RR == INSTANCE RoundRobin WITH
  Levels <- Levels,
  Quanta <- Quanta \ {0},
  None <- NoDevice,
  prio <- priority,
  status <- statusBar,
  ready <- readyBar,
  device <- deviceBar,
  left <- TimeLeft,
  owes <- owesBar

(* Every step of the library, under any interleaving of the threads, is a  *)
(* step of the abstract scheduler or leaves it alone: semaphores, parking  *)
(* and the walk of so_signal are invisible.                                *)
ImplementsRoundRobin == RR!Spec
=============================================================================
