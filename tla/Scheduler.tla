------------------------------ MODULE Scheduler ------------------------------
(***************************************************************************)
(* The thread scheduler, thread-scheduler/libscheduler.c.                  *)
(*                                                                         *)
(* One POSIX thread per task, and the thread that calls so_init and so_end *)
(* (Main).  A task runs until it calls the library; the library hands the  *)
(* processor over by posting the semaphore of the next task and waiting on *)
(* the caller's own.  What happens between two points where another thread *)
(* may act is one action; the points themselves (a thread was created, a   *)
(* semaphore was posted, the array pointer was loaded) are values of pc    *)
(* and main.                                                               *)
(*                                                                         *)
(* The handlers are arbitrary: a running task may call so_fork, so_wait,   *)
(* so_signal, so_exec with any argument, or return.  Calls the library     *)
(* rejects change nothing, so they are stuttering steps here.              *)
(***************************************************************************)
EXTENDS PrioQueue

CONSTANTS
  MaxTasks,    \* bound: so_fork calls between so_init and so_end
  MainForks,   \* bound: so_fork calls of the initialising thread among them
  Priorities,  \* priorities so_fork is called with
  Quanta,      \* time quanta so_init is called with
  IoCounts,    \* numbers of devices so_init is called with
  Devices,     \* devices so_wait and so_signal are called with
  UINT_MAX     \* largest unsigned int

SO_MAX_PRIO == 5
SO_MAX_NUM_EVENTS == 256

ASSUME ConstantsAssumption ==
  /\ MaxTasks \in Nat \ {0}
  /\ MainForks \in Nat
  /\ Priorities \subseteq Nat
  /\ Quanta \subseteq 0..UINT_MAX
  /\ IoCounts \subseteq Nat
  /\ Devices \subseteq Nat
  /\ UINT_MAX \in Nat \ {0}

Tasks == 0..(MaxTasks - 1)   \* indices into tArr
Main == -1                   \* the initialising thread, as an actor
NoDevice == -1               \* tStruct.io of a task that waits for no device
NoLoop == [io |-> NoDevice, i |-> 0]

VARIABLES
  allocated,     \* tScheduler.tArr # NULL
  quantum, io_ev_n, arr_size, arr_max_size, pq_head,   \* tScheduler
  priority, timer, io, tid, sem,   \* the fields of tArr[t], by task
  pc,            \* where the thread of a task is
  loop,          \* so_signal's parameter and loop counter, by task
  main,          \* where the initialising thread is
  idx,           \* its local: *t_index in so_fork, i in so_end
  forks,         \* how often it called so_fork since so_init
  stale,         \* actors holding a pointer to an array realloc has freed
  fault          \* the process is lost: it used freed, NULL or unset memory

array  == <<allocated, arr_size, arr_max_size>>
config == <<quantum, io_ev_n>>
taskVars == <<pq_head, priority, timer, io, sem, pc, loop>>
mainVars == <<main, idx, forks>>
vars == <<array, config, taskVars, tid, mainVars, stale, fault>>

PCs == {"unborn",      \* not created, or joined and freed
        "park",        \* about to evaluate tArr[t].sem for sem_wait
        "loaded",      \* holds the array pointer, about to read sem through it
        "blocked",     \* inside sem_wait
        "running",     \* in its handler, between two library calls
        "signalling",  \* in the loop of so_signal
        "done"}        \* start_thread has returned

MainPCs == {"idle",         \* no scheduler exists
            "ready",        \* between two library calls
            "created",      \* in so_fork, after pthread_create
            "tid_loaded",   \* holds the array pointer, about to store tid
            "join",         \* at the head of so_end's loop
            "join_loaded",  \* holds the array pointer, about to read tid
            "joining",      \* inside pthread_join
            "free_loaded"}  \* holds the array pointer, about to free v_addr and sem
-----------------------------------------------------------------------------
Init ==
  /\ allocated = FALSE /\ arr_size = 0 /\ arr_max_size = 0
  /\ quantum = 0 /\ io_ev_n = 0
  /\ pq_head = <<>>
  /\ priority = [t \in Tasks |-> 0]
  /\ timer = [t \in Tasks |-> 0]
  /\ io = [t \in Tasks |-> NoDevice]
  /\ tid = [t \in Tasks |-> FALSE]
  /\ sem = [t \in Tasks |-> 0]
  /\ pc = [t \in Tasks |-> "unborn"]
  /\ loop = [t \in Tasks |-> NoLoop]
  /\ main = "idle" /\ idx = 0 /\ forks = 0
  /\ stale = {} /\ fault = FALSE
-----------------------------------------------------------------------------
(* The thread array is reallocated while other threads use it, unlocked.   *)

(* The actors that have loaded tScheduler.tArr but not yet used it.        *)
Holders == {t \in Tasks : pc[t] = "loaded"} \cup
           {a \in {Main} : main \in {"tid_loaded", "join_loaded", "free_loaded"}}

(* so_fork reserves one entry and doubles the block when it is full.       *)
(* realloc may move the block or extend it in place.                       *)
GrowArrayLate ==
  /\ arr_size' = arr_size + 1
  /\ \/ /\ arr_size <= arr_max_size
        /\ UNCHANGED <<arr_max_size, stale>>
     \/ /\ arr_size > arr_max_size
        /\ arr_max_size' = 2 * arr_max_size
        /\ stale' \in {stale, stale \cup Holders}

GrowArray ==
  /\ arr_size' = arr_size + 1
  /\ \/ /\ arr_size' # arr_max_size
        /\ UNCHANGED <<arr_max_size, stale>>
     \/ /\ arr_size' = arr_max_size
        /\ arr_max_size' = 2 * arr_max_size
        /\ stale' \in {stale, stale \cup Holders}

(* Actor a uses the pointer it holds.  Through a stale one it still finds  *)
(* the old contents, or garbage, and then nothing more can be said.        *)
UsePointer(a) ==
  /\ stale' = stale \ {a}
  /\ fault' \in IF a \in stale THEN BOOLEAN ELSE {FALSE}
-----------------------------------------------------------------------------
(* The static helpers.  An operator named after another one, with a        *)
(* suffix, is a plausible slip in it: no run uses it as it stands.         *)

AcceptsPriorityOffByOne(p) == p <= SO_MAX_PRIO + 1
AcceptsPriority(p) == p <= SO_MAX_PRIO

(* unsigned decrement of the timer                                         *)
Decrement(n) == IF n = 0 THEN UINT_MAX ELSE n - 1

isPreemptedByPrioOnly(t, left, q) == topPrioAbove(q, priority[t])
isPreemptedByTimerOnly(t, left, q) == left = 0

isPreempted(t, left, q) == topPrioAbove(q, priority[t]) \/ left = 0

wakeNextThreadUnqueued(q) ==
  /\ pq_head' = IF q = <<>> THEN q ELSE dequeue(q)
  /\ UNCHANGED sem

wakeNextThread(q) ==
  \/ q = <<>> /\ pq_head' = q /\ UNCHANGED sem
  \/ /\ q # <<>>
     /\ pq_head' = dequeue(q)
     /\ sem' = [sem EXCEPT ![dequeued(q)] = @ + 1]

(* The end of so_fork, so_signal and so_exec: t pays one unit of time and  *)
(* gives way if it must.  tm, q, pcs are timer, pq_head, pc so far.        *)
preemptThreadKeepingTimer(t, tm, q, pcs) ==
  /\ timer' = tm
  /\ wakeNextThread(enqueue(q, t, priority[t]))
  /\ pc' = [pcs EXCEPT ![t] = "park"]

preemptThreadWithoutWait(t, tm, q, pcs) ==
  /\ timer' = [tm EXCEPT ![t] = quantum]
  /\ wakeNextThread(enqueue(q, t, priority[t]))
  /\ pc' = [pcs EXCEPT ![t] = "running"]

preemptThread(t, tm, q, pcs) ==
  /\ timer' = [tm EXCEPT ![t] = quantum]
  /\ wakeNextThread(enqueue(q, t, priority[t]))
  /\ pc' = [pcs EXCEPT ![t] = "park"]

PayTime(t, tm, q, pcs) ==
  LET left == Decrement(tm[t])
      paid == [tm EXCEPT ![t] = left]
  IN  \/ /\ isPreempted(t, left, q)
         /\ preemptThread(t, paid, q, pcs)
      \/ /\ ~isPreempted(t, left, q)
         /\ timer' = paid /\ pq_head' = q
         /\ pc' = [pcs EXCEPT ![t] = "running"]
         /\ UNCHANGED sem
-----------------------------------------------------------------------------
(* The task threads: start_thread and the calls a handler makes.           *)

(* sem_wait(tArr[t].sem), in start_thread, preemptThread and so_wait:      *)
(* load the array pointer, ...                                             *)
load_semInitialising(t) ==
  /\ pc[t] = "park"
  /\ pc' = [pc EXCEPT ![t] = "loaded"]
  /\ sem' = [sem EXCEPT ![t] = 0]
  /\ UNCHANGED <<array, config, pq_head, priority, timer, io, tid, loop,
                 mainVars, stale, fault>>

load_sem(t) ==
  /\ pc[t] = "park"
  /\ pc' = [pc EXCEPT ![t] = "loaded"]
  /\ UNCHANGED <<array, config, pq_head, priority, timer, io, tid, sem, loop,
                 mainVars, stale, fault>>

(* ... read the semaphore's address through it and enter sem_wait, ...     *)
enter_sem_wait(t) ==
  /\ pc[t] = "loaded"
  /\ UsePointer(t)
  /\ pc' = [pc EXCEPT ![t] = "blocked"]
  /\ UNCHANGED <<array, config, pq_head, priority, timer, io, tid, sem, loop,
                 mainVars>>

(* ... and return from it once the semaphore was posted.                   *)
leave_sem_wait(t) ==
  /\ pc[t] = "blocked" /\ sem[t] > 0
  /\ sem' = [sem EXCEPT ![t] = @ - 1]
  /\ pc' = [pc EXCEPT ![t] = "running"]
  /\ UNCHANGED <<array, config, pq_head, priority, timer, io, tid, loop,
                 mainVars, stale, fault>>

(* The handler returns, start_thread hands the processor over and ends.    *)
end_thread(t) ==
  /\ pc[t] = "running"
  /\ wakeNextThread(pq_head)
  /\ pc' = [pc EXCEPT ![t] = "done"]
  /\ UNCHANGED <<array, config, priority, timer, io, tid, loop, mainVars,
                 stale, fault>>

so_exec(t) ==
  /\ pc[t] = "running"
  /\ PayTime(t, timer, pq_head, pc)
  /\ UNCHANGED <<array, config, priority, io, tid, loop, mainVars, stale, fault>>

so_fork(t, p) ==
  LET new == arr_size IN
  /\ pc[t] = "running"
  /\ arr_size < MaxTasks
  /\ AcceptsPriority(p)
  /\ GrowArray
  /\ priority' = [priority EXCEPT ![new] = p]
  /\ io' = [io EXCEPT ![new] = NoDevice]
  /\ tid' = [tid EXCEPT ![new] = TRUE]
  /\ PayTime(t, [timer EXCEPT ![new] = quantum], enqueue(pq_head, new, p),
             [pc EXCEPT ![new] = "park"])
  /\ UNCHANGED <<allocated, config, loop, mainVars, fault>>

so_wait(t, d) ==
  /\ pc[t] = "running"
  /\ d < io_ev_n
  /\ io' = [io EXCEPT ![t] = d]
  /\ wakeNextThread(pq_head)
  /\ pc' = [pc EXCEPT ![t] = "park"]
  /\ UNCHANGED <<array, config, priority, timer, tid, loop, mainVars, stale, fault>>

so_signal(t, d) ==
  /\ pc[t] = "running"
  /\ d < io_ev_n
  /\ pc' = [pc EXCEPT ![t] = "signalling"]
  /\ loop' = [loop EXCEPT ![t] = [io |-> d, i |-> 0]]
  /\ UNCHANGED <<array, config, pq_head, priority, timer, io, tid, sem,
                 mainVars, stale, fault>>

(* One iteration of so_signal's loop: the task at i becomes READY if it    *)
(* waits for the device.                                                   *)
signal_iteration(t) ==
  LET i == loop[t].i IN
  /\ pc[t] = "signalling" /\ i < arr_size
  /\ \/ /\ io[i] = loop[t].io /\ i # t
        /\ timer' = [timer EXCEPT ![i] = quantum]
        /\ io' = [io EXCEPT ![i] = NoDevice]
        /\ pq_head' = enqueue(pq_head, i, priority[i])
     \/ /\ ~(io[i] = loop[t].io /\ i # t)
        /\ UNCHANGED <<timer, io, pq_head>>
  /\ loop' = [loop EXCEPT ![t].i = i + 1]
  /\ UNCHANGED <<array, config, priority, tid, sem, pc, mainVars, stale, fault>>

SignalledAllButLast(t) == loop[t].i + 1 >= arr_size
SignalledAll(t) == loop[t].i >= arr_size

signal_return(t) ==
  /\ pc[t] = "signalling" /\ SignalledAll(t)
  /\ PayTime(t, timer, pq_head, pc)
  /\ loop' = [loop EXCEPT ![t] = NoLoop]
  /\ UNCHANGED <<array, config, priority, io, tid, mainVars, stale, fault>>
-----------------------------------------------------------------------------
(* The initialising thread.  It has no task of its own: so_fork neither    *)
(* charges nor preempts it.                                                *)

so_init(q, n) ==
  /\ main \in {"idle", "ready"}
  /\ q >= 1 /\ n <= SO_MAX_NUM_EVENTS /\ ~allocated
  /\ allocated' = TRUE /\ arr_size' = 0 /\ arr_max_size' = 1
  /\ quantum' = q /\ io_ev_n' = n
  /\ pq_head' = <<>>
  /\ main' = "ready" /\ idx' = 0 /\ forks' = 0
  /\ UNCHANGED <<priority, timer, io, tid, sem, pc, loop, stale, fault>>

(* The first task created is not queued and does not wait.                 *)
so_fork_main(p) ==
  LET new == arr_size IN
  /\ main = "ready" /\ forks < MainForks
  /\ arr_size < MaxTasks
  /\ AcceptsPriority(p)
  /\ GrowArray
  /\ priority' = [priority EXCEPT ![new] = p]
  /\ timer' = [timer EXCEPT ![new] = quantum]
  /\ io' = [io EXCEPT ![new] = NoDevice]
  /\ pq_head' = IF new = 0 THEN pq_head ELSE enqueue(pq_head, new, p)
  /\ pc' = [pc EXCEPT ![new] = IF new = 0 THEN "running" ELSE "park"]
  /\ main' = "created" /\ idx' = new /\ forks' = forks + 1
  /\ UNCHANGED <<allocated, config, tid, sem, loop, fault>>

(* tArr[*t_index].tid = tid: load the array pointer, store through it.  A  *)
(* store through a stale pointer is lost.                                  *)
load_tid ==
  /\ main = "created"
  /\ main' = "tid_loaded"
  /\ UNCHANGED <<array, config, taskVars, tid, idx, forks, stale, fault>>

store_tid ==
  /\ main = "tid_loaded"
  /\ UsePointer(Main)
  /\ tid' = [tid EXCEPT ![idx] = @ \/ Main \notin stale]
  /\ main' = "ready"
  /\ UNCHANGED <<array, config, taskVars, idx, forks>>

so_end ==
  /\ main = "ready"
  /\ main' = "join" /\ idx' = 0
  /\ UNCHANGED <<array, config, taskVars, tid, forks, stale, fault>>

load_join ==
  /\ main = "join" /\ idx < arr_size
  /\ main' = "join_loaded"
  /\ UNCHANGED <<array, config, taskVars, tid, idx, forks, stale, fault>>

(* pthread_join on a tid that was never stored kills the process.          *)
enter_join ==
  /\ main = "join_loaded"
  /\ stale' = stale \ {Main}
  /\ fault' \in IF ~tid[idx] THEN {TRUE}
                ELSE IF Main \in stale THEN BOOLEAN ELSE {FALSE}
  /\ main' = "joining"
  /\ UNCHANGED <<array, config, taskVars, tid, idx, forks>>

leave_join ==
  /\ main = "joining" /\ pc[idx] = "done"
  /\ main' = "free_loaded"
  /\ UNCHANGED <<array, config, taskVars, tid, idx, forks, stale, fault>>

free_task ==
  /\ main = "free_loaded"
  /\ UsePointer(Main)
  /\ main' = "join" /\ idx' = idx + 1
  /\ UNCHANGED <<array, config, taskVars, tid, forks>>

(* The end of so_end: the array, its entries and the queue are freed.      *)
JoinedAllButLast == idx + 1 >= arr_size
JoinedAll == idx >= arr_size

so_end_return ==
  /\ main = "join" /\ JoinedAll
  /\ allocated' = FALSE
  /\ pq_head' = <<>>
  /\ priority' = [t \in Tasks |-> 0]
  /\ timer' = [t \in Tasks |-> 0]
  /\ io' = [t \in Tasks |-> NoDevice]
  /\ tid' = [t \in Tasks |-> FALSE]
  /\ sem' = [t \in Tasks |-> 0]
  /\ pc' = [t \in Tasks |-> "unborn"]
  /\ main' = "idle"
  /\ UNCHANGED <<arr_size, arr_max_size, config, loop, idx, forks, stale, fault>>
(* so_end leaves arr_size as it is, so a second so_end starts its loop and *)
(* reads the NULL array.                                                   *)
so_end_again ==
  /\ main = "idle" /\ arr_size > 0
  /\ fault' = TRUE
  /\ UNCHANGED <<array, config, taskVars, tid, mainVars, stale>>
-----------------------------------------------------------------------------
TaskStep(t) ==
  \/ load_sem(t) \/ enter_sem_wait(t) \/ leave_sem_wait(t)
  \/ end_thread(t) \/ so_exec(t)
  \/ \E p \in Priorities : so_fork(t, p)
  \/ \E d \in Devices : so_wait(t, d) \/ so_signal(t, d)
  \/ signal_iteration(t) \/ signal_return(t)

MainStep ==
  \/ \E q \in Quanta, n \in IoCounts : so_init(q, n)
  \/ \E p \in Priorities : so_fork_main(p)
  \/ load_tid \/ store_tid
  \/ so_end \/ load_join \/ enter_join \/ leave_join \/ free_task
  \/ so_end_return \/ so_end_again

Next == ~fault /\ (MainStep \/ \E t \in Tasks : TaskStep(t))

Spec == Init /\ [][Next]_vars

(* The kernel runs every runnable thread; a handler always gets to its     *)
(* next library call or returns; so_end, once called, goes on.             *)
SoEndStep == load_join \/ enter_join \/ leave_join \/ free_task \/ so_end_return
Fairness ==
  /\ \A t \in Tasks : WF_vars(~fault /\ TaskStep(t))
  /\ WF_vars(~fault /\ (load_tid \/ store_tid \/ SoEndStep))

FairSpec == Spec /\ Fairness
-----------------------------------------------------------------------------
(* Properties.                                                             *)

(* Every variable has its type.                                            *)
TypeOK ==
  /\ allocated \in BOOLEAN
  /\ arr_size \in 0..MaxTasks /\ arr_max_size \in Nat
  /\ quantum \in 0..UINT_MAX /\ io_ev_n \in 0..SO_MAX_NUM_EVENTS
  /\ pq_head \in Seq([tIndex : Tasks, prio : Nat])
  /\ priority \in [Tasks -> 0..SO_MAX_PRIO]
  /\ timer \in [Tasks -> 0..UINT_MAX]
  /\ io \in [Tasks -> {NoDevice} \cup Devices]
  /\ tid \in [Tasks -> BOOLEAN]
  /\ sem \in [Tasks -> Nat]
  /\ pc \in [Tasks -> PCs]
  /\ loop \in [Tasks -> [io : {NoDevice} \cup Devices, i : 0..MaxTasks]]
  /\ main \in MainPCs /\ idx \in 0..MaxTasks /\ forks \in 0..MainForks
  /\ stale \subseteq Tasks \cup {Main}
  /\ fault \in BOOLEAN

(* t executes library or handler code, or its semaphore has been posted:   *)
(* it has the processor.                                                   *)
Scheduled(t) == pc[t] \in {"running", "signalling"} \/ sem[t] > 0

Suspended(t) == pc[t] \in {"park", "loaded", "blocked"}

(* "Scheduling done with semaphores" (README): no interleaving of forks,   *)
(* signals, preemptions and exits lets two tasks have the processor.       *)
OneTaskAtATime == \A t, u \in Tasks : Scheduled(t) /\ Scheduled(u) => t = u

(* No wakeup is lost or doubled, even when it comes before the sleeper has *)
(* reached sem_wait: a suspended task is posted, queued or waiting for a   *)
(* device, exactly one of them, and a task that is not suspended is none.  *)
NoTaskLost ==
  /\ Distinct(pq_head)
  /\ \A t \in Tasks :
       LET queued == t \in TasksIn(pq_head)
           waits  == io[t] # NoDevice
       IN  /\ sem[t] <= 1
           /\ Suspended(t) <=> sem[t] = 1 \/ queued \/ waits
           /\ ~(sem[t] = 1 /\ queued) /\ ~(sem[t] = 1 /\ waits) /\ ~(queued /\ waits)

(* so_scheduler.h: a forked task "runs according to the scheduler".  While *)
(* a task is READY some task has the processor, so some later call will    *)
(* hand it on.                                                             *)
ReadyTasksAreServed == pq_head # <<>> => \E t \in Tasks : Scheduled(t)

(* Between two library calls no READY task outranks the running one.       *)
HighestPriorityRuns ==
  \A t \in Tasks : pc[t] = "running" => ~topPrioAbove(pq_head, priority[t])

(* The timer of the task that has the processor is never exhausted, so the *)
(* unsigned decrement never wraps, and every turn starts with a quantum.   *)
FullQuantum ==
  \A t \in Tasks :
    /\ Scheduled(t) => timer[t] \in 1..quantum
    /\ sem[t] > 0 => timer[t] = quantum

(* Every index handed out by so_fork lies inside the allocated block.      *)
EntriesAllocated ==
  allocated => arr_size < arr_max_size /\ \A t \in Tasks : pc[t] # "unborn" => t < arr_max_size

(* When so_end frees everything no task is queued, posted or suspended:    *)
(* joining the tasks by index misses none, however they were forked.       *)
TeardownQuiescent ==
  [][main = "join" /\ main' = "idle" =>
       /\ pq_head = <<>>
       /\ \A t \in Tasks : pc[t] \in {"unborn", "done"} /\ sem[t] = 0]_vars

(* so_signal returns only when no task is left waiting for the device.     *)
SignalWakesAll ==
  [][\A t \in Tasks : pc[t] = "signalling" /\ pc'[t] # "signalling" =>
       \A u \in Tasks : io[u] # loop[t].io]_vars

(* The comment at libscheduler.c:160: semaphores live on the heap because  *)
(* realloc may move the array while the sem functions use an address.  No  *)
(* thread holds an address into an array that realloc has freed.           *)
NoStaleAddress == stale = {}

(* Round robin: a READY task gets the processor unless a task of higher    *)
(* priority is READY or has it.                                            *)
Ready(t) == t \in TasksIn(pq_head)
Outranked(t) ==
  \E u \in Tasks : priority[u] > priority[t] /\ (Scheduled(u) \/ Ready(u))
NoStarvation ==
  \A t \in Tasks : Ready(t) ~> (Scheduled(t) \/ Outranked(t) \/ fault)

(* A task whose semaphore is posted gets to run its handler.               *)
PostedTaskRuns ==
  \A t \in Tasks : sem[t] > 0 ~> (pc[t] = "running" \/ fault)

(* so_end hangs only when a handler runs for ever or when some task waits  *)
(* for a device: no task is left READY, half parked or posted for ever.    *)
Ending == main \in {"join", "join_loaded", "joining", "free_loaded"}
EndTerminates ==
  []<>(~(Ending /\ \A t \in Tasks : ~Scheduled(t) /\ io[t] = NoDevice) \/ fault)
=============================================================================
