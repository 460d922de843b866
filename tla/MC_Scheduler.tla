---------------------------- MODULE MC_Scheduler ----------------------------
(* Constants for model-checking the scheduler.                             *)
EXTENDS SchedulerRefinement

MCPriorities == {0, 1, 6}    \* 6 is above SO_MAX_PRIO: rejected
MCQuanta == {0, 1, 2}        \* 0 is rejected
MCIoCounts == {1, 257}       \* 257 is above SO_MAX_NUM_EVENTS: rejected
MCDevices == {0, 1}          \* device 1 does not exist
=============================================================================
