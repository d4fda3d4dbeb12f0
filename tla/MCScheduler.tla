---------------------------- MODULE MCScheduler ----------------------------
(***************************************************************************)
(* Small instances of Scheduler for TLC.  The state space is finite without *)
(* a state constraint: MaxTasks bounds the slots and MaxLaunches the        *)
(* programs.                                                               *)
(***************************************************************************)
EXTENDS Scheduler
=============================================================================
