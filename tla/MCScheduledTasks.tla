-------------------------- MODULE MCScheduledTasks --------------------------
(***************************************************************************)
(* Instance of ScheduledTasks for TLC.                                     *)
(***************************************************************************)
EXTENDS ScheduledTasks, TLC

ExecSymmetry == Permutations(Execs)
=============================================================================
