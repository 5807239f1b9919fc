-------------------------- MODULE MCSwarmExecutor ---------------------------
(***************************************************************************)
(* Instances of SwarmExecutor for TLC.                                     *)
(***************************************************************************)
EXTENDS SwarmExecutor, TLC

\* Tasks, controllers and children are interchangeable (safety runs only).
Symm == Permutations(Task) \cup Permutations(Ctl) \cup Permutations(Pid)
=============================================================================
