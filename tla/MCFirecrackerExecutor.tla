----------------------- MODULE MCFirecrackerExecutor ------------------------
(***************************************************************************)
(* Instances of FirecrackerExecutor for TLC.                               *)
(***************************************************************************)
EXTENDS FirecrackerExecutor

CONSTANT img

\* Every task has the same image.
OneImage == [t \in Task |-> img]
=============================================================================
