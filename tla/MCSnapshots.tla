---------------------------- MODULE MCSnapshots -----------------------------
(***************************************************************************)
(* Instances of Snapshots for TLC: all VMs belong to one service.          *)
(***************************************************************************)
EXTENDS Snapshots, TLC

CONSTANTS svc, noSvc

OneService    == [v \in VM |-> svc]
NoServiceFlag == noSvc

\* Nothing depends on which process is which.
Symmetry == Permutations(Proc)
=============================================================================
