-------------------------- MODULE MCOverlayNetwork --------------------------
(***************************************************************************)
(* Instances of OverlayNetwork for TLC.                                    *)
(***************************************************************************)
EXTENDS OverlayNetwork
=============================================================================
