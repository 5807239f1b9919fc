--------------------------- MODULE MCClusterHost ---------------------------
(***************************************************************************)
(* The host of ClusterHost is finite as it is: there is nothing to bound.  *)
(***************************************************************************)
EXTENDS ClusterHost

=============================================================================
