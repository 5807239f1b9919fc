---------------------------- MODULE MCTapNetwork ----------------------------
(***************************************************************************)
(* Instances of TapNetwork for TLC.                                        *)
(***************************************************************************)
EXTENDS TapNetwork, TLC

MCTask == {"t1", "t2", "t3"}

\* t1 and t2 collide, at the address before the gateway; with the gateway at 4
\* and nobody at 1 there are two addresses for the three tasks.
MCHash == "t1" :> 2 @@ "t2" :> 2 @@ "t3" :> 1

\* One task per way to be attached.
MCNets == "t1" :> <<>> @@ "t2" :> <<"none">> @@ "t3" :> <<"none", "swarmkit">>

=============================================================================
