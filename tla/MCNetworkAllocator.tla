------------------------- MODULE MCNetworkAllocator -------------------------
(***************************************************************************)
(* Instances of NetworkAllocator for TLC.  The pool is 10.0.0.0/8 and the  *)
(* subnets are /24, for which OffsetByte is 0; octets are smaller.         *)
(***************************************************************************)
EXTENDS NetworkAllocator

CONSTANTS n1, n2, t1

SmallPool == [b \in 0..3 |-> IF b = 0 THEN Octet - 1 ELSE 0]

\* One task and the service are on both networks, so that a call can fail half way;
\* the service meets them in the other order.
FirstOnBoth == [t \in Task |-> IF t = t1 THEN <<n1, n2>> ELSE <<n1>>]
OnBoth      == [s \in Service |-> <<n2, n1>>]
=============================================================================
