------------------------- MODULE MCControlCommands -------------------------
(***************************************************************************)
(* Two commands at a time on two services and a node.                      *)
(***************************************************************************)
EXTENDS ControlCommands, TLC

CONSTANTS c1, c2, s1, s2, n1, i1, i2, k1, h1

\* Each change touches fields that another one leaves alone.
MCChanges ==
  {[replicas |-> 0, image |-> None, add |-> {k1}, drop |-> {}, force |-> FALSE],
   [replicas |-> None, image |-> i2, add |-> {}, drop |-> {k1}, force |-> TRUE]}

Symmetry == Permutations({c1, c2}) \cup Permutations({s1, s2})

=============================================================================
