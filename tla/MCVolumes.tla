----------------------------- MODULE MCVolumes -----------------------------
(***************************************************************************)
(* The volume manager with the tasks of one image and a volume command.    *)
(***************************************************************************)
EXTENDS Volumes, TLC

OneImage == [t \in Task |-> CHOOSE i \in Image : TRUE]

Symmetry == Permutations(Task) \cup Permutations(Command) \cup Permutations(Name)

=============================================================================
