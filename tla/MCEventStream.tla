--------------------------- MODULE MCEventStream ---------------------------
(***************************************************************************)
(* Small instances of EventStream for model checking.                      *)
(***************************************************************************)
EXTENDS EventStream

CONSTANTS r1, r2

OneReplica  == {r1}
TwoReplicas == {r1, r2}
Symmetry    == Permutations(Replicas)
=============================================================================
