--------------------------- MODULE MCModelReplicas --------------------------
(* ModelReplicas for TLC: models, and addresses, are alike to every action *)
(* and every property.                                                     *)
EXTENDS ModelReplicas, TLC

Symmetry == Permutations(Models) \cup Permutations(Addresses)
=============================================================================
