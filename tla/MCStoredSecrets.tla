-------------------------- MODULE MCStoredSecrets --------------------------
(* Instances of StoredSecrets for TLC. *)
EXTENDS StoredSecrets, TLC

Symmetry == Permutations(Requests) \union Permutations(Values)
=============================================================================
