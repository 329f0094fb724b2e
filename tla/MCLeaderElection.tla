-------------------------- MODULE MCLeaderElection --------------------------
(* Instances of LeaderElection for TLC. *)
EXTENDS LeaderElection, TLC

Symmetry == Permutations(Replicas) \union Permutations(Jobs)
=============================================================================
