----------------------------- MODULE MCApproval -----------------------------
(* Small instances of Approval.                                            *)
EXTENDS Approval, TLC

Symmetry == Permutations(Users) \union Permutations(Procs) \union Permutations(Requests)
=============================================================================
