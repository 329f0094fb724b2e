-------------------------------- MODULE MCCrl -------------------------------
EXTENDS Crl, TLC

Symmetry == Permutations(Serials) \union Permutations(Operators) \union Permutations(Generators)
=============================================================================
