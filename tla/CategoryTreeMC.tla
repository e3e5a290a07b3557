-------------------------- MODULE CategoryTreeMC --------------------------
EXTENDS CategoryTree, TLC

Symmetry == Permutations(Categories)

===========================================================================
