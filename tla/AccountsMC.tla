--------------------------- MODULE AccountsMC ---------------------------
EXTENDS Accounts, TLC

Symmetry == Permutations(Passwords)

===========================================================================
