------------------------- MODULE EmailThrottleMC -------------------------
EXTENDS EmailThrottle, TLC

Symmetry == Permutations(Recipients)

===========================================================================
