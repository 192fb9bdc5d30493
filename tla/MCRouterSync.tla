---------------------------- MODULE MCRouterSync ----------------------------
EXTENDS RouterSync, TLC

CONSTANTS r1, r2

NameSymmetry == Permutations({r1, r2})

=============================================================================
