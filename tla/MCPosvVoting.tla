---- MODULE MCPosvVoting ----
EXTENDS PosvVoting, TLC

CONSTANTS z, a, b, c, d

Symmetry == Permutations({a, b, c})
====
