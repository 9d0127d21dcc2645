---------------------------- MODULE MCStateFile ----------------------------
EXTENDS StateFile

CONSTANTS r1, r2, r3, d1

MCSymmetry == Permutations(Runs)
=============================================================================
