------------------------------ MODULE MCMedia ------------------------------
EXTENDS Media, TLC
CONSTANTS j1, j2

JobSymmetry == Permutations(Jobs)
=============================================================================
