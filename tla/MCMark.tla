------------------------------- MODULE MCMark -------------------------------
EXTENDS Mark, TLC

ObjectSymmetry == Permutations(Objects)
=============================================================================
