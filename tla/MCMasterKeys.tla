---------------------------- MODULE MCMasterKeys ----------------------------
EXTENDS MasterKeys, TLC
CONSTANTS n1, n2
Symmetry == Permutations(Passes)
=============================================================================
