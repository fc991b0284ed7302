-------------------------- MODULE MCSecondFactors --------------------------
(* Small instances of SecondFactors.                                        *)
EXTENDS SecondFactors, TLC

Symmetry == Permutations(Requests) \cup Permutations(Destinations) \cup Permutations(Codes)
=============================================================================
