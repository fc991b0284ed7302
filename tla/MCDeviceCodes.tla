--------------------------- MODULE MCDeviceCodes ---------------------------
(* Small instances of DeviceCodes.                                          *)
EXTENDS DeviceCodes, TLC

Symmetry == Permutations(Polls) \cup Permutations(Deciders)
=============================================================================
