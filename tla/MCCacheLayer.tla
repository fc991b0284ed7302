---------------------------- MODULE MCCacheLayer ----------------------------
(* Two nodes: a runs the writer and one loader, b runs two loaders.         *)
EXTENDS CacheLayer, TLC

CONSTANTS a, b, w1, r1, r2, r3

MCNodeOf == [x \in Loaders \cup Writers |-> IF x \in {w1, r1} THEN a ELSE b]
Symmetry == Permutations(Loaders \ {r1}) \cup Permutations(Gates)
=============================================================================
