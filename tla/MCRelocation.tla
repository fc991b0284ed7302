---------------------------- MODULE MCRelocation ----------------------------
(* Model checking of Relocation; sessions and movers are interchangeable.   *)
EXTENDS Relocation, TLC

Symmetry == Permutations(Sessions) \cup Permutations(Movers) \cup Permutations(Nodes)
=============================================================================
