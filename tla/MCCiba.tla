------------------------------- MODULE MCCiba -------------------------------
(* Model checking of Ciba; deciders and polls are interchangeable.          *)
EXTENDS Ciba, TLC

Symmetry == Permutations(Requests) \cup Permutations(Deciders) \cup Permutations(Polls)
=============================================================================
