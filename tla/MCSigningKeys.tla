--------------------------- MODULE MCSigningKeys ---------------------------
(* Model checking of SigningKeys: two nodes, three keys.                    *)
EXTENDS SigningKeys, TLC

Symmetry == Permutations(Keys)
=============================================================================
