-------------------------- MODULE MCRefreshTokens --------------------------
(* Small instances of RefreshTokens: every family in one session of one     *)
(* user.                                                                    *)
EXTENDS RefreshTokens, TLC

CONSTANTS s1, u1

MCFamSession == [f \in Families |-> s1]
MCFamUser == [f \in Families |-> u1]

Symmetry == Permutations(Tokens) \cup Permutations(Requests)
=============================================================================
