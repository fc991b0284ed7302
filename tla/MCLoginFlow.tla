---------------------------- MODULE MCLoginFlow ----------------------------
EXTENDS LoginFlow, TLC
CONSTANTS alice, bob, f1, f2, r1, r2
MCOwes == [u \in Users |-> IF u = alice THEN {"PasswordChange"} ELSE {"Profile"}]
MCOrgs == [u \in Users |-> IF u = alice THEN 2 ELSE 1]
MCRisk == (f1 :> {"allow"}) @@ (f2 :> {"allow", "step_up", "block"})
Symmetry == Permutations(Requests)
=============================================================================
