---------------------------- MODULE MCAuditChain ----------------------------
(* Model checking of AuditChain: two nodes, four events, of which the one   *)
(* of the second node occurs first.                                         *)
EXTENDS AuditChain

CONSTANTS n1, n2, e1, e2, e3, e4

MCSource == (e1 :> n1) @@ (e2 :> n1) @@ (e3 :> n2) @@ (e4 :> n1)
MCOccurredAt == (e1 :> 2) @@ (e2 :> 3) @@ (e3 :> 1) @@ (e4 :> 4)
=============================================================================
