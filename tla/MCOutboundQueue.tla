-------------------------- MODULE MCOutboundQueue --------------------------
(* Small instances of OutboundQueue.                                        *)
EXTENDS OutboundQueue, TLC

Symmetry == Permutations(Nodes) \cup Permutations(Messages)
=============================================================================
