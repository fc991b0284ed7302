----------------------------- MODULE LeaderLock -----------------------------
(***************************************************************************)
(* The Valkey lock that lets one node at a time run a job                  *)
(* (jobs/leader.rs).  A node runs its passes of a job one after another,   *)
(* each with a token of its own, so the token in the key is written here   *)
(* as the node that put it there.                                          *)
(***************************************************************************)
CONSTANTS Nodes, None

VARIABLE lock    \* the node whose token the key holds, or None

LockInit == lock = None

(* SET NX PX. *)
Acquire(n) == lock = None /\ lock' = n

(* Compare and delete: a pass that lost the lock leaves it alone.           *)
Release(n) == lock' = IF lock = n THEN None ELSE lock

(* The key's TTL passes: its holder died, failed without releasing, or did  *)
(* not get its renewals through.                                            *)
Lapse == lock # None /\ lock' = None
=============================================================================
