----------------------------- MODULE Relocation -----------------------------
(***************************************************************************)
(* Where a tenant's data lives (db/router.rs) and moving it between        *)
(* databases (services/relocation.rs), for one tenant.                     *)
(*                                                                         *)
(* The registry in the home database says where the tenant lives and       *)
(* whether it is being moved.  Nodes cache that; a write opens its         *)
(* transaction in the database the cached placement names.  A move marks   *)
(* the tenant, waits until no node can still act on an older placement,    *)
(* copies, switches the registry and deletes the source.                   *)
(*                                                                         *)
(* The wait is modelled by what it is for: when it ends, placements cached *)
(* before the mark have expired and the transactions they opened are over  *)
(* (drain is at least PLACEMENT_TTL and a second; that no transaction runs *)
(* longer is the operator's to ensure, as MoveOptions says).               *)
(***************************************************************************)
EXTENDS Naturals, FiniteSets

CONSTANTS
    Nodes,
    Databases,   \* the home database and the regions, each with its Valkey
    Home,
    Sessions,    \* sign-ins: each is a row and a Valkey key of the tenant
    Movers,      \* runs of `move-tenant`
    MaxMoves,    \* bound: moves started
    MaxFaults,   \* bound: steps that fail and movers that die
    None

ASSUME RelocationAssumption ==
    /\ Home \in Databases /\ None \notin Databases \cup Movers
    /\ MaxMoves \in Nat /\ MaxFaults \in Nat

VARIABLES
    region,      \* registry: the database the tenant lives in
    relocating,  \* registry: it is being moved
    rows,        \* rows[d]: the sessions with a row in d
    keys,        \* keys[d]: the sessions with a key in the Valkey of d
    placement,   \* placement[n]: what node n has cached of the registry
    tx,          \* tx[s]: the database s is being written to, or None
    lock,        \* the mover that holds the advisory lock
    mover,       \* mover[m]: the move that m makes
    moves, faults,
    signedIn,    \* history: sessions that were committed
    ended,       \* history: sessions that were ended since
    misled,      \* history: a move acted on a placement read before its lock
    leftovers    \* history: sessions whose keys a failed move left behind

registryVars == <<region, relocating>>
dataVars == <<rows, keys>>
nodeVars == <<placement, tx, signedIn, ended>>
moverVars == <<lock, mover, moves, misled, leftovers>>
vars == <<registryVars, dataVars, nodeVars, moverVars, faults>>

Idle == [at |-> "idle"]
At(m, step) == mover[m].at = step
To(m, step) == mover' = [mover EXCEPT ![m].at = step]
Done(m) == mover' = [mover EXCEPT ![m] = Idle] /\ lock' = None
Fault == faults < MaxFaults /\ faults' = faults + 1

Init ==
    /\ region = Home /\ relocating = FALSE
    /\ rows = [d \in Databases |-> {}] /\ keys = rows
    /\ placement = [n \in Nodes |-> None] /\ tx = [s \in Sessions |-> None]
    /\ lock = None /\ mover = [m \in Movers |-> Idle]
    /\ moves = 0 /\ faults = 0
    /\ signedIn = {} /\ ended = {} /\ misled = FALSE /\ leftovers = {}

-----------------------------------------------------------------------------
(* The nodes.                                                               *)

(* fetch: the registry is read when nothing fresh is cached.                *)
Fetch(n) ==
    /\ placement[n] = None
    /\ placement' = [placement EXCEPT ![n] = [db |-> region, relocating |-> relocating]]
    /\ UNCHANGED <<tx, signedIn, ended, registryVars, dataVars, moverVars, faults>>

Lapse(n) ==
    /\ placement[n] # None /\ placement' = [placement EXCEPT ![n] = None]
    /\ UNCHANGED <<tx, signedIn, ended, registryVars, dataVars, moverVars, faults>>

(* locate: where node n opens the tenant's transactions, if anywhere.       *)
Locate(n) ==
    IF placement[n] = None \/ placement[n].relocating THEN {} ELSE {placement[n].db}

SignIn(n, s) ==
    /\ tx[s] = None /\ s \notin signedIn
    /\ \E d \in Locate(n) : tx' = [tx EXCEPT ![s] = d]
    /\ UNCHANGED <<placement, signedIn, ended, registryVars, dataVars, moverVars, faults>>

Commit(s) ==
    /\ tx[s] # None /\ tx' = [tx EXCEPT ![s] = None]
    /\ rows' = [rows EXCEPT ![tx[s]] = @ \cup {s}]
    /\ keys' = [keys EXCEPT ![tx[s]] = @ \cup {s}]
    /\ signedIn' = signedIn \cup {s}
    /\ UNCHANGED <<placement, ended, registryVars, moverVars, faults>>

(* The session is ended: its key is deleted, its row stays as revoked.      *)
SignOut(n, s) ==
    /\ s \in signedIn \ ended
    /\ \E d \in Locate(n) : s \in keys[d] /\ keys' = [keys EXCEPT ![d] = @ \ {s}]
    /\ ended' = ended \cup {s}
    /\ UNCHANGED <<rows, placement, tx, signedIn, registryVars, moverVars, faults>>

-----------------------------------------------------------------------------
(* move_tenant.                                                             *)

(* The tenant is read, and with it where it lives.                          *)
MoveRead(m, t) ==
    /\ mover[m] = Idle /\ moves < MaxMoves /\ moves' = moves + 1
    /\ mover' = [mover EXCEPT ![m] = [at |-> "lock", source |-> region, target |-> t,
                                      marked |-> relocating, seen |-> {}]]
    /\ UNCHANGED <<lock, misled, leftovers, registryVars, dataVars, nodeVars, faults>>

(* One move at a time: the lock is had at once or the move is refused.      *)
MoveLock(m) ==
    /\ At(m, "lock")
    /\ IF lock # None THEN mover' = [mover EXCEPT ![m] = Idle] /\ UNCHANGED <<lock, misled>>
       ELSE /\ lock' = m
            /\ To(m, IF mover[m].source = mover[m].target THEN "settle" ELSE "mark")
            /\ misled' = (misled \/ mover[m].source # region)
    /\ UNCHANGED <<moves, leftovers, registryVars, dataVars, nodeVars, faults>>

(* The tenant is where it should be: what an attempt that died left is put  *)
(* right, first the mark and then the copies elsewhere.                     *)
Settle(m) ==
    /\ At(m, "settle") /\ To(m, "clean")
    /\ relocating' = (relocating /\ ~ mover[m].marked)
    /\ UNCHANGED <<region, lock, moves, misled, leftovers, dataVars, nodeVars, faults>>

(* Mutant of CleanUp: only the home database is cleaned.                   *)
CleanUpHome(m) ==
    /\ At(m, "clean") /\ Done(m)
    /\ \/ rows' = [rows EXCEPT ![Home] = IF mover[m].target = Home THEN @ ELSE {}]
          /\ UNCHANGED faults
       \/ Fault /\ UNCHANGED rows
    /\ UNCHANGED <<keys, moves, misled, leftovers, registryVars, nodeVars>>

(* clean_up: the rows of every other database go; their keys stay.          *)
CleanUp(m) ==
    /\ At(m, "clean") /\ Done(m)
    /\ \/ rows' = [d \in Databases |-> IF d = mover[m].target THEN rows[d] ELSE {}]
          /\ UNCHANGED faults
       \/ Fault /\ UNCHANGED rows
    /\ UNCHANGED <<keys, moves, misled, leftovers, registryVars, nodeVars>>

Mark(m) ==
    /\ At(m, "mark") /\ To(m, "drain") /\ relocating' = TRUE
    /\ UNCHANGED <<region, lock, moves, misled, leftovers, dataVars, nodeVars, faults>>

Drain(m) ==
    /\ At(m, "drain") /\ To(m, "copy")
    /\ \A n \in Nodes : Locate(n) = {}
    /\ \A s \in Sessions : tx[s] = None
    /\ UNCHANGED <<lock, moves, misled, leftovers, registryVars, dataVars, nodeVars, faults>>

(* copy_everything: one transaction on the target replaces what is there by *)
(* what the source holds; then the copied audit chain must verify.          *)
CopyRows(m) ==
    /\ At(m, "copy")
    /\ \/ rows' = [rows EXCEPT ![mover[m].target] = rows[mover[m].source]]
          /\ To(m, "keys") /\ UNCHANGED faults
       \/ Fault /\ To(m, "undo") /\ rows' \in {rows, [rows EXCEPT ![mover[m].target] =
                                                        rows[mover[m].source]]}
    /\ UNCHANGED <<keys, lock, moves, misled, leftovers, registryVars, nodeVars>>

(* scan_match and copy_keys: the source's keys go over those of the target. *)
CopyKeys(m) ==
    LET seen == keys[mover[m].source]
        copied(some) == [keys EXCEPT ![mover[m].target] = @ \cup some]
    IN  /\ At(m, "keys")
        /\ \/ keys' = copied(seen) /\ UNCHANGED faults
              /\ mover' = [mover EXCEPT ![m].at = "switch", ![m].seen = seen]
           \/ /\ Fault /\ \E some \in SUBSET seen : keys' = copied(some)
              /\ mover' = [mover EXCEPT ![m].at = "undo", ![m].seen = seen]
        /\ UNCHANGED <<rows, lock, moves, misled, leftovers, registryVars, nodeVars>>

(* Before the switch a failure undoes the copy of the rows, the copy of the *)
(* keys and the mark, and goes on when one of them fails.                   *)
Undo(m) ==
    LET t == mover[m].target
        purged == [rows EXCEPT ![t] = {}]
        cleared == [keys EXCEPT ![t] = @ \ mover[m].seen]
    IN
    /\ At(m, "undo") /\ Done(m)
    /\ \/ /\ rows' = purged /\ keys' = cleared /\ relocating' = FALSE
          /\ UNCHANGED <<faults, leftovers>>
       \/ /\ Fault /\ rows' \in {rows, purged} /\ relocating' \in {FALSE, relocating}
          /\ \/ keys' = cleared /\ UNCHANGED leftovers
             \/ UNCHANGED keys /\ leftovers' = leftovers \cup keys[t]
    /\ UNCHANGED <<region, moves, misled, nodeVars>>

(* set_placement; when it fails the tenant stays marked.                    *)
Switch(m) ==
    /\ At(m, "switch")
    /\ \/ /\ region' = mover[m].target /\ relocating' = FALSE /\ To(m, "drop")
          /\ UNCHANGED <<lock, leftovers, faults>>
       \/ /\ Fault /\ Done(m) /\ leftovers' = leftovers \cup mover[m].seen
          /\ UNCHANGED registryVars
    /\ UNCHANGED <<moves, misled, dataVars, nodeVars>>

(* Mutant of DropKeys: the source's keys are left to expire.                *)
DropNoKeys(m) ==
    /\ At(m, "drop") /\ To(m, "purge")
    /\ UNCHANGED <<dataVars, lock, moves, misled, leftovers, registryVars, nodeVars, faults>>

(* delete_keys of the source; a failure is logged.                          *)
DropKeys(m) ==
    /\ At(m, "drop") /\ To(m, "purge")
    /\ \/ keys' = [keys EXCEPT ![mover[m].source] = @ \ mover[m].seen]
          /\ UNCHANGED <<leftovers, faults>>
       \/ Fault /\ leftovers' = leftovers \cup mover[m].seen /\ UNCHANGED keys
    /\ UNCHANGED <<rows, lock, moves, misled, registryVars, nodeVars>>

(* Mutant of Purge: the database of the move's target is purged.            *)
PurgeTarget(m) ==
    /\ At(m, "purge") /\ Done(m)
    /\ rows' = [rows EXCEPT ![mover[m].target] = {}]
    /\ UNCHANGED <<keys, moves, misled, leftovers, registryVars, nodeVars, faults>>

(* purge of the source; a failure is logged.                                *)
Purge(m) ==
    /\ At(m, "purge") /\ Done(m)
    /\ \/ rows' = [rows EXCEPT ![mover[m].source] = {}] /\ UNCHANGED faults
       \/ Fault /\ UNCHANGED rows
    /\ UNCHANGED <<keys, moves, misled, leftovers, registryVars, nodeVars>>

(* The process dies: the lock goes with its connection, and an open         *)
(* transaction is rolled back.                                              *)
Die(m) ==
    /\ mover[m] # Idle /\ Fault
    /\ mover' = [mover EXCEPT ![m] = Idle] /\ lock' = IF lock = m THEN None ELSE lock
    /\ leftovers' = leftovers \cup mover[m].seen
    /\ UNCHANGED <<moves, misled, registryVars, dataVars, nodeVars>>

Next ==
    \/ \E n \in Nodes : Fetch(n) \/ Lapse(n) \/ \E s \in Sessions : SignIn(n, s) \/ SignOut(n, s)
    \/ \E s \in Sessions : Commit(s)
    \/ \E m \in Movers :
         \/ \E t \in Databases : MoveRead(m, t)
         \/ MoveLock(m) \/ Settle(m) \/ CleanUp(m) \/ Mark(m) \/ Drain(m) \/ CopyRows(m)
         \/ CopyKeys(m) \/ Undo(m) \/ Switch(m) \/ DropKeys(m) \/ Purge(m) \/ Die(m)

Spec == Init /\ [][Next]_vars

-----------------------------------------------------------------------------
(* A move under way: where it stands, between which databases, whether the  *)
(* tenant was marked when it was read, and the keys it found at the source. *)
Move == [at : {"lock", "settle", "clean", "mark", "drain", "copy", "keys", "undo", "switch",
               "drop", "purge"},
         source : Databases, target : Databases, marked : BOOLEAN, seen : SUBSET Sessions]

TypeOK ==
    /\ region \in Databases /\ relocating \in BOOLEAN
    /\ rows \in [Databases -> SUBSET Sessions] /\ keys \in [Databases -> SUBSET Sessions]
    /\ placement \in [Nodes -> {None} \cup [db : Databases, relocating : BOOLEAN]]
    /\ tx \in [Sessions -> Databases \cup {None}] /\ lock \in Movers \cup {None}
    /\ mover \in [Movers -> {Idle} \cup Move]
    /\ moves \in 0 .. MaxMoves /\ faults \in 0 .. MaxFaults
    /\ signedIn \subseteq Sessions /\ ended \subseteq Sessions
    /\ misled \in BOOLEAN /\ leftovers \subseteq Sessions

(* As relocation.rs has it, a move can be repeated at any time and one that *)
(* fails leaves the tenant where it was: everything the tenant committed is *)
(* in the database the registry names.  So it is, unless a move acted on a  *)
(* registry entry it had read before it got the lock and that another move  *)
(* has changed since.                                                       *)
LostOnlyWhenMisled == misled \/ signedIn \subseteq rows[region]

(* While a tenant is served, a session that was ended stays ended: no move  *)
(* brings its key back, unless one that failed left it behind.              *)
EndedStaysEnded ==
    misled \/ relocating \/ ended \cap keys[region] \subseteq leftovers

(* Running a move again when the tenant is there removes the rows that      *)
(* moves that failed or died have left elsewhere, and only those.           *)
OneCopyAfterARerun ==
    [][ \A m \in Movers :
          At(m, "clean") /\ mover'[m] = Idle /\ faults' = faults /\ ~ misled
            => /\ \A d \in Databases \ {region} : rows'[d] = {}
               /\ rows'[region] = rows[region] ]_vars
=============================================================================
