----------------------------- MODULE CacheLayer -----------------------------
(***************************************************************************)
(* The two-tier read-through cache (cache/layer.rs over cache/l1.rs) for   *)
(* one key: every node's L1, the Redis entry all nodes share, the database *)
(* row behind them, loaders that fill the tiers and writers that           *)
(* invalidate them, and the pub/sub listener of each node.                 *)
(*                                                                         *)
(* A value is the version of the row it was read from (a cached absence is *)
(* just another value).  L1 operations of different threads of one node    *)
(* interleave: insert_fresh is a check, an insert and a second check;      *)
(* remove and clear move the eviction mark first and drop entries second.  *)
(***************************************************************************)
EXTENDS Naturals

CONSTANTS
    Nodes, Loaders, Writers,
    NodeOf,       \* the node a loader or a writer runs on
    Gates,        \* ids of single-flight gates; a new one takes an unused id
    MaxVersion,   \* bound: writes to the row
    Miss,         \* nothing cached
    Held,         \* the INVALIDATED sentinel
    None

ASSUME CacheAssumption ==
    /\ NodeOf \in [Loaders \cup Writers -> Nodes]
    /\ MaxVersion \in Nat
    /\ Held # Miss /\ Held \notin Nat /\ Miss \notin Nat
    /\ None \notin Gates

VARIABLES
    db,        \* version of the committed row
    redis,     \* the shared entry
    l1,        \* l1[n]: node n's entry
    spoiled,   \* loaders whose ticket no longer matches their node's marks
    dropping,  \* dropping[n]: the mark has moved and the entries are not dropped yet
    inbox,     \* inbox[n]: invalidation messages on their way to n
    link,      \* link[n]: state of n's listener
    loading,   \* loading[n]: the key's gate in n's map of gates, if any
    clone,     \* clone[r]: the gate loader r has a reference to, if any
    rd,        \* rd[r]: step and value of loader r
    wr         \* wr[w]: step of writer w

vars == <<db, redis, l1, spoiled, dropping, inbox, link, loading, clone, rd, wr>>
pubsubVars == <<inbox, link>>
gateVars == <<loading, clone>>

Versions == 0 .. MaxVersion
LoaderPC == {"idle", "redis", "wait", "load", "store", "check", "insert", "recheck",
             "leave", "left"}
Resting == [pc |-> "idle", val |-> Miss]

Init ==
    /\ db = 0 /\ redis = Miss /\ l1 = [n \in Nodes |-> Miss]
    /\ spoiled = {} /\ dropping = [n \in Nodes |-> FALSE]
    /\ inbox = [n \in Nodes |-> 0] /\ link = [n \in Nodes |-> "up"]
    /\ loading = [n \in Nodes |-> None] /\ clone = [r \in Loaders |-> None]
    /\ rd = [r \in Loaders |-> Resting]
    /\ wr = [w \in Writers |-> "idle"]

-----------------------------------------------------------------------------
(* L1Cache::remove and ::clear: the mark moves first (evicted, cleared),    *)
(* the entries go in a later step.  A ticket is compared with the marks for *)
(* equality only and no mark is ever written twice, so what matters of it   *)
(* is whether a mark moved since it was taken.                              *)
Mark(n) ==
    /\ spoiled' = spoiled \cup {r \in Loaders : NodeOf[r] = n /\ rd[r].pc # "idle"}
    /\ dropping' = [dropping EXCEPT ![n] = TRUE]

DropEntries(n) ==
    /\ dropping[n]
    /\ l1' = [l1 EXCEPT ![n] = Miss]
    /\ dropping' = [dropping EXCEPT ![n] = FALSE]
    /\ UNCHANGED <<db, redis, spoiled, pubsubVars, gateVars, rd, wr>>

-----------------------------------------------------------------------------
(* get_or_load.  A loader that finds L1 empty takes its ticket first.       *)
Move(r, pc) == rd' = [rd EXCEPT ![r].pc = pc]

Start(r) ==
    /\ rd[r].pc = "idle" /\ l1[NodeOf[r]] = Miss
    /\ Move(r, "redis")
    /\ UNCHANGED <<db, redis, l1, spoiled, dropping, pubsubVars, gateVars, wr>>

(* The node's map of gates: a caller gets a reference to the key's gate,    *)
(* put there by the first.                                                  *)
Unused(g) ==
    /\ \A n \in Nodes : loading[n] # g
    /\ \A r \in Loaders : clone[r] # g
TakeGate(r, g) == LET n == NodeOf[r] IN
    /\ loading[n] = g \/ (loading[n] = None /\ Unused(g))
    /\ loading' = [loading EXCEPT ![n] = g]
    /\ clone' = [clone EXCEPT ![r] = g]

(* A hit goes to L1; a miss, the sentinel or a Redis error to the gate.     *)
ReadRedis(r) ==
    /\ rd[r].pc = "redis"
    /\ \/ /\ redis \in Versions
          /\ rd' = [rd EXCEPT ![r].pc = "check", ![r].val = redis]
          /\ UNCHANGED gateVars
       \/ Move(r, "wait") /\ \E g \in Gates : TakeGate(r, g)
    /\ UNCHANGED <<db, redis, l1, spoiled, dropping, pubsubVars, wr>>

(* The gate is a mutex, held from the second look at L1 to the end of the   *)
(* insert; then its holder has still to leave it.                           *)
Behind == {"load", "store", "check", "insert", "recheck"}
Locked(g) == \E q \in Loaders : clone[q] = g /\ rd[q].pc \in Behind
Done(r) == [pc |-> IF clone[r] = None THEN "idle" ELSE "leave", val |-> Miss]
Finish(r) ==
    /\ rd' = [rd EXCEPT ![r] = Done(r)]
    /\ spoiled' = spoiled \ {r}

PassGate(r) ==
    /\ rd[r].pc = "wait" /\ ~Locked(clone[r])
    /\ IF l1[NodeOf[r]] # Miss THEN Finish(r) ELSE Move(r, "load") /\ UNCHANGED spoiled
    /\ UNCHANGED <<db, redis, l1, dropping, pubsubVars, gateVars, wr>>

Load(r) ==
    /\ rd[r].pc = "load"
    /\ rd' = [rd EXCEPT ![r].pc = "store", ![r].val = db]
    /\ UNCHANGED <<db, redis, l1, spoiled, dropping, pubsubVars, gateVars, wr>>

(* A failed load is shared with everyone who was waiting at the gate.       *)
LoadFails(r) ==
    LET sharing == {r} \cup {q \in Loaders : rd[q].pc = "wait" /\ clone[q] = clone[r]}
    IN
    /\ rd[r].pc = "load"
    /\ rd' = [q \in Loaders |-> IF q \in sharing THEN Done(q) ELSE rd[q]]
    /\ spoiled' = spoiled \ sharing
    /\ UNCHANGED <<db, redis, l1, dropping, pubsubVars, gateVars, wr>>

(* Mutant of SetUnlessInvalidated: a plain SET.                             *)
SetAlways(v) == redis' = v
(* SET_UNLESS_INVALIDATED. *)
SetUnlessInvalidated(v) == redis' = IF redis = Held THEN Held ELSE v

(* redis_set; an error is logged and the value still goes to L1.            *)
StoreRedis(r) ==
    /\ rd[r].pc = "store"
    /\ SetUnlessInvalidated(rd[r].val) \/ UNCHANGED redis
    /\ Move(r, "check")
    /\ UNCHANGED <<db, l1, spoiled, dropping, pubsubVars, gateVars, wr>>

(* insert_fresh.                                                            *)
CheckTicket(r) ==
    /\ rd[r].pc = "check"
    /\ IF r \in spoiled THEN Finish(r) ELSE Move(r, "insert") /\ UNCHANGED spoiled
    /\ UNCHANGED <<db, redis, l1, dropping, pubsubVars, gateVars, wr>>

InsertL1(r) ==
    /\ rd[r].pc = "insert"
    /\ l1' = [l1 EXCEPT ![NodeOf[r]] = rd[r].val]
    /\ Move(r, "recheck")
    /\ UNCHANGED <<db, redis, spoiled, dropping, pubsubVars, gateVars, wr>>

(* Mutant of RecheckTicket: no second look after the insert.                *)
NoRecheck(r) ==
    /\ rd[r].pc = "recheck"
    /\ Finish(r)
    /\ UNCHANGED <<db, redis, l1, dropping, pubsubVars, gateVars, wr>>

RecheckTicket(r) ==
    /\ rd[r].pc = "recheck"
    /\ l1' = IF r \in spoiled THEN [l1 EXCEPT ![NodeOf[r]] = Miss] ELSE l1
    /\ Finish(r)
    /\ UNCHANGED <<db, redis, dropping, pubsubVars, gateVars, wr>>

(* Mutant of ReleaseGate: the gate leaves the map while others wait at it.  *)
ReleaseGateAnyway(r) ==
    /\ rd[r].pc = "leave"
    /\ loading' = [loading EXCEPT ![NodeOf[r]] = IF @ = clone[r] THEN None ELSE @]
    /\ Move(r, "left")
    /\ UNCHANGED <<db, redis, l1, spoiled, dropping, pubsubVars, clone, wr>>

(* release_gate: the map forgets the gate when nobody else has a reference  *)
(* to it.  The caller's own goes after that, so of two that leave together  *)
(* each may still count the other, and the gate stays in the map.           *)
ReleaseGate(r) ==
    /\ rd[r].pc = "leave"
    /\ loading' = [loading EXCEPT ![NodeOf[r]] =
                      IF @ = clone[r] /\ \A q \in Loaders \ {r} : clone[q] # clone[r]
                      THEN None ELSE @]
    /\ Move(r, "left")
    /\ UNCHANGED <<db, redis, l1, spoiled, dropping, pubsubVars, clone, wr>>

Rest(r) ==
    /\ rd' = [rd EXCEPT ![r] = Resting]
    /\ clone' = [clone EXCEPT ![r] = None]
    /\ spoiled' = spoiled \ {r}

DropGate(r) ==
    /\ rd[r].pc = "left"
    /\ Rest(r)
    /\ UNCHANGED <<db, redis, l1, dropping, pubsubVars, loading, wr>>

(* The caller goes away while it awaits Redis, the gate or the source: its  *)
(* lock and its reference go with it, and release_gate does not run.        *)
Cancel(r) ==
    /\ rd[r].pc \in {"redis", "wait", "load", "store"}
    /\ Rest(r)
    /\ (rd[r].pc = "store" /\ SetUnlessInvalidated(rd[r].val)) \/ UNCHANGED redis
    /\ UNCHANGED <<db, l1, dropping, pubsubVars, loading, wr>>

-----------------------------------------------------------------------------
(* A write commits its row and then calls invalidate.                       *)
Commit(w) ==
    /\ wr[w] = "idle" /\ db < MaxVersion
    /\ db' = db + 1
    /\ wr' = [wr EXCEPT ![w] = "evict"]
    /\ UNCHANGED <<redis, l1, spoiled, dropping, pubsubVars, gateVars, rd>>

EvictLocal(w) ==
    /\ wr[w] = "evict"
    /\ Mark(NodeOf[w])
    /\ wr' = [wr EXCEPT ![w] = "hold"]
    /\ UNCHANGED <<db, redis, l1, pubsubVars, gateVars, rd>>

Hold(w) ==
    /\ wr[w] = "hold" /\ ~dropping[NodeOf[w]]
    /\ redis' = Held
    /\ wr' = [wr EXCEPT ![w] = "publish"]
    /\ UNCHANGED <<db, l1, spoiled, dropping, pubsubVars, gateVars, rd>>

(* Nodes that are not subscribed miss the message; the sender ignores it.   *)
Publish(w) ==
    /\ wr[w] = "publish"
    /\ inbox' = [n \in Nodes |-> IF n # NodeOf[w] /\ link[n] # "down"
                                 THEN inbox[n] + 1 ELSE inbox[n]]
    /\ wr' = [wr EXCEPT ![w] = "idle"]
    /\ UNCHANGED <<db, redis, l1, spoiled, dropping, link, gateVars, rd>>

(* An error from Redis ends invalidate early; the row is committed.         *)
InvalidateFails(w) ==
    /\ wr[w] \in {"hold", "publish"} /\ ~dropping[NodeOf[w]]
    /\ wr' = [wr EXCEPT ![w] = "failed"]
    /\ UNCHANGED <<db, redis, l1, spoiled, dropping, pubsubVars, gateVars, rd>>

-----------------------------------------------------------------------------
(* The listener of node n.                                                  *)
Receive(n) ==
    /\ link[n] = "up" /\ inbox[n] > 0 /\ ~dropping[n]
    /\ inbox' = [inbox EXCEPT ![n] = @ - 1]
    /\ Mark(n)
    /\ UNCHANGED <<db, redis, l1, link, gateVars, rd, wr>>

Disconnect(n) ==
    /\ link[n] # "down"
    /\ link' = [link EXCEPT ![n] = "down"]
    /\ inbox' = [inbox EXCEPT ![n] = 0]
    /\ UNCHANGED <<db, redis, l1, spoiled, dropping, gateVars, rd, wr>>

Subscribe(n) ==
    /\ link[n] = "down"
    /\ link' = [link EXCEPT ![n] = "subscribed"]
    /\ UNCHANGED <<db, redis, l1, spoiled, dropping, inbox, gateVars, rd, wr>>

ClearOnConnect(n) ==
    /\ link[n] = "subscribed"
    /\ link' = [link EXCEPT ![n] = "up"]
    /\ Mark(n)
    /\ UNCHANGED <<db, redis, l1, inbox, gateVars, rd, wr>>

-----------------------------------------------------------------------------
(* Time.  INVALIDATION_HOLD is longer than a load: the sentinel does not    *)
(* expire while a loader still carries a value older than the row.          *)
ExpireL1(n) ==
    /\ l1[n] # Miss
    /\ l1' = [l1 EXCEPT ![n] = Miss]
    /\ UNCHANGED <<db, redis, spoiled, dropping, pubsubVars, gateVars, rd, wr>>

ExpireRedis ==
    /\ redis # Miss
    /\ redis = Held => \A r \in Loaders : rd[r].pc = "store" => rd[r].val = db
    /\ redis' = Miss
    /\ UNCHANGED <<db, l1, spoiled, dropping, pubsubVars, gateVars, rd, wr>>

LoaderStep(r) ==
    \/ ReadRedis(r) \/ PassGate(r) \/ Load(r) \/ LoadFails(r) \/ StoreRedis(r)
    \/ CheckTicket(r) \/ InsertL1(r) \/ RecheckTicket(r)
    \/ ReleaseGate(r) \/ DropGate(r) \/ Cancel(r)
WriterStep(w) == EvictLocal(w) \/ Hold(w) \/ Publish(w)
NodeStep(n) == DropEntries(n) \/ Receive(n) \/ Subscribe(n) \/ ClearOnConnect(n)

Next ==
    \/ \E r \in Loaders : Start(r) \/ LoaderStep(r)
    \/ \E w \in Writers : Commit(w) \/ WriterStep(w) \/ InvalidateFails(w)
    \/ \E n \in Nodes : NodeStep(n) \/ Disconnect(n) \/ ExpireL1(n)
    \/ ExpireRedis

Spec == Init /\ [][Next]_vars

-----------------------------------------------------------------------------
(* What tiers, listeners and handlers hold; an inbox never goes below zero. *)
TypeOK ==
    /\ db \in Versions /\ redis \in Versions \cup {Miss, Held}
    /\ l1 \in [Nodes -> Versions \cup {Miss}]
    /\ spoiled \subseteq Loaders
    /\ dropping \in [Nodes -> BOOLEAN] /\ inbox \in [Nodes -> Nat]
    /\ link \in [Nodes -> {"up", "down", "subscribed"}]
    /\ loading \in [Nodes -> Gates \cup {None}] /\ clone \in [Loaders -> Gates \cup {None}]
    /\ rd \in [Loaders -> [pc : LoaderPC, val : Versions \cup {Miss}]]
    /\ wr \in [Writers -> {"idle", "evict", "hold", "publish", "failed"}]

(* Every invalidation is through, none failed; node n has heard of them; an *)
(* insert_fresh of n is between its insert and its second check.            *)
Quiet == \A w \in Writers : wr[w] = "idle"
Informed(n) == link[n] = "up" /\ inbox[n] = 0 /\ ~dropping[n]
Undoing(n) == \E r \in Loaders : NodeOf[r] = n /\ rd[r].pc = "recheck"

(* Once an invalidation is through, Redis never holds an older value,       *)
(* however loads that began before the write are delayed: they cannot       *)
(* overwrite the sentinel, and the sentinel outlives them.                  *)
RedisFresh == Quiet => redis \in {Miss, Held, db}

(* A node that ran no writer has no older value in its L1 once it is        *)
(* connected, has no message left to handle, and no insert_fresh of its own *)
(* is between its insert and its second check.  The writer's own node is    *)
(* left out: it evicts L1 before it holds the key in Redis, and skips its   *)
(* own message, so a load in between leaves the old value until its TTL.    *)
RemoteL1Fresh ==
    \A n \in Nodes :
        /\ Quiet /\ Informed(n) /\ ~Undoing(n)
        /\ \A w \in Writers : NodeOf[w] # n
        => l1[n] \in {Miss, db}

(* One load per key per node: misses that overlap wait for the load under   *)
(* way, also when the gate is left while others wait at it, callers go away *)
(* or the load fails.  A gate dropped from the map too early would let the  *)
(* next miss make a second one and load beside those still at the first.    *)
OneLoadPerNode ==
    \A r, q \in Loaders :
        /\ NodeOf[r] = NodeOf[q]
        /\ rd[r].pc \in {"load", "store"} /\ rd[q].pc \in {"load", "store"}
        => r = q
=============================================================================
