-------------------------- MODULE CacheLayerProofs --------------------------
(* Machine-checked proofs about CacheLayer, for every set of nodes, loaders  *)
(* and writers, wherever they run, and any number of writes.                 *)
EXTENDS CacheLayer, TLAPS

USE DEF pubsubVars, gateVars

(* Every step keeps the types of the tiers, the listeners and the handlers.  *)
LEMMA NextTypeOK == TypeOK /\ [Next]_vars => TypeOK'
<1> SUFFICES ASSUME TypeOK, [Next]_vars PROVE TypeOK'
  OBVIOUS
<1> USE CacheAssumption DEF TypeOK, Versions, LoaderPC, Resting
<1>1. ASSUME NEW r \in Loaders, Start(r) PROVE TypeOK'
  BY <1>1 DEF Start, Move
<1>2. ASSUME NEW r \in Loaders, ReadRedis(r) PROVE TypeOK'
  <2>1. /\ \/ redis \in Versions /\ rd' = [rd EXCEPT ![r].pc = "check", ![r].val = redis]
           \/ rd' = [rd EXCEPT ![r].pc = "wait"]
        /\ UNCHANGED <<db, redis, l1, spoiled, dropping, inbox, link, wr>>
    BY <1>2 DEF ReadRedis, Move
  <2>2. rd' \in [Loaders -> [pc: LoaderPC, val: Versions \cup {Miss}]]
    BY <2>1
  <2>3. /\ loading' \in [Nodes -> Gates \cup {None}]
        /\ clone' \in [Loaders -> Gates \cup {None}]
    BY <1>2 DEF ReadRedis, TakeGate
  <2> QED BY <2>1, <2>2, <2>3
<1>3. ASSUME NEW r \in Loaders, PassGate(r) PROVE TypeOK'
  BY <1>3 DEF PassGate, Finish, Done, Move
<1>4. ASSUME NEW r \in Loaders, Load(r) PROVE TypeOK'
  <2>1. /\ rd' = [rd EXCEPT ![r].pc = "store", ![r].val = db] /\ db \in Versions
        /\ UNCHANGED <<db, redis, l1, spoiled, loading, clone, dropping, inbox, link, wr>>
    BY <1>4 DEF Load
  <2>2. rd' \in [Loaders -> [pc: LoaderPC, val: Versions \cup {Miss}]]
    BY <2>1, ZenonT(40)
  <2> QED BY <2>1, <2>2
<1>5. ASSUME NEW r \in Loaders, LoadFails(r) PROVE TypeOK'
  BY <1>5 DEF LoadFails, Done
<1>6. ASSUME NEW r \in Loaders, StoreRedis(r) PROVE TypeOK'
  BY <1>6 DEF StoreRedis, SetUnlessInvalidated, Move
<1>7. ASSUME NEW r \in Loaders, CheckTicket(r) PROVE TypeOK'
  <2>1. /\ UNCHANGED <<db, redis, l1, loading, clone, dropping, inbox, link, wr>>
        /\ \/ rd' = [rd EXCEPT ![r] = Done(r)] /\ spoiled' = spoiled \ {r}
           \/ rd' = [rd EXCEPT ![r].pc = "insert"] /\ UNCHANGED spoiled
    BY <1>7 DEF CheckTicket, Finish, Move
  <2>2. CASE rd' = [rd EXCEPT ![r] = Done(r)] /\ spoiled' = spoiled \ {r}
    BY <2>1, <2>2 DEF Done
  <2>3. CASE rd' = [rd EXCEPT ![r].pc = "insert"] /\ UNCHANGED spoiled
    BY <2>1, <2>3
  <2> QED BY <2>1, <2>2, <2>3
<1>8. ASSUME NEW r \in Loaders, InsertL1(r) PROVE TypeOK'
  BY <1>8 DEF InsertL1, Move
<1>9. ASSUME NEW r \in Loaders, RecheckTicket(r) PROVE TypeOK'
  BY <1>9 DEF RecheckTicket, Finish, Done
<1>10. ASSUME NEW w \in Writers, Commit(w) PROVE TypeOK'
  BY <1>10 DEF Commit
<1>11. ASSUME NEW w \in Writers, EvictLocal(w) PROVE TypeOK'
  BY <1>11 DEF EvictLocal, Mark
<1>12. ASSUME NEW w \in Writers, Hold(w) PROVE TypeOK'
  BY <1>12 DEF Hold
<1>13. ASSUME NEW w \in Writers, Publish(w) PROVE TypeOK'
  BY <1>13 DEF Publish
<1>14. ASSUME NEW w \in Writers, InvalidateFails(w) PROVE TypeOK'
  BY <1>14 DEF InvalidateFails
<1>15. ASSUME NEW n \in Nodes, DropEntries(n) PROVE TypeOK'
  BY <1>15 DEF DropEntries
<1>16. ASSUME NEW n \in Nodes, Receive(n) PROVE TypeOK'
  BY <1>16 DEF Receive, Mark
<1>17. ASSUME NEW n \in Nodes, Subscribe(n) PROVE TypeOK'
  BY <1>17 DEF Subscribe
<1>18. ASSUME NEW n \in Nodes, ClearOnConnect(n) PROVE TypeOK'
  BY <1>18 DEF ClearOnConnect, Mark
<1>19. ASSUME NEW n \in Nodes, Disconnect(n) PROVE TypeOK'
  BY <1>19 DEF Disconnect
<1>20. ASSUME NEW n \in Nodes, ExpireL1(n) PROVE TypeOK'
  BY <1>20 DEF ExpireL1
<1>21. ASSUME ExpireRedis PROVE TypeOK'
  BY <1>21 DEF ExpireRedis
<1>22. ASSUME UNCHANGED vars PROVE TypeOK'
  BY <1>22 DEF vars
<1>23. ASSUME NEW r \in Loaders, ReleaseGate(r) PROVE TypeOK'
  BY <1>23 DEF ReleaseGate, Move
<1>24. ASSUME NEW r \in Loaders, DropGate(r) PROVE TypeOK'
  BY <1>24 DEF DropGate, Rest
<1>25. ASSUME NEW r \in Loaders, Cancel(r) PROVE TypeOK'
  BY <1>25 DEF Cancel, Rest, SetUnlessInvalidated
<1> HIDE DEF TypeOK, Versions, LoaderPC, Resting
<1> QED
  BY <1>1, <1>2, <1>3, <1>4, <1>5, <1>6, <1>7, <1>8, <1>9, <1>10, <1>11, <1>12,
     <1>13, <1>14, <1>15, <1>16, <1>17, <1>18, <1>19, <1>20, <1>21, <1>22,
     <1>23, <1>24, <1>25 DEF Next, LoaderStep, WriterStep, NodeStep

(* The types of every variable, for any number of nodes and handlers.        *)
THEOREM TypeCorrect == Spec => []TypeOK
<1>1. Init => TypeOK
  BY CacheAssumption DEF Init, TypeOK, Versions, LoaderPC, Resting
<1> QED
  BY <1>1, NextTypeOK, PTL DEF Spec

-----------------------------------------------------------------------------
(* What makes OneLoadPerNode inductive.  The gate in the map outlives every  *)
(* reference to it, so all callers of a node meet at one gate, and a gate is *)
(* a mutex.                                                                  *)
AllAtOneGate ==
    \A r \in Loaders :
        /\ clone[r] # None /\ rd[r].pc # "left" => loading[NodeOf[r]] = clone[r]
        /\ rd[r].pc \in {"idle", "redis"} => clone[r] = None
        /\ rd[r].pc \in {"wait", "load", "store"} => clone[r] # None
GateIsMutex ==
    \A r, q \in Loaders :
        clone[r] # None /\ clone[q] = clone[r] /\ rd[r].pc \in Behind /\ rd[q].pc \in Behind => r = q
GateInv == AllAtOneGate /\ GateIsMutex

(* A step that moves no loader to the gate or behind it, and leaves the      *)
(* gates alone, keeps GateInv.                                               *)
LEMMA GatesAlone ==
    ASSUME GateInv, UNCHANGED <<loading, clone>>,
           \A r \in Loaders :
              /\ rd'[r].pc \in {"wait", "load", "store"} => rd[r].pc \in {"wait", "load", "store"}
              /\ rd'[r].pc \in Behind => rd[r].pc \in Behind \/ clone[r] = None
              /\ rd'[r].pc \in {"idle", "redis"} =>
                    rd[r].pc \in {"idle", "redis"} \/ clone[r] = None
              /\ rd[r].pc = "left" => rd'[r].pc = "left"
    PROVE  GateInv'
  BY DEF GateInv, AllAtOneGate, GateIsMutex

(* Every step keeps GateInv: release_gate drops a gate nobody else has.      *)
LEMMA NextGateInv == TypeOK /\ GateInv /\ [Next]_vars => GateInv'
<1> SUFFICES ASSUME TypeOK, GateInv, [Next]_vars PROVE GateInv'
  OBVIOUS
<1> USE CacheAssumption DEF TypeOK, LoaderPC, Resting, Behind
<1>1. ASSUME NEW r \in Loaders, Start(r) PROVE GateInv'
  BY <1>1, GatesAlone DEF Start, Move
<1>2. ASSUME NEW r \in Loaders, ReadRedis(r) PROVE GateInv'
  <2>1. CASE UNCHANGED <<loading, clone>> /\ rd' = [rd EXCEPT ![r].pc = "check", ![r].val = redis]
    <3>1. rd[r].pc = "redis" /\ rd'[r].pc = "check" /\ \A q \in Loaders : q # r => rd'[q] = rd[q]
      BY <1>2, <2>1 DEF ReadRedis
    <3> QED BY <2>1, <3>1 DEF GateInv, AllAtOneGate, GateIsMutex
  <2>2. ASSUME NEW g \in Gates, TakeGate(r, g), Move(r, "wait"), rd[r].pc = "redis" PROVE GateInv'
    <3>1. /\ \A q \in Loaders : q # r => rd'[q] = rd[q] /\ clone'[q] = clone[q]
          /\ rd'[r].pc = "wait" /\ clone'[r] = g /\ loading'[NodeOf[r]] = g
          /\ \A n \in Nodes : n # NodeOf[r] => loading'[n] = loading[n]
          /\ loading[NodeOf[r]] = g \/ loading[NodeOf[r]] = None
      BY <2>2 DEF TakeGate, Move
    <3> QED BY <3>1 DEF GateInv, AllAtOneGate, GateIsMutex
  <2> QED BY <1>2, <2>1, <2>2 DEF ReadRedis
<1>3. ASSUME NEW r \in Loaders, PassGate(r) PROVE GateInv'
  <2>1. /\ UNCHANGED <<loading, clone>> /\ rd[r].pc = "wait" /\ ~Locked(clone[r])
        /\ \A q \in Loaders : q # r => rd'[q] = rd[q]
        /\ rd'[r].pc = "load" \/ rd'[r] = Done(r)
    BY <1>3 DEF PassGate, Finish, Move
  <2>2. CASE rd'[r] = Done(r)
    BY <2>1, <2>2, GatesAlone DEF GateInv, AllAtOneGate, Done
  <2>3. CASE rd'[r].pc = "load"
    <3>1. AllAtOneGate'
      BY <2>1, <2>3 DEF GateInv, AllAtOneGate
    <3>2. GateIsMutex'
      BY <2>1, <2>3 DEF GateInv, GateIsMutex, Locked
    <3> QED BY <3>1, <3>2 DEF GateInv
  <2> QED BY <2>1, <2>2, <2>3
<1>4. ASSUME NEW r \in Loaders, Load(r) PROVE GateInv'
  <2>1. /\ UNCHANGED <<loading, clone>> /\ rd[r].pc = "load" /\ rd'[r].pc = "store"
        /\ \A q \in Loaders : q # r => rd'[q] = rd[q]
    BY <1>4 DEF Load
  <2> QED BY <2>1, GatesAlone
<1>5. ASSUME NEW r \in Loaders, LoadFails(r) PROVE GateInv'
  <2>1. /\ UNCHANGED <<loading, clone>>
        /\ \A q \in Loaders : \/ rd'[q] = rd[q]
                              \/ rd[q].pc \in {"load", "wait"} /\ rd'[q] = Done(q)
    BY <1>5 DEF LoadFails
  <2>2. \A q \in Loaders : clone[q] = None => Done(q).pc = "idle"
    BY DEF Done
  <2>3. \A q \in Loaders : clone[q] # None => Done(q).pc = "leave"
    BY DEF Done
  <2> QED BY <2>1, <2>2, <2>3, GatesAlone
<1>6. ASSUME NEW r \in Loaders, StoreRedis(r) PROVE GateInv'
  <2>1. /\ UNCHANGED <<loading, clone>> /\ rd[r].pc = "store" /\ rd'[r].pc = "check"
        /\ \A q \in Loaders : q # r => rd'[q] = rd[q]
    BY <1>6 DEF StoreRedis, Move
  <2> QED BY <2>1, GatesAlone
<1>7. ASSUME NEW r \in Loaders, CheckTicket(r) PROVE GateInv'
  <2>1. /\ UNCHANGED <<loading, clone>> /\ rd[r].pc = "check"
        /\ rd'[r].pc = "insert" \/ rd'[r] = Done(r)
        /\ \A q \in Loaders : q # r => rd'[q] = rd[q]
    BY <1>7 DEF CheckTicket, Finish, Move
  <2> QED BY <2>1, GatesAlone DEF GateInv, AllAtOneGate, Done
<1>8. ASSUME NEW r \in Loaders, InsertL1(r) PROVE GateInv'
  <2>1. /\ UNCHANGED <<loading, clone>> /\ rd[r].pc = "insert" /\ rd'[r].pc = "recheck"
        /\ \A q \in Loaders : q # r => rd'[q] = rd[q]
    BY <1>8 DEF InsertL1, Move
  <2> QED BY <2>1, GatesAlone
<1>9. ASSUME NEW r \in Loaders, RecheckTicket(r) PROVE GateInv'
  <2>1. /\ UNCHANGED <<loading, clone>> /\ rd[r].pc = "recheck" /\ rd'[r] = Done(r)
        /\ \A q \in Loaders : q # r => rd'[q] = rd[q]
    BY <1>9 DEF RecheckTicket, Finish
  <2> QED BY <2>1, GatesAlone DEF GateInv, AllAtOneGate, Done
<1>10. ASSUME NEW r \in Loaders, ReleaseGate(r) PROVE GateInv'
  <2>1. /\ UNCHANGED clone /\ rd[r].pc = "leave" /\ rd'[r].pc = "left"
        /\ \A q \in Loaders : q # r => rd'[q] = rd[q]
        /\ loading' = [loading EXCEPT ![NodeOf[r]] =
                         IF @ = clone[r] /\ \A q \in Loaders \ {r} : clone[q] # clone[r]
                         THEN None ELSE @]
    BY <1>10 DEF ReleaseGate, Move
  <2>2. CASE UNCHANGED loading
    BY <2>1, <2>2, GatesAlone
  <2>3. CASE /\ loading' = [loading EXCEPT ![NodeOf[r]] = None]
             /\ loading[NodeOf[r]] = clone[r]
             /\ \A q \in Loaders \ {r} : clone[q] # clone[r]
    BY <2>1, <2>3 DEF GateInv, AllAtOneGate, GateIsMutex
  <2> QED BY <2>1, <2>2, <2>3
<1>11. ASSUME NEW r \in Loaders, DropGate(r) PROVE GateInv'
  <2>1. /\ UNCHANGED loading /\ clone'[r] = None /\ rd'[r].pc = "idle"
        /\ \A q \in Loaders : q # r => rd'[q] = rd[q] /\ clone'[q] = clone[q]
    BY <1>11 DEF DropGate, Rest
  <2> QED BY <2>1 DEF GateInv, AllAtOneGate, GateIsMutex
<1>12. ASSUME NEW r \in Loaders, Cancel(r) PROVE GateInv'
  <2>1. /\ UNCHANGED loading /\ clone'[r] = None /\ rd'[r].pc = "idle"
        /\ \A q \in Loaders : q # r => rd'[q] = rd[q] /\ clone'[q] = clone[q]
    BY <1>12 DEF Cancel, Rest
  <2> QED BY <2>1 DEF GateInv, AllAtOneGate, GateIsMutex
<1>13. ASSUME UNCHANGED <<loading, clone, rd>> PROVE GateInv'
  BY <1>13, GatesAlone
<1>14. \A w \in Writers : Commit(w) \/ WriterStep(w) \/ InvalidateFails(w) =>
                              UNCHANGED <<loading, clone, rd>>
  BY DEF Commit, WriterStep, EvictLocal, Hold, Publish, InvalidateFails
<1>15. \A n \in Nodes : NodeStep(n) \/ Disconnect(n) \/ ExpireL1(n) =>
                            UNCHANGED <<loading, clone, rd>>
  BY DEF NodeStep, DropEntries, Receive, Subscribe, ClearOnConnect, Disconnect, ExpireL1
<1>16. ExpireRedis \/ UNCHANGED vars => UNCHANGED <<loading, clone, rd>>
  BY DEF ExpireRedis, vars
<1> QED
  BY <1>1, <1>2, <1>3, <1>4, <1>5, <1>6, <1>7, <1>8, <1>9, <1>10, <1>11, <1>12,
     <1>13, <1>14, <1>15, <1>16 DEF Next, LoaderStep

(* A node never runs two loads of the key at once (gate, release_gate), also *)
(* when loads fail and callers go away or leave the gate while others wait.  *)
THEOREM NoSecondLoad == Spec => []OneLoadPerNode
<1>1. Init => GateInv
  BY DEF Init, GateInv, AllAtOneGate, GateIsMutex, Resting, Behind
<1>2. GateInv => OneLoadPerNode
  BY DEF GateInv, AllAtOneGate, GateIsMutex, OneLoadPerNode, Behind
<1> QED
  BY <1>1, <1>2, NextGateInv, TypeCorrect, PTL DEF Spec

-----------------------------------------------------------------------------
(* What makes RedisFresh inductive: it holds as soon as every committed      *)
(* write has held the key, and until then a load older than the row finds    *)
(* the sentinel in its way.                                                  *)
Pending == \E w \in Writers : wr[w] \in {"evict", "hold", "failed"}
SharedIsFresh == ~Pending => redis \in {Miss, Held, db}
OldLoadIsBarred ==
    ~Pending => \A r \in Loaders : rd[r].pc = "store" /\ rd[r].val # db => redis = Held
RedisInv == SharedIsFresh /\ OldLoadIsBarred

(* Every step keeps RedisInv: SET_UNLESS_INVALIDATED never replaces the      *)
(* sentinel, and the sentinel outlives every load that began before it.      *)
LEMMA NextRedisInv == TypeOK /\ RedisInv /\ [Next]_vars => RedisInv'
<1> SUFFICES ASSUME TypeOK, RedisInv, [Next]_vars PROVE RedisInv'
  OBVIOUS
<1> USE CacheAssumption DEF TypeOK, Versions, LoaderPC, Resting, RedisInv, SharedIsFresh,
        OldLoadIsBarred, Pending
<1>1. ASSUME NEW r \in Loaders, Start(r) PROVE RedisInv'
  BY <1>1 DEF Start, Move
<1>2. ASSUME NEW r \in Loaders, ReadRedis(r) PROVE RedisInv'
  BY <1>2 DEF ReadRedis, Move, TakeGate
<1>3. ASSUME NEW r \in Loaders, PassGate(r) PROVE RedisInv'
  <2>1. /\ UNCHANGED <<db, redis, wr>>
        /\ \/ rd' = [rd EXCEPT ![r] = Done(r)] /\ Done(r).pc # "store"
           \/ rd' = [rd EXCEPT ![r].pc = "load"]
    BY <1>3 DEF PassGate, Finish, Done, Move
  <2>2. rd'[r].pc # "store" /\ \A q \in Loaders \ {r} : rd'[q] = rd[q]
    BY <2>1
  <2> QED BY <2>1, <2>2
<1>4. ASSUME NEW r \in Loaders, Load(r) PROVE RedisInv'
  BY <1>4 DEF Load
<1>5. ASSUME NEW r \in Loaders, LoadFails(r) PROVE RedisInv'
  BY <1>5 DEF LoadFails, Done
<1>6. ASSUME NEW r \in Loaders, StoreRedis(r) PROVE RedisInv'
  BY <1>6 DEF StoreRedis, SetUnlessInvalidated, Move
<1>7. ASSUME NEW r \in Loaders, CheckTicket(r) PROVE RedisInv'
  BY <1>7 DEF CheckTicket, Finish, Done, Move
<1>8. ASSUME NEW r \in Loaders, InsertL1(r) PROVE RedisInv'
  BY <1>8 DEF InsertL1, Move
<1>9. ASSUME NEW r \in Loaders, RecheckTicket(r) PROVE RedisInv'
  BY <1>9 DEF RecheckTicket, Finish, Done
<1>10. ASSUME NEW w \in Writers, Commit(w) PROVE RedisInv'
  BY <1>10 DEF Commit
<1>11. ASSUME NEW w \in Writers, EvictLocal(w) PROVE RedisInv'
  BY <1>11 DEF EvictLocal, Mark
<1>12. ASSUME NEW w \in Writers, Hold(w) PROVE RedisInv'
  BY <1>12 DEF Hold
<1>13. ASSUME NEW w \in Writers, Publish(w) PROVE RedisInv'
  BY <1>13 DEF Publish
<1>14. ASSUME NEW w \in Writers, InvalidateFails(w) PROVE RedisInv'
  BY <1>14 DEF InvalidateFails
<1>15. ASSUME NEW n \in Nodes, DropEntries(n) PROVE RedisInv'
  BY <1>15 DEF DropEntries
<1>16. ASSUME NEW n \in Nodes, Receive(n) PROVE RedisInv'
  BY <1>16 DEF Receive, Mark
<1>17. ASSUME NEW n \in Nodes, Subscribe(n) PROVE RedisInv'
  BY <1>17 DEF Subscribe
<1>18. ASSUME NEW n \in Nodes, ClearOnConnect(n) PROVE RedisInv'
  BY <1>18 DEF ClearOnConnect, Mark
<1>19. ASSUME NEW n \in Nodes, Disconnect(n) PROVE RedisInv'
  BY <1>19 DEF Disconnect
<1>20. ASSUME NEW n \in Nodes, ExpireL1(n) PROVE RedisInv'
  BY <1>20 DEF ExpireL1
<1>21. ASSUME ExpireRedis PROVE RedisInv'
  BY <1>21 DEF ExpireRedis
<1>22. ASSUME UNCHANGED vars PROVE RedisInv'
  BY <1>22 DEF vars
<1>23. ASSUME NEW r \in Loaders, ReleaseGate(r) PROVE RedisInv'
  BY <1>23 DEF ReleaseGate, Move
<1>24. ASSUME NEW r \in Loaders, DropGate(r) PROVE RedisInv'
  BY <1>24 DEF DropGate, Rest
<1>25. ASSUME NEW r \in Loaders, Cancel(r) PROVE RedisInv'
  BY <1>25 DEF Cancel, Rest, SetUnlessInvalidated
<1> HIDE DEF TypeOK, Versions, LoaderPC, Resting, RedisInv, SharedIsFresh, OldLoadIsBarred,
         Pending
<1> QED
  BY <1>1, <1>2, <1>3, <1>4, <1>5, <1>6, <1>7, <1>8, <1>9, <1>10, <1>11, <1>12,
     <1>13, <1>14, <1>15, <1>16, <1>17, <1>18, <1>19, <1>20, <1>21, <1>22,
     <1>23, <1>24, <1>25 DEF Next, LoaderStep, WriterStep, NodeStep

(* RedisInv holds in every reachable state.                                  *)
LEMMA RedisInvariance == Spec => [](TypeOK /\ RedisInv)
<1>1. Init => RedisInv
  BY DEF Init, RedisInv, SharedIsFresh, OldLoadIsBarred, Resting
<1> QED
  BY <1>1, NextRedisInv, TypeCorrect, PTL DEF Spec

(* Once every invalidation is through, the shared entry is never older than  *)
(* the row (invalidate, redis_set).                                          *)
THEOREM SharedEntryIsFresh == Spec => []RedisFresh
<1>1. RedisInv => RedisFresh
  BY DEF RedisInv, SharedIsFresh, RedisFresh, Quiet, Pending
<1> QED
  BY <1>1, RedisInvariance, PTL

-----------------------------------------------------------------------------
(* What makes RemoteL1Fresh inductive.  On a node n that runs no writer, an  *)
(* older value is cached, or carried by a loader whose ticket is good, only  *)
(* while news of the write is on its way to n: its writer has not published, *)
(* or the message waits, or n is not connected and will clear its L1.  After *)
(* the news the mark has moved, and either the entries are about to be       *)
(* dropped or an insert that came too late is about to be undone.            *)
Remote(n) == \A w \in Writers : NodeOf[w] # n
NewsComing(n) == ~Quiet \/ link[n] # "up" \/ inbox[n] > 0
LateInsert(n) ==
    \E r \in Loaders : NodeOf[r] = n /\ rd[r].pc = "recheck" /\ r \in spoiled
OldLoadIsNews ==
    \A r \in Loaders :
        /\ Remote(NodeOf[r]) /\ r \notin spoiled /\ rd[r].val # db
        /\ rd[r].pc \in {"store", "check", "insert", "recheck"}
        => NewsComing(NodeOf[r])
OldEntryIsNews ==
    \A n \in Nodes :
        Remote(n) /\ l1[n] \notin {Miss, db}
            => NewsComing(n) \/ dropping[n] \/ LateInsert(n)
L1Inv == OldLoadIsNews /\ OldEntryIsNews

(* A loader that moves on and leaves the tiers alone keeps L1Inv, as long as *)
(* an older value it comes to carry is the one it carried before.            *)
LEMMA LoaderMoves == ASSUME L1Inv, NEW r \in Loaders,
                            UNCHANGED <<db, l1, dropping, inbox, link, wr>>,
                            \A q \in Loaders \ {r} :
                               rd'[q] = rd[q] /\ (q \in spoiled' <=> q \in spoiled),
                            rd[r].pc # "recheck",
                            \/ rd'[r].pc \notin {"store", "check", "insert", "recheck"}
                            \/ rd'[r].val = db
                            \/ /\ rd[r].pc \in {"store", "check", "insert"}
                               /\ rd'[r].val = rd[r].val /\ (r \in spoiled => r \in spoiled')
                     PROVE  L1Inv'
<1>1. \A n : NewsComing(n)' <=> NewsComing(n)
  BY DEF NewsComing, Quiet
<1>2. OldLoadIsNews'
  <2> SUFFICES ASSUME NEW q \in Loaders, Remote(NodeOf[q]), q \notin spoiled', rd'[q].val # db,
                      rd'[q].pc \in {"store", "check", "insert", "recheck"}
               PROVE  NewsComing(NodeOf[q])
    BY <1>1 DEF OldLoadIsNews, Remote
  <2>1. CASE q = r
    BY <2>1 DEF L1Inv, OldLoadIsNews
  <2>2. CASE q # r
    BY <2>2 DEF L1Inv, OldLoadIsNews
  <2> QED BY <2>1, <2>2
<1>3. \A n : LateInsert(n) => LateInsert(n)'
  BY DEF LateInsert
<1>4. OldEntryIsNews'
  BY <1>1, <1>3 DEF L1Inv, OldEntryIsNews, Remote
<1> QED BY <1>2, <1>4 DEF L1Inv

(* Every step keeps L1Inv.                                                   *)
LEMMA NextL1Inv == TypeOK /\ RedisInv /\ L1Inv /\ [Next]_vars => L1Inv'
<1> SUFFICES ASSUME TypeOK, RedisInv, L1Inv, [Next]_vars PROVE L1Inv'
  OBVIOUS
<1> USE CacheAssumption DEF TypeOK, Versions, LoaderPC, Resting
<1>1. ASSUME NEW r \in Loaders, Start(r) PROVE L1Inv'
  <2>1. /\ UNCHANGED <<db, l1, dropping, inbox, link, wr>>
        /\ \A q \in Loaders \ {r} : rd'[q] = rd[q] /\ (q \in spoiled' <=> q \in spoiled)
        /\ rd[r].pc = "idle" /\ rd'[r].pc = "redis"
    BY <1>1 DEF Start, Move
  <2> QED BY <2>1, LoaderMoves
<1>2. ASSUME NEW r \in Loaders, PassGate(r) PROVE L1Inv'
  <2>1. /\ UNCHANGED <<db, l1, dropping, inbox, link, wr>> /\ rd[r].pc = "wait"
        /\ \A q \in Loaders : q # r => rd'[q] = rd[q] /\ (q \in spoiled' <=> q \in spoiled)
        /\ rd'[r].pc \in {"idle", "leave", "load"}
    <3>1. /\ UNCHANGED <<db, l1, dropping, inbox, link, wr>> /\ rd[r].pc = "wait"
          /\ \/ rd' = [rd EXCEPT ![r] = Done(r)] /\ spoiled' = spoiled \ {r}
             \/ rd' = [rd EXCEPT ![r].pc = "load"] /\ UNCHANGED spoiled
      BY <1>2 DEF PassGate, Finish, Move
    <3> QED BY <3>1 DEF Done
  <2> QED BY <2>1, LoaderMoves
<1>3. ASSUME NEW r \in Loaders, Load(r) PROVE L1Inv'
  <2>1. /\ UNCHANGED <<db, l1, spoiled, dropping, inbox, link, wr>>
        /\ \A q \in Loaders : q # r => rd'[q] = rd[q]
        /\ rd[r].pc = "load" /\ rd'[r].pc = "store" /\ rd'[r].val = db
    BY <1>3 DEF Load
  <2> QED BY <2>1, LoaderMoves
<1>4. ASSUME NEW r \in Loaders, StoreRedis(r) PROVE L1Inv'
  <2>1. /\ UNCHANGED <<db, l1, spoiled, dropping, inbox, link, wr>>
        /\ \A q \in Loaders : q # r => rd'[q] = rd[q]
        /\ rd[r].pc = "store" /\ rd'[r].pc = "check" /\ rd'[r].val = rd[r].val
    BY <1>4 DEF StoreRedis, Move
  <2> QED BY <2>1, LoaderMoves
<1>5. ASSUME NEW r \in Loaders, CheckTicket(r) PROVE L1Inv'
  <2>1. /\ UNCHANGED <<db, l1, dropping, inbox, link, wr>> /\ rd[r].pc = "check"
        /\ \A q \in Loaders : q # r => rd'[q] = rd[q] /\ (q \in spoiled' <=> q \in spoiled)
    BY <1>5 DEF CheckTicket, Finish, Move
  <2>2. \/ rd'[r].pc \in {"idle", "leave"}
        \/ rd'[r].pc = "insert" /\ rd'[r].val = rd[r].val /\ r \notin spoiled
    BY <1>5 DEF CheckTicket, Finish, Done, Move
  <2> QED BY <2>1, <2>2, LoaderMoves
<1>23. ASSUME NEW r \in Loaders, ReleaseGate(r) PROVE L1Inv'
  <2>1. /\ UNCHANGED <<db, l1, spoiled, dropping, inbox, link, wr>>
        /\ \A q \in Loaders : q # r => rd'[q] = rd[q]
        /\ rd[r].pc = "leave" /\ rd'[r].pc = "left"
    BY <1>23 DEF ReleaseGate, Move
  <2> QED BY <2>1, LoaderMoves
<1>24. ASSUME NEW r \in Loaders, DropGate(r) PROVE L1Inv'
  <2>1. /\ UNCHANGED <<db, l1, dropping, inbox, link, wr>>
        /\ \A q \in Loaders : q # r => rd'[q] = rd[q] /\ (q \in spoiled' <=> q \in spoiled)
        /\ rd[r].pc = "left" /\ rd'[r].pc = "idle"
    BY <1>24 DEF DropGate, Rest
  <2> QED BY <2>1, LoaderMoves
<1>25. ASSUME NEW r \in Loaders, Cancel(r) PROVE L1Inv'
  <2>1. /\ UNCHANGED <<db, l1, dropping, inbox, link, wr>>
        /\ \A q \in Loaders : q # r => rd'[q] = rd[q] /\ (q \in spoiled' <=> q \in spoiled)
        /\ rd[r].pc # "recheck" /\ rd'[r].pc = "idle"
    BY <1>25 DEF Cancel, Rest
  <2> QED BY <2>1, LoaderMoves
<1> USE DEF L1Inv, OldLoadIsNews, OldEntryIsNews, Remote, NewsComing, LateInsert, Quiet
<1>6. ASSUME NEW r \in Loaders, ReadRedis(r) PROVE L1Inv'
  <2>1. /\ UNCHANGED <<db, l1, spoiled, dropping, inbox, link, wr>>
        /\ \A q \in Loaders : q # r => rd'[q] = rd[q]
    BY <1>6 DEF ReadRedis, Move
  <2>2. CASE rd'[r].pc = "wait" /\ rd[r].pc = "redis"
    <3>1. OldLoadIsNews'
      BY <2>1, <2>2
    <3>2. OldEntryIsNews'
      BY <2>1, <2>2
    <3> QED BY <3>1, <3>2
  <2>3. CASE /\ rd'[r].pc = "check" /\ rd'[r].val = redis /\ redis \in Versions
             /\ rd[r].pc = "redis"
    <3>1. Quiet => redis = db
      BY <2>3 DEF RedisInv, SharedIsFresh, Pending
    <3>2. ASSUME NEW q \in Loaders, Remote(NodeOf[q])', q \notin spoiled', rd'[q].val # db',
                 rd'[q].pc \in {"store", "check", "insert", "recheck"}
          PROVE NewsComing(NodeOf[q])'
      <4>1. CASE q = r
        BY <2>1, <2>3, <3>1, <3>2, <4>1
      <4>2. CASE q # r
        BY <2>1, <3>2, <4>2
      <4> QED BY <4>1, <4>2
    <3>3. OldEntryIsNews'
      BY <2>1, <2>3
    <3> QED BY <3>2, <3>3
  <2>4. /\ rd[r].pc = "redis"
        /\ \/ redis \in Versions /\ rd' = [rd EXCEPT ![r].pc = "check", ![r].val = redis]
           \/ rd' = [rd EXCEPT ![r].pc = "wait"]
    BY <1>6 DEF ReadRedis, Move
  <2>5. \/ rd'[r].pc = "wait"
        \/ rd'[r].pc = "check" /\ rd'[r].val = redis /\ redis \in Versions
    BY <2>4
  <2> QED BY <2>2, <2>3, <2>4, <2>5
<1>7. ASSUME NEW r \in Loaders, LoadFails(r) PROVE L1Inv'
  BY <1>7 DEF LoadFails, Done
<1>8. ASSUME NEW r \in Loaders, InsertL1(r) PROVE L1Inv'
  <2>1. /\ UNCHANGED <<db, spoiled, dropping, inbox, link, wr>> /\ rd[r].pc = "insert"
        /\ rd'[r].pc = "recheck" /\ rd'[r].val = rd[r].val
        /\ \A q \in Loaders : q # r => rd'[q] = rd[q]
        /\ l1' = [l1 EXCEPT ![NodeOf[r]] = rd[r].val]
    BY <1>8 DEF InsertL1, Move
  <2>2. OldLoadIsNews'
    BY <2>1
  <2>3. ASSUME NEW n \in Nodes, Remote(n), l1'[n] \notin {Miss, db}
        PROVE  NewsComing(n) \/ dropping[n] \/ LateInsert(n)'
    <3>1. CASE n = NodeOf[r] /\ r \in spoiled
      BY <2>1, <3>1
    <3>2. CASE n = NodeOf[r] /\ r \notin spoiled
      BY <2>1, <2>3, <3>2
    <3>3. CASE n # NodeOf[r]
      <4>1. NewsComing(n) \/ dropping[n] \/ LateInsert(n)
        BY <2>1, <2>3, <3>3
      <4>2. LateInsert(n) => LateInsert(n)'
        BY <2>1
      <4> QED BY <4>1, <4>2
    <3> QED BY <3>1, <3>2, <3>3
  <2> QED BY <2>1, <2>2, <2>3
<1>9. ASSUME NEW r \in Loaders, RecheckTicket(r) PROVE L1Inv'
  <2>1. /\ UNCHANGED <<db, dropping, inbox, link, wr>> /\ rd'[r].pc \in {"idle", "leave"}
        /\ \A q \in Loaders : q # r => rd'[q] = rd[q] /\ (q \in spoiled' <=> q \in spoiled)
        /\ l1' = IF r \in spoiled THEN [l1 EXCEPT ![NodeOf[r]] = Miss] ELSE l1
    BY <1>9 DEF RecheckTicket, Finish, Done
  <2>2. OldLoadIsNews'
    BY <2>1
  <2>3. ASSUME NEW n \in Nodes, Remote(n), l1'[n] \notin {Miss, db}
        PROVE NewsComing(n) \/ dropping[n] \/ LateInsert(n)'
    <3>1. l1'[n] = l1[n] /\ ~(NodeOf[r] = n /\ r \in spoiled)
      BY <2>1, <2>3
    <3>2. NewsComing(n) \/ dropping[n] \/ LateInsert(n)
      BY <2>3, <3>1
    <3> QED BY <2>1, <3>1, <3>2
  <2> QED BY <2>1, <2>2, <2>3
<1>10. ASSUME NEW w \in Writers, Commit(w) PROVE L1Inv'
  BY <1>10 DEF Commit
<1>11. ASSUME NEW w \in Writers, EvictLocal(w) PROVE L1Inv'
  BY <1>11 DEF EvictLocal, Mark
<1>12. ASSUME NEW w \in Writers, Hold(w) PROVE L1Inv'
  BY <1>12 DEF Hold
<1>13. ASSUME NEW w \in Writers, Publish(w) PROVE L1Inv'
  BY <1>13 DEF Publish
<1>14. ASSUME NEW w \in Writers, InvalidateFails(w) PROVE L1Inv'
  BY <1>14 DEF InvalidateFails
<1>15. ASSUME NEW n \in Nodes, DropEntries(n) PROVE L1Inv'
  BY <1>15 DEF DropEntries
<1>16. ASSUME NEW n \in Nodes, Receive(n) PROVE L1Inv'
  BY <1>16 DEF Receive, Mark
<1>17. ASSUME NEW n \in Nodes, Subscribe(n) PROVE L1Inv'
  BY <1>17 DEF Subscribe
<1>18. ASSUME NEW n \in Nodes, ClearOnConnect(n) PROVE L1Inv'
  BY <1>18 DEF ClearOnConnect, Mark
<1>19. ASSUME NEW n \in Nodes, Disconnect(n) PROVE L1Inv'
  BY <1>19 DEF Disconnect
<1>20. ASSUME NEW n \in Nodes, ExpireL1(n) PROVE L1Inv'
  BY <1>20 DEF ExpireL1
<1>21. ASSUME ExpireRedis PROVE L1Inv'
  BY <1>21 DEF ExpireRedis
<1>22. ASSUME UNCHANGED vars PROVE L1Inv'
  BY <1>22 DEF vars
<1> HIDE DEF TypeOK, Versions, LoaderPC, Resting, L1Inv, OldLoadIsNews, OldEntryIsNews,
         Remote, NewsComing, LateInsert, Quiet
<1> QED
  BY <1>1, <1>2, <1>3, <1>4, <1>5, <1>6, <1>7, <1>8, <1>9, <1>10, <1>11, <1>12,
     <1>13, <1>14, <1>15, <1>16, <1>17, <1>18, <1>19, <1>20, <1>21, <1>22,
     <1>23, <1>24, <1>25 DEF Next, LoaderStep, WriterStep, NodeStep

(* A node that runs no writer has no older value in its L1 once it is        *)
(* connected and has handled its messages (insert_fresh, remove, clear, the  *)
(* listener), whatever its own loads and disconnections did meanwhile.       *)
THEOREM RemoteEntryIsFresh == Spec => []RemoteL1Fresh
<1>1. Init => L1Inv
  BY DEF Init, L1Inv, OldLoadIsNews, OldEntryIsNews, Resting
<1>2. L1Inv /\ TypeOK => RemoteL1Fresh
  BY DEF TypeOK, L1Inv, OldEntryIsNews, Remote, NewsComing, LateInsert, RemoteL1Fresh,
     Informed, Undoing
<1> QED
  BY <1>1, <1>2, NextL1Inv, RedisInvariance, PTL DEF Spec
=============================================================================
