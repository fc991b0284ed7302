-------------------------- MODULE RelocationProofs --------------------------
(* Machine-checked proofs about Relocation, for every set of nodes,          *)
(* databases, sessions and movers, and any number of moves and faults.       *)
EXTENDS Relocation, TLAPS

USE DEF registryVars, dataVars, nodeVars, moverVars

(* Every step keeps the types of the registry, the stores and the moves.     *)
LEMMA NextTypeOK == TypeOK /\ [Next]_vars => TypeOK'
<1> SUFFICES ASSUME TypeOK, [Next]_vars PROVE TypeOK'
  OBVIOUS
<1> USE RelocationAssumption DEF TypeOK, Move, Idle
<1>1. ASSUME NEW n \in Nodes, Fetch(n) PROVE TypeOK'
  BY <1>1 DEF Fetch
<1>2. ASSUME NEW n \in Nodes, Lapse(n) PROVE TypeOK'
  BY <1>2 DEF Lapse
<1>3. ASSUME NEW n \in Nodes, NEW s \in Sessions, SignIn(n, s) PROVE TypeOK'
  BY <1>3 DEF SignIn, Locate
<1>4. ASSUME NEW n \in Nodes, NEW s \in Sessions, SignOut(n, s) PROVE TypeOK'
  BY <1>4 DEF SignOut, Locate
<1>5. ASSUME NEW s \in Sessions, Commit(s) PROVE TypeOK'
  BY <1>5 DEF Commit
<1>6. ASSUME NEW m \in Movers, NEW t \in Databases, MoveRead(m, t) PROVE TypeOK'
  BY <1>6 DEF MoveRead
<1>7. ASSUME NEW m \in Movers, MoveLock(m) PROVE TypeOK'
  <2>1. misled' \in BOOLEAN
    BY <1>7 DEF MoveLock
  <2>2. CASE lock # None
    BY <1>7, <2>1, <2>2 DEF MoveLock
  <2>3. CASE lock = None
    BY <1>7, <2>1, <2>3 DEF MoveLock, At, To
  <2> QED BY <2>2, <2>3
<1>8. ASSUME NEW m \in Movers, Settle(m) PROVE TypeOK'
  BY <1>8 DEF Settle, At, To
<1>9. ASSUME NEW m \in Movers, CleanUp(m) PROVE TypeOK'
  BY <1>9 DEF CleanUp, At, Done, Fault
<1>10. ASSUME NEW m \in Movers, Mark(m) PROVE TypeOK'
  BY <1>10 DEF Mark, At, To
<1>11. ASSUME NEW m \in Movers, Drain(m) PROVE TypeOK'
  BY <1>11 DEF Drain, At, To
<1>12. ASSUME NEW m \in Movers, CopyRows(m) PROVE TypeOK'
  BY <1>12 DEF CopyRows, At, To, Fault
<1>13. ASSUME NEW m \in Movers, CopyKeys(m) PROVE TypeOK'
  BY <1>13 DEF CopyKeys, At, Fault
<1>14. ASSUME NEW m \in Movers, Undo(m) PROVE TypeOK'
  <2>1. mover[m] \in Move
    BY <1>14 DEF Undo, At
  <2>2. rows' \in [Databases -> SUBSET Sessions]
    <3>1. rows' = rows \/ rows' = [rows EXCEPT ![mover[m].target] = {}]
      BY <1>14, Zenon DEF Undo
    <3> QED BY <2>1, <3>1
  <2>3. keys' \in [Databases -> SUBSET Sessions]
    <3>1. keys' = keys \/ keys' = [keys EXCEPT ![mover[m].target] = @ \ mover[m].seen]
      BY <1>14, Zenon DEF Undo
    <3> QED BY <2>1, <3>1
  <2>4. leftovers' \subseteq Sessions
    BY <1>14, <2>1 DEF Undo
  <2>5. relocating' \in BOOLEAN
    BY <1>14, Zenon DEF Undo
  <2>6. faults' \in 0 .. MaxFaults
    <3>1. faults' = faults \/ Fault
      BY <1>14, Zenon DEF Undo
    <3> QED BY <3>1 DEF Fault
  <2>7. mover' \in [Movers -> {Idle} \cup Move] /\ lock' \in Movers \cup {None}
    BY <1>14 DEF Undo, Done
  <2> QED BY <1>14, <2>2, <2>3, <2>4, <2>5, <2>6, <2>7 DEF Undo
<1>15. ASSUME NEW m \in Movers, Switch(m) PROVE TypeOK'
  <2>1. mover[m] \in Move
    BY <1>15 DEF Switch, At
  <2>2. CASE /\ region' = mover[m].target /\ relocating' = FALSE /\ To(m, "drop")
             /\ UNCHANGED <<lock, leftovers, faults>>
    BY <1>15, <2>1, <2>2 DEF Switch, To
  <2>3. CASE /\ Fault /\ Done(m) /\ leftovers' = leftovers \cup mover[m].seen
             /\ UNCHANGED registryVars
    BY <1>15, <2>1, <2>3 DEF Switch, Done, Fault
  <2> QED BY <1>15, <2>2, <2>3 DEF Switch
<1>16. ASSUME NEW m \in Movers, DropKeys(m) PROVE TypeOK'
  BY <1>16 DEF DropKeys, At, To, Fault
<1>17. ASSUME NEW m \in Movers, Purge(m) PROVE TypeOK'
  BY <1>17 DEF Purge, At, Done, Fault
<1>18. ASSUME NEW m \in Movers, Die(m) PROVE TypeOK'
  BY <1>18 DEF Die, Fault
<1>19. ASSUME UNCHANGED vars PROVE TypeOK'
  BY <1>19 DEF vars
<1> HIDE DEF TypeOK, Move, Idle
<1> QED
  BY <1>1, <1>2, <1>3, <1>4, <1>5, <1>6, <1>7, <1>8, <1>9, <1>10, <1>11, <1>12,
     <1>13, <1>14, <1>15, <1>16, <1>17, <1>18, <1>19
     DEF Next

(* The types of every variable, for any number of nodes, movers and moves.   *)
THEOREM TypeCorrect == Spec => []TypeOK
<1>1. Init => TypeOK
  <2> SUFFICES ASSUME Init PROVE TypeOK
    OBVIOUS
  <2>1. /\ rows \in [Databases -> SUBSET Sessions] /\ keys \in [Databases -> SUBSET Sessions]
        /\ tx \in [Sessions -> Databases \cup {None}]
    BY DEF Init
  <2>2. placement \in [Nodes -> {None} \cup [db : Databases, relocating : BOOLEAN]]
    BY DEF Init
  <2>3. mover \in [Movers -> {Idle} \cup Move]
    BY DEF Init
  <2>4. relocating \in BOOLEAN /\ misled \in BOOLEAN
    BY DEF Init
  <2>5. /\ region \in Databases /\ lock \in Movers \cup {None}
        /\ moves \in 0 .. MaxMoves /\ faults \in 0 .. MaxFaults
        /\ signedIn \subseteq Sessions /\ ended \subseteq Sessions /\ leftovers \subseteq Sessions
    BY RelocationAssumption DEF Init
  <2> QED BY <2>1, <2>2, <2>3, <2>4, <2>5 DEF TypeOK
<1> QED
  BY <1>1, NextTypeOK, PTL DEF Spec

-----------------------------------------------------------------------------
(* What the advisory lock and the drain give a move.  Everybody who is past  *)
(* the lock holds it, so one move at a time touches the registry; from the   *)
(* end of the drain to the switch nobody can open a transaction.             *)
PastLockHoldsIt ==
    \A m \in Movers : mover[m].at \notin {"idle", "lock"} => lock = m
DrainedStaysSo ==
    \A m \in Movers :
        /\ mover[m].at \in {"drain", "copy", "keys", "undo", "switch"} => relocating
        /\ mover[m].at \in {"copy", "keys", "undo", "switch"} =>
              /\ \A n \in Nodes : Locate(n) = {}
              /\ \A s \in Sessions : tx[s] = None
LockInv == PastLockHoldsIt /\ DrainedStaysSo

(* Every step keeps LockInv.                                                 *)
LEMMA NextLockInv == TypeOK /\ LockInv /\ [Next]_vars => LockInv'
<1> SUFFICES ASSUME TypeOK, LockInv, [Next]_vars PROVE LockInv'
  OBVIOUS
<1> USE RelocationAssumption DEF TypeOK, Move, Idle, LockInv, PastLockHoldsIt,
        DrainedStaysSo, Locate
<1>1. ASSUME NEW n \in Nodes, Fetch(n) PROVE LockInv'
  BY <1>1 DEF Fetch
<1>2. ASSUME NEW n \in Nodes, Lapse(n) PROVE LockInv'
  BY <1>2 DEF Lapse
<1>3. ASSUME NEW n \in Nodes, NEW s \in Sessions, SignIn(n, s) PROVE LockInv'
  BY <1>3 DEF SignIn, Locate
<1>4. ASSUME NEW n \in Nodes, NEW s \in Sessions, SignOut(n, s) PROVE LockInv'
  BY <1>4 DEF SignOut, Locate
<1>5. ASSUME NEW s \in Sessions, Commit(s) PROVE LockInv'
  BY <1>5 DEF Commit
<1>6. ASSUME NEW m \in Movers, NEW t \in Databases, MoveRead(m, t) PROVE LockInv'
  BY <1>6 DEF MoveRead
<1>7. ASSUME NEW m \in Movers, MoveLock(m) PROVE LockInv'
  <2>1. \/ UNCHANGED lock /\ mover' = [mover EXCEPT ![m] = Idle]
        \/ /\ lock = None /\ lock' = m
           /\ To(m, IF mover[m].source = mover[m].target THEN "settle" ELSE "mark")
    BY <1>7 DEF MoveLock
  <2>2. At(m, "lock") /\ UNCHANGED <<region, relocating, rows, keys, placement, tx, signedIn, ended,
                                       leftovers>>
    BY <1>7 DEF MoveLock
  <2>3. (~misled' => ~misled) /\ (~misled' /\ lock' # lock => mover[m].source = region)
    BY <1>7 DEF MoveLock
  <2>4. CASE UNCHANGED lock /\ mover' = [mover EXCEPT ![m] = Idle]
    BY <2>2, <2>4
  <2>5. CASE /\ lock = None /\ lock' = m
             /\ To(m, IF mover[m].source = mover[m].target THEN "settle" ELSE "mark")
    <3>1. \A k \in Movers : mover[k].at \in {"idle", "lock"}
      BY <2>5
    <3>2. /\ mover'[m].at \in {"settle", "mark"}
          /\ \A k \in Movers : k # m => mover'[k] = mover[k]
      BY <2>2, <2>5 DEF At, To
    <3>3. PastLockHoldsIt'
      BY <2>5, <3>1, <3>2
    <3>4. DrainedStaysSo'
      BY <3>1, <3>2
    <3> QED BY <3>3, <3>4
  <2> QED BY <2>1, <2>4, <2>5
<1>8. ASSUME NEW m \in Movers, Settle(m) PROVE LockInv'
  BY <1>8 DEF Settle, At, To
<1>9. ASSUME NEW m \in Movers, CleanUp(m) PROVE LockInv'
  BY <1>9 DEF CleanUp, At, Done, Fault
<1>10. ASSUME NEW m \in Movers, Mark(m) PROVE LockInv'
  BY <1>10 DEF Mark, At, To
<1>11. ASSUME NEW m \in Movers, Drain(m) PROVE LockInv'
  BY <1>11 DEF Drain, At, To
<1>12. ASSUME NEW m \in Movers, CopyRows(m) PROVE LockInv'
  BY <1>12 DEF CopyRows, At, To, Fault
<1>13. ASSUME NEW m \in Movers, CopyKeys(m) PROVE LockInv'
  BY <1>13 DEF CopyKeys, At, Fault
<1>14. ASSUME NEW m \in Movers, Undo(m) PROVE LockInv'
  BY <1>14 DEF Undo, At, Done, Fault
<1>15. ASSUME NEW m \in Movers, Switch(m) PROVE LockInv'
  BY <1>15 DEF Switch, At, To, Done, Fault
<1>16. ASSUME NEW m \in Movers, DropKeys(m) PROVE LockInv'
  BY <1>16 DEF DropKeys, At, To, Fault
<1>17. ASSUME NEW m \in Movers, Purge(m) PROVE LockInv'
  BY <1>17 DEF Purge, At, Done, Fault
<1>18. ASSUME NEW m \in Movers, Die(m) PROVE LockInv'
  BY <1>18, SMTT(40) DEF Die, Fault
<1>19. ASSUME UNCHANGED vars PROVE LockInv'
  BY <1>19 DEF vars
<1> HIDE DEF TypeOK, Move, Idle, LockInv, PastLockHoldsIt, DrainedStaysSo, Locate
<1> QED
  BY <1>1, <1>2, <1>3, <1>4, <1>5, <1>6, <1>7, <1>8, <1>9, <1>10, <1>11, <1>12,
     <1>13, <1>14, <1>15, <1>16, <1>17, <1>18, <1>19
     DEF Next

-----------------------------------------------------------------------------
(* Where a move that was not misled stands, and what its steps have done.    *)
(* Transactions are open only where the tenant lives; before the switch the  *)
(* source is where it lives, after it the target is; the rows that were      *)
(* copied are all there when it switches.                                    *)
ServedWhereItLives ==
    /\ \A n \in Nodes : Locate(n) \subseteq {region}
    /\ \A s \in Sessions : tx[s] \in {None, region}
MoveKnowsItsPlace ==
    \A m \in Movers :
        /\ mover[m].at \in {"mark", "drain", "copy", "keys", "undo", "switch"} =>
              mover[m].source = region /\ mover[m].target # region
        /\ mover[m].at \in {"drop", "purge"} =>
              mover[m].target = region /\ mover[m].source # region
        /\ mover[m].at \in {"settle", "clean"} => mover[m].target = region
CopyIsComplete ==
    \A m \in Movers :
        mover[m].at \in {"keys", "switch"} => rows[mover[m].target] = rows[mover[m].source]
PlaceInv ==
    ~misled => /\ ServedWhereItLives /\ MoveKnowsItsPlace /\ CopyIsComplete
               /\ signedIn \subseteq rows[region]

(* Every step keeps PlaceInv.                                                *)
LEMMA NextPlaceInv == TypeOK /\ LockInv /\ PlaceInv /\ [Next]_vars => PlaceInv'
<1> SUFFICES ASSUME TypeOK, LockInv, PlaceInv, [Next]_vars PROVE PlaceInv'
  OBVIOUS
<1> USE RelocationAssumption DEF TypeOK, Move, Idle, LockInv, PastLockHoldsIt,
        DrainedStaysSo, Locate, PlaceInv, ServedWhereItLives, MoveKnowsItsPlace,
        CopyIsComplete
<1>1. ASSUME NEW n \in Nodes, Fetch(n) PROVE PlaceInv'
  BY <1>1 DEF Fetch
<1>2. ASSUME NEW n \in Nodes, Lapse(n) PROVE PlaceInv'
  BY <1>2 DEF Lapse
<1>3. ASSUME NEW n \in Nodes, NEW s \in Sessions, SignIn(n, s) PROVE PlaceInv'
  BY <1>3 DEF SignIn, Locate
<1>4. ASSUME NEW n \in Nodes, NEW s \in Sessions, SignOut(n, s) PROVE PlaceInv'
  BY <1>4 DEF SignOut, Locate
<1>5. ASSUME NEW s \in Sessions, Commit(s) PROVE PlaceInv'
  BY <1>5 DEF Commit
<1>6. ASSUME NEW m \in Movers, NEW t \in Databases, MoveRead(m, t) PROVE PlaceInv'
  BY <1>6 DEF MoveRead
<1>7. ASSUME NEW m \in Movers, MoveLock(m) PROVE PlaceInv'
  <2>1. \/ UNCHANGED lock /\ mover' = [mover EXCEPT ![m] = Idle]
        \/ /\ lock = None /\ lock' = m
           /\ To(m, IF mover[m].source = mover[m].target THEN "settle" ELSE "mark")
    BY <1>7 DEF MoveLock
  <2>2. At(m, "lock") /\ UNCHANGED <<region, relocating, rows, keys, placement, tx, signedIn, ended,
                                       leftovers>>
    BY <1>7 DEF MoveLock
  <2>3. (~misled' => ~misled) /\ (~misled' /\ lock' # lock => mover[m].source = region)
    BY <1>7 DEF MoveLock
  <2> QED BY <2>1, <2>2, <2>3 DEF At, To
<1>8. ASSUME NEW m \in Movers, Settle(m) PROVE PlaceInv'
  BY <1>8 DEF Settle, At, To
<1>9. ASSUME NEW m \in Movers, CleanUp(m) PROVE PlaceInv'
  BY <1>9 DEF CleanUp, At, Done, Fault
<1>10. ASSUME NEW m \in Movers, Mark(m) PROVE PlaceInv'
  BY <1>10 DEF Mark, At, To
<1>11. ASSUME NEW m \in Movers, Drain(m) PROVE PlaceInv'
  BY <1>11 DEF Drain, At, To
<1>12. ASSUME NEW m \in Movers, CopyRows(m) PROVE PlaceInv'
  BY <1>12 DEF CopyRows, At, To, Fault
<1>13. ASSUME NEW m \in Movers, CopyKeys(m) PROVE PlaceInv'
  BY <1>13, SMTT(20) DEF CopyKeys, At, Fault
<1>14. ASSUME NEW m \in Movers, Undo(m) PROVE PlaceInv'
  <2>1. mover[m] \in Move
    BY <1>14 DEF Undo, At
  <2> DEFINE Clean == [rows EXCEPT ![mover[m].target] = {}]
             Cleared == [keys EXCEPT ![mover[m].target] = @ \ mover[m].seen]
  <2>2. CASE rows' \in {rows, Clean} /\ keys' = Cleared /\ UNCHANGED leftovers
    BY <1>14, <2>1, <2>2 DEF Undo, Done, At
  <2>3. CASE /\ rows' \in {rows, Clean} /\ UNCHANGED keys
             /\ leftovers' = leftovers \cup keys[mover[m].target]
    BY <1>14, <2>1, <2>3 DEF Undo, Done, At
  <2> QED BY <1>14, <2>2, <2>3 DEF Undo
<1>15. ASSUME NEW m \in Movers, Switch(m) PROVE PlaceInv'
  <2>1. mover[m] \in Move
    BY <1>15 DEF Switch, At
  <2>2. CASE /\ region' = mover[m].target /\ relocating' = FALSE /\ To(m, "drop")
             /\ UNCHANGED <<lock, leftovers, faults>>
    <3>1. At(m, "switch") /\ UNCHANGED <<rows, placement, tx, signedIn, misled>>
      BY <1>15 DEF Switch
    <3>2. /\ mover'[m].at = "drop" /\ mover'[m].source = mover[m].source
          /\ mover'[m].target = mover[m].target
          /\ \A k \in Movers : k # m => mover'[k] = mover[k]
      BY <2>1, <2>2 DEF To
    <3>3. \A k \in Movers : k # m => mover[k].at \in {"idle", "lock"}
      BY <3>1 DEF At
    <3>4. ServedWhereItLives'
      BY <2>2, <3>1 DEF At
    <3>5. ~misled => MoveKnowsItsPlace' /\ CopyIsComplete'
      BY <2>1, <2>2, <3>1, <3>2, <3>3 DEF At
    <3>6. ~misled => signedIn' \subseteq rows'[region']
      BY <2>1, <2>2, <3>1 DEF At
    <3> QED BY <3>1, <3>4, <3>5, <3>6
  <2>3. CASE /\ Fault /\ Done(m) /\ leftovers' = leftovers \cup mover[m].seen
             /\ UNCHANGED registryVars
    BY <1>15, <2>1, <2>3 DEF Switch, Done, At
  <2> QED BY <1>15, <2>2, <2>3 DEF Switch
<1>16. ASSUME NEW m \in Movers, DropKeys(m) PROVE PlaceInv'
  BY <1>16 DEF DropKeys, At, To, Fault
<1>17. ASSUME NEW m \in Movers, Purge(m) PROVE PlaceInv'
  BY <1>17 DEF Purge, At, Done, Fault
<1>18. ASSUME NEW m \in Movers, Die(m) PROVE PlaceInv'
  BY <1>18 DEF Die, Fault
<1>19. ASSUME UNCHANGED vars PROVE PlaceInv'
  BY <1>19 DEF vars
<1> HIDE DEF TypeOK, Move, Idle, LockInv, PastLockHoldsIt, DrainedStaysSo, Locate,
         PlaceInv, ServedWhereItLives, MoveKnowsItsPlace, CopyIsComplete
<1> QED
  BY <1>1, <1>2, <1>3, <1>4, <1>5, <1>6, <1>7, <1>8, <1>9, <1>10, <1>11, <1>12,
     <1>13, <1>14, <1>15, <1>16, <1>17, <1>18, <1>19
     DEF Next

(* TypeOK, LockInv and PlaceInv hold in every reachable state.               *)
LEMMA PlaceInvariance == Spec => [](TypeOK /\ LockInv /\ PlaceInv)
<1>1. Init => LockInv /\ PlaceInv
  BY DEF Init, Idle, LockInv, PastLockHoldsIt, DrainedStaysSo, PlaceInv, ServedWhereItLives,
     MoveKnowsItsPlace, CopyIsComplete, Locate
<1> QED
  BY <1>1, NextLockInv, NextPlaceInv, TypeCorrect, PTL DEF Spec

(* Everything the tenant committed is in the database the registry names,    *)
(* whatever moves fail or die half-way (move_tenant), unless a move acted on *)
(* what it had read before it got the lock.                                  *)
THEOREM NothingIsLost == Spec => []LostOnlyWhenMisled
<1>1. PlaceInv => LostOnlyWhenMisled
  BY DEF PlaceInv, LostOnlyWhenMisled
<1> QED
  BY <1>1, PlaceInvariance, PTL

(* clean_up removes every other copy and leaves the tenant's own.            *)
THEOREM RerunLeavesOneCopy == Spec => OneCopyAfterARerun
<1>1. ASSUME TypeOK, LockInv, PlaceInv, [Next]_vars
      PROVE [\A m \in Movers :
               At(m, "clean") /\ mover'[m] = Idle /\ faults' = faults /\ ~ misled
                 => /\ \A d \in Databases \ {region} : rows'[d] = {}
                    /\ rows'[region] = rows[region]]_vars
  <2> SUFFICES ASSUME NEW m \in Movers, Next,
                      At(m, "clean"), mover'[m] = Idle, faults' = faults, ~ misled
               PROVE /\ \A d \in Databases \ {region} : rows'[d] = {}
                     /\ rows'[region] = rows[region]
    BY <1>1
  <2>1. CleanUp(m)
    <3>1. mover[m].at = "clean" /\ mover[m] # mover'[m]
      BY DEF At, Idle
    <3>2. ASSUME NEW k \in Movers, NEW t \in Databases, MoveRead(k, t) PROVE FALSE
      <4>1. k # m
        BY <3>1, <3>2 DEF MoveRead, Idle
      <4> QED BY <1>1, <3>1, <3>2, <4>1 DEF MoveRead, TypeOK
    <3>3. ASSUME NEW k \in Movers, Die(k) PROVE FALSE
      BY <1>1, <3>3 DEF Die, Fault, TypeOK
    <3>4. ASSUME NEW k \in Movers,
                 \/ MoveLock(k) \/ Settle(k) \/ CleanUp(k) \/ Mark(k) \/ Drain(k)
                 \/ CopyRows(k) \/ CopyKeys(k) \/ Undo(k) \/ Switch(k) \/ DropKeys(k) \/ Purge(k)
          PROVE CleanUp(m)
      <4>1. k = m
        <5> SUFFICES ASSUME k # m PROVE FALSE
          OBVIOUS
        <5> USE <1>1, <3>1 DEF TypeOK, To, Done
        <5>1. CASE MoveLock(k)
          BY <5>1 DEF MoveLock
        <5>2. CASE Settle(k)
          BY <5>2 DEF Settle
        <5>3. CASE CleanUp(k)
          BY <5>3 DEF CleanUp
        <5>4. CASE Mark(k)
          BY <5>4 DEF Mark
        <5>5. CASE Drain(k)
          BY <5>5 DEF Drain
        <5>6. CASE CopyRows(k)
          BY <5>6 DEF CopyRows
        <5>7. CASE CopyKeys(k)
          BY <5>7 DEF CopyKeys
        <5>8. CASE Undo(k)
          BY <5>8 DEF Undo
        <5>9. CASE Switch(k)
          BY <5>9 DEF Switch
        <5>10. CASE DropKeys(k)
          BY <5>10 DEF DropKeys
        <5>11. CASE Purge(k)
          BY <5>11 DEF Purge
        <5> QED BY <3>4, <5>1, <5>2, <5>3, <5>4, <5>5, <5>6, <5>7, <5>8, <5>9, <5>10, <5>11
      <4> QED
        BY <3>1, <3>4, <4>1 DEF MoveLock, Settle, Mark, Drain, CopyRows, CopyKeys, Undo, Switch,
           DropKeys, Purge, At
    <3>5. ASSUME \/ \E n \in Nodes : \/ Fetch(n) \/ Lapse(n)
                                     \/ \E s \in Sessions : SignIn(n, s) \/ SignOut(n, s)
                 \/ \E s \in Sessions : Commit(s)
          PROVE FALSE
      BY <3>1, <3>5 DEF Fetch, Lapse, SignIn, SignOut, Commit, moverVars
    <3> QED BY <3>2, <3>3, <3>4, <3>5 DEF Next
  <2>2. mover[m].target = region
    BY <1>1 DEF PlaceInv, MoveKnowsItsPlace, At
  <2> QED BY <1>1, <2>1, <2>2 DEF CleanUp, Fault, TypeOK
<1> QED
  BY <1>1, PlaceInvariance, PTL DEF Spec, OneCopyAfterARerun

-----------------------------------------------------------------------------
(* What makes EndedStaysEnded inductive: outside the database the tenant     *)
(* lives in there are only keys that failed moves left behind, and those a   *)
(* move under way has copied or is about to delete; and nothing that was     *)
(* ended is written a second time.                                           *)
WrittenOnce ==
    /\ ended \subseteq signedIn
    /\ \A s \in Sessions : tx[s] # None => s \notin signedIn
SeenIsTheSource ==
    \A m \in Movers :
        /\ mover[m].at = "switch" => mover[m].seen = keys[mover[m].source]
        /\ mover[m].at = "drop" => keys[mover[m].source] \subseteq mover[m].seen
KeysElsewhere ==
    \A d \in Databases \ {region} :
        \A k \in keys[d] \ leftovers :
            \E m \in Movers :
                /\ \/ mover[m].at \in {"undo", "switch"} /\ d = mover[m].target
                   \/ mover[m].at = "drop" /\ d = mover[m].source
                /\ k \in mover[m].seen
KeysInv ==
    WrittenOnce /\ (~misled => /\ SeenIsTheSource /\ KeysElsewhere
                               /\ ended \cap keys[region] \subseteq leftovers)

(* Every step keeps KeysInv.                                                 *)
LEMMA NextKeysInv == TypeOK /\ LockInv /\ PlaceInv /\ KeysInv /\ [Next]_vars => KeysInv'
<1> SUFFICES ASSUME TypeOK, LockInv, PlaceInv, KeysInv, [Next]_vars PROVE KeysInv'
  OBVIOUS
<1> USE RelocationAssumption DEF TypeOK, Move, Idle, LockInv, PastLockHoldsIt,
        DrainedStaysSo, Locate, PlaceInv, ServedWhereItLives, MoveKnowsItsPlace,
        CopyIsComplete, KeysInv, WrittenOnce, SeenIsTheSource, KeysElsewhere
<1>1. ASSUME NEW n \in Nodes, Fetch(n) PROVE KeysInv'
  BY <1>1 DEF Fetch
<1>2. ASSUME NEW n \in Nodes, Lapse(n) PROVE KeysInv'
  BY <1>2 DEF Lapse
<1>3. ASSUME NEW n \in Nodes, NEW s \in Sessions, SignIn(n, s) PROVE KeysInv'
  BY <1>3 DEF SignIn, Locate
<1>4. ASSUME NEW n \in Nodes, NEW s \in Sessions, SignOut(n, s) PROVE KeysInv'
  <2>1. PICK d \in Locate(n) : s \in keys[d] /\ keys' = [keys EXCEPT ![d] = @ \ {s}]
    BY <1>4 DEF SignOut
  <2>2. /\ ended' = ended \cup {s} /\ s \in signedIn
        /\ mover' = mover /\ tx' = tx /\ signedIn' = signedIn /\ region' = region
        /\ misled' = misled /\ leftovers' = leftovers
    BY <1>4 DEF SignOut
  <2>3. WrittenOnce'
    BY <2>2
  <2>4. ASSUME ~misled PROVE (/\ SeenIsTheSource /\ KeysElsewhere
                              /\ ended \cap keys[region] \subseteq leftovers)'
    <3>1. d = region /\ Locate(n) # {}
      BY <2>1, <2>4
    <3>2. keys'[region] = keys[region] \ {s} /\ \A e \in Databases \ {region} : keys'[e] = keys[e]
      BY <2>1, <3>1
    <3>3. \A m \in Movers : mover[m].at # "switch"
      BY <3>1
    <3>4. \A m \in Movers : mover[m].at = "drop" => mover[m].source \in Databases \ {region}
      BY <2>4
    <3> HIDE DEF Locate
    <3>5. SeenIsTheSource'
      BY <2>2, <2>4, <3>2, <3>3, <3>4
    <3>6. KeysElsewhere'
      BY <2>2, <2>4, <3>2
    <3>7. (ended \cap keys[region] \subseteq leftovers)'
      BY <2>2, <2>4, <3>2
    <3> QED BY <3>5, <3>6, <3>7
  <2> HIDE DEF WrittenOnce, SeenIsTheSource, KeysElsewhere
  <2> QED BY <2>2, <2>3, <2>4
<1>5. ASSUME NEW s \in Sessions, Commit(s) PROVE KeysInv'
  BY <1>5 DEF Commit
<1>6. ASSUME NEW m \in Movers, NEW t \in Databases, MoveRead(m, t) PROVE KeysInv'
  BY <1>6 DEF MoveRead
<1>7. ASSUME NEW m \in Movers, MoveLock(m) PROVE KeysInv'
  BY <1>7 DEF MoveLock, At, To
<1>8. ASSUME NEW m \in Movers, Settle(m) PROVE KeysInv'
  BY <1>8 DEF Settle, At, To
<1>9. ASSUME NEW m \in Movers, CleanUp(m) PROVE KeysInv'
  BY <1>9 DEF CleanUp, At, Done, Fault
<1>10. ASSUME NEW m \in Movers, Mark(m) PROVE KeysInv'
  BY <1>10 DEF Mark, At, To
<1>11. ASSUME NEW m \in Movers, Drain(m) PROVE KeysInv'
  BY <1>11 DEF Drain, At, To
<1>12. ASSUME NEW m \in Movers, CopyRows(m) PROVE KeysInv'
  BY <1>12 DEF CopyRows, At, To, Fault
<1>13. ASSUME NEW m \in Movers, CopyKeys(m) PROVE KeysInv'
  BY <1>13 DEF CopyKeys, At, Fault
<1>14. ASSUME NEW m \in Movers, Undo(m) PROVE KeysInv'
  <2>1. mover[m] \in Move
    BY <1>14 DEF Undo, At
  <2> DEFINE Clean == [rows EXCEPT ![mover[m].target] = {}]
             Cleared == [keys EXCEPT ![mover[m].target] = @ \ mover[m].seen]
  <2>2. CASE rows' \in {rows, Clean} /\ keys' = Cleared /\ UNCHANGED leftovers
    BY <1>14, <2>1, <2>2 DEF Undo, Done, At
  <2>3. CASE /\ rows' \in {rows, Clean} /\ UNCHANGED keys
             /\ leftovers' = leftovers \cup keys[mover[m].target]
    BY <1>14, <2>1, <2>3 DEF Undo, Done, At
  <2> QED BY <1>14, <2>2, <2>3 DEF Undo
<1>15. ASSUME NEW m \in Movers, Switch(m) PROVE KeysInv'
  <2>1. mover[m] \in Move
    BY <1>15 DEF Switch, At
  <2>2. CASE /\ region' = mover[m].target /\ relocating' = FALSE /\ To(m, "drop")
             /\ UNCHANGED <<lock, leftovers, faults>>
    BY <1>15, <2>1, <2>2 DEF Switch, To, At
  <2>3. CASE /\ Fault /\ Done(m) /\ leftovers' = leftovers \cup mover[m].seen
             /\ UNCHANGED registryVars
    BY <1>15, <2>1, <2>3 DEF Switch, Done, At
  <2> QED BY <1>15, <2>2, <2>3 DEF Switch
<1>16. ASSUME NEW m \in Movers, DropKeys(m) PROVE KeysInv'
  BY <1>16 DEF DropKeys, At, To, Fault
<1>17. ASSUME NEW m \in Movers, Purge(m) PROVE KeysInv'
  BY <1>17 DEF Purge, At, Done, Fault
<1>18. ASSUME NEW m \in Movers, Die(m) PROVE KeysInv'
  BY <1>18 DEF Die, Fault
<1>19. ASSUME UNCHANGED vars PROVE KeysInv'
  BY <1>19 DEF vars
<1> HIDE DEF TypeOK, Move, Idle, LockInv, PastLockHoldsIt, DrainedStaysSo, Locate,
         PlaceInv, ServedWhereItLives, MoveKnowsItsPlace, CopyIsComplete, KeysInv,
         WrittenOnce, SeenIsTheSource, KeysElsewhere
<1> QED
  BY <1>1, <1>2, <1>3, <1>4, <1>5, <1>6, <1>7, <1>8, <1>9, <1>10, <1>11, <1>12,
     <1>13, <1>14, <1>15, <1>16, <1>17, <1>18, <1>19
     DEF Next

(* While a tenant is served, no move brings the key of an ended session back *)
(* (copy_keys, delete_keys), unless one that failed left it behind.          *)
THEOREM NoMoveRevives == Spec => []EndedStaysEnded
<1>1. Init => KeysInv
  BY DEF Init, KeysInv, WrittenOnce, SeenIsTheSource, KeysElsewhere, Idle
<1>2. KeysInv => EndedStaysEnded
  BY DEF KeysInv, EndedStaysEnded
<1> QED
  BY <1>1, <1>2, NextKeysInv, PlaceInvariance, PTL DEF Spec
=============================================================================
