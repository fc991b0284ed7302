------------------------- MODULE SigningKeysProofs -------------------------
(***************************************************************************)
(* Signing keys, for any number of nodes, keys, changes and faults: what   *)
(* is cached under the token in force is as new as every announced change, *)
(* a key is in the document before it signs, and a revoked key comes back  *)
(* only by a change that read it before.                                   *)
(*                                                                         *)
(* Then the keys that the secrets in the database are sealed with, by an   *)
(* instance of MasterKeys: every stored secret opens, a rotation does not  *)
(* change what a row holds, and a finished pass has left nothing behind.   *)
(***************************************************************************)
EXTENDS SigningKeys, NaturalsInduction, WellFoundedInduction, FiniteSetTheorems, TLAPS

USE DEF historyVars

(* What a change has in hand: none when it is idle, a key when it is about  *)
(* one, and turns left when it is to rotate.                                *)
TasksInHand ==
    \A n \in Nodes :
        /\ task[n].at = "idle" => task[n] = Idle
        /\ task[n].at \in {"activate", "write", "retire"} => task[n].key \in Keys
        /\ task[n].at = "bump" /\ task[n].next = "activate" => task[n].key \in Keys
        /\ task[n].at = "retire" => task[n].next = "idle"
        /\ task[n].at = "rotate" => task[n].turns > 0
        /\ task[n].at = "bump" /\ task[n].next = "rotate" => task[n].turns > 0
        /\ task[n].rev <= revision

(* A view read under the token in force is as new as what was announced.    *)
Current(v) ==
    /\ v.rev >= announced
    /\ \A k \in v.active : status[k] # "absent"

ViewsCurrent ==
    /\ \A n \in Readers :
         /\ signing[n] # None => Current(signing[n])
         /\ reading[n] # None /\ reading[n].token = "current" /\ reading[n].view # None
              => Current(reading[n].view)
    /\ jwks # None => Current(jwks)

(* The keys a change is about to write were not revoked when it read them.  *)
Writes(q) == IF q.at = "write" THEN {q.key} \cup q.others
             ELSE IF q.at = "retire" THEN {q.key} ELSE {}
ReadUnrevoked ==
    \A n \in Nodes : \A k \in Writes(task[n]) : status[k] = "revoked" => task[n].rev < revokedAt[k]

KeyInv == TypeOK /\ TasksInHand /\ ViewsCurrent /\ ReadUnrevoked

(* What must be known of a change for the invariant to hold of it.          *)
InHand(q) ==
    /\ q \in Task
    /\ q.at = "idle" => q = Idle
    /\ q.at \in {"activate", "write", "retire"} => q.key \in Keys
    /\ q.at = "bump" /\ q.next = "activate" => q.key \in Keys
    /\ q.at = "retire" => q.next = "idle"
    /\ q.at = "rotate" => q.turns > 0
    /\ q.at = "bump" /\ q.next = "rotate" => q.turns > 0
    /\ q.rev <= revision
    /\ \A k \in Writes(q) : status[k] = "revoked" => q.rev < revokedAt[k]

(* The change that is no change is in hand.                                 *)
LEMMA IdleInHand == ASSUME TypeOK PROVE InHand(Idle)
<1>1. Idle \in Task
  BY DEF Idle, Task
<1>2. Idle.at = "idle" /\ Idle.rev = 0
  BY DEF Idle
<1> QED BY <1>1, <1>2 DEF InHand, Writes, TypeOK

(* Each change of a node that satisfies the invariant is in hand.           *)
LEMMA TaskInHand == ASSUME KeyInv, NEW n \in Nodes PROVE InHand(task[n])
  BY DEF KeyInv, TypeOK, TasksInHand, ReadUnrevoked, InHand

(* A step of a change that writes no row: what it has in hand is all there  *)
(* is to see to.                                                            *)
LEMMA QuietStep == ASSUME KeyInv, NEW n \in Nodes, NEW q, InHand(q),
                          task' = [task EXCEPT ![n] = q],
                          UNCHANGED <<status, cacheVars, revision, announced, revokedAt>>,
                          hushed' \subseteq Keys, early' \subseteq Keys,
                          faults' \in 0..MaxFaults, lock' \in Nodes \cup {None}
                   PROVE  KeyInv'
<1>1. task'[n] = q /\ \A m \in Nodes \ {n} : task'[m] = task[m]
  BY DEF KeyInv, TypeOK
<1>2. TypeOK'
  BY <1>1 DEF KeyInv, TypeOK, InHand, cacheVars
<1>3. TasksInHand'
  BY <1>1 DEF KeyInv, TasksInHand, InHand
<1>4. ViewsCurrent'
  BY DEF KeyInv, ViewsCurrent, Current, cacheVars
<1>5. ReadUnrevoked'
  BY <1>1 DEF KeyInv, ReadUnrevoked, InHand, Writes
<1> QED BY <1>2, <1>3, <1>4, <1>5 DEF KeyInv

(* A commit keeps the invariant: a key it revokes was revoked after every   *)
(* other change's read.                                                     *)
LEMMA CommitStep == ASSUME KeyInv, NEW n \in Nodes, NEW rows \in [Keys -> Statuses],
                           NEW rest \in Task, Commit(n, rows, rest),
                           \A k \in Keys : rows[k] = "absent" => status[k] = "absent",
                           rest.next = "activate" => rest.key \in Keys,
                           rest.next = "rotate" => rest.turns > 0,
                           early' \subseteq Keys
                    PROVE  KeyInv'
<1> DEFINE q == [rest EXCEPT !.at = "bump", !.rev = revision + 1]
<1>1. q \in Task /\ q.at = "bump" /\ q.rev = revision + 1 /\ q.next = rest.next
        /\ q.key = rest.key /\ q.turns = rest.turns
  <2>1. revision + 1 \in Nat
    BY DEF KeyInv, TypeOK
  <2>2. PICK g \in Task : g = [rest EXCEPT !.at = "bump"]
    BY DEF Task
  <2>3. q = [g EXCEPT !.rev = revision + 1]
    BY <2>2
  <2>4. [g EXCEPT !.rev = revision + 1] \in Task
    BY <2>1 DEF Task
  <2> QED BY <2>2, <2>3, <2>4 DEF Task
<1>2. task' = [task EXCEPT ![n] = q]
  BY DEF Commit
<1> HIDE DEF q
<1>3. task'[n] = q /\ \A m \in Nodes \ {n} : task'[m] = task[m]
  BY <1>2 DEF KeyInv, TypeOK
<1>4. status' = rows /\ revision' = revision + 1 /\ revision' \in 0..MaxRevisions
        /\ UNCHANGED <<announced, cacheVars, faults, lock>>
  BY KeysAssumption DEF Commit, KeyInv, TypeOK
<1>5. revokedAt' = [k \in Keys |-> IF rows[k] = "revoked" /\ status[k] # "revoked"
                                   THEN revision + 1 ELSE revokedAt[k]]
  BY DEF Commit
<1>6. revokedAt' \in [Keys -> Nat]
  BY <1>5 DEF KeyInv, TypeOK
<1>7. TypeOK'
  <2>1. announced' \in 0..revision'
    BY <1>4 DEF KeyInv, TypeOK
  <2>2. task' \in [Nodes -> Task]
    BY <1>1, <1>2 DEF KeyInv, TypeOK
  <2>3. hushed' \subseteq Keys
    BY DEF Commit, KeyInv, TypeOK
  <2> QED BY <1>4, <1>6, <2>1, <2>2, <2>3 DEF KeyInv, TypeOK, cacheVars
<1>8. TasksInHand'
  <2>1. \A m \in Nodes : task[m].rev <= revision /\ task[m].rev \in Nat
    BY DEF KeyInv, TypeOK, TasksInHand, Task
  <2> QED BY <1>1, <1>3, <1>4, <2>1 DEF KeyInv, TypeOK, TasksInHand
<1>9. ASSUME NEW v \in View, Current(v) PROVE Current(v)'
  <2>1. v.rev >= announced'
    BY <1>4, <1>9 DEF Current
  <2>2. \A k \in v.active : status'[k] # "absent"
    BY <1>4, <1>9 DEF Current, View
  <2> QED BY <2>1, <2>2 DEF Current
<1>10. ViewsCurrent'
  <2>1. ASSUME NEW m \in Readers
        PROVE  /\ signing[m] # None => signing[m] \in View
               /\ reading[m] # None /\ reading[m].view # None => reading[m].view \in View
    BY DEF KeyInv, TypeOK, Reading
  <2>2. jwks # None => jwks \in View
    BY DEF KeyInv, TypeOK
  <2>3. UNCHANGED <<reading, signing, jwks>>
    BY <1>4 DEF cacheVars
  <2>4. \A v \in View : Current(v) => Current(v)'
    BY <1>9
  <2>5. jwks # None => Current(jwks)'
    BY <2>2, <2>3, <2>4 DEF KeyInv, ViewsCurrent
  <2>6. ASSUME NEW m \in Readers, signing[m] # None PROVE Current(signing[m])'
    <3>1. PICK v \in View : v = signing[m] /\ Current(v)
      BY <2>1, <2>6 DEF KeyInv, ViewsCurrent
    <3> QED BY <2>3, <2>4, <3>1
  <2>7. ASSUME NEW m \in Readers, reading[m] # None, reading[m].token = "current",
               reading[m].view # None
        PROVE  Current(reading[m].view)'
    <3>1. PICK v \in View : v = reading[m].view /\ Current(v)
      BY <2>1, <2>7 DEF KeyInv, ViewsCurrent
    <3> QED BY <2>3, <2>4, <3>1
  <2> QED BY <2>3, <2>5, <2>6, <2>7 DEF ViewsCurrent
<1>11. ReadUnrevoked'
  <2> SUFFICES ASSUME NEW m \in Nodes, NEW k \in Writes(task'[m]), rows[k] = "revoked"
               PROVE  task'[m].rev < revokedAt'[k]
    BY <1>4 DEF ReadUnrevoked, Writes
  <2>1. m # n
    BY <1>1, <1>3 DEF Writes
  <2>2. task'[m] = task[m] /\ task[m].rev \in Nat /\ task[m].rev <= revision
    BY <1>3, <2>1 DEF KeyInv, TypeOK, TasksInHand, Task
  <2>3. k \in Keys /\ k \in Writes(task[m])
    BY <2>2 DEF KeyInv, TypeOK, TasksInHand, Task, Writes
  <2>4. CASE status[k] = "revoked"
    BY <1>5, <2>2, <2>3, <2>4 DEF KeyInv, ReadUnrevoked
  <2>5. CASE status[k] # "revoked"
    BY <1>5, <2>2, <2>3, <2>5 DEF KeyInv, TypeOK
  <2> QED BY <2>4, <2>5
<1> QED BY <1>7, <1>8, <1>10, <1>11 DEF KeyInv

(* A new token: nothing is cached under it, and no read has it.             *)
LEMMA OrphanedViews == ASSUME KeyInv, Orphan
                       PROVE  /\ ViewsCurrent'
                              /\ reading' \in [Readers -> Reading \cup {None}]
                              /\ signing' \in [Readers -> {v \in View : v.active # {}} \cup {None}]
                              /\ jwks' = None
<1>1. ASSUME NEW n \in Readers
      PROVE  /\ reading'[n] \in Reading \cup {None}
             /\ reading'[n] # None => reading'[n].token = "old"
  <2>1. CASE reading[n] = None
    BY <2>1 DEF Orphan
  <2>2. CASE reading[n] # None
    <3>1. PICK g \in Reading : g = reading[n]
      BY <2>2 DEF KeyInv, TypeOK
    <3>2. [g EXCEPT !.token = "old"] \in Reading
      BY DEF Reading
    <3>3. reading'[n] = [g EXCEPT !.token = "old"]
      BY <2>2, <3>1 DEF Orphan
    <3> QED BY <3>2, <3>3 DEF Reading
  <2> QED BY <2>1, <2>2
<1>2. reading' \in [Readers -> Reading \cup {None}]
  BY <1>1 DEF Orphan
<1> QED BY <1>1, <1>2 DEF Orphan, ViewsCurrent

(* The first state satisfies the invariant: no change, no read, no view.    *)
LEMMA InitKeys == Init => KeyInv
<1> SUFFICES ASSUME Init PROVE KeyInv
  OBVIOUS
<1>1. Idle \in Task
  BY DEF Idle, Task
<1>2. task \in [Nodes -> Task] /\ \A n \in Nodes : task[n] = Idle
  BY <1>1 DEF Init
<1>3. 0 \in 0..MaxFaults /\ 0 \in 0..MaxRevisions /\ 0 \in 0..0
  BY KeysAssumption
<1>4. status \in [Keys -> Statuses]
  BY DEF Init, Statuses
<1>5. TypeOK
  BY <1>2, <1>3, <1>4 DEF Init, LockInit, TypeOK
<1>6. TasksInHand /\ ReadUnrevoked
  BY <1>2 DEF Init, Idle, TasksInHand, ReadUnrevoked, Writes
<1>7. ViewsCurrent
  BY DEF Init, ViewsCurrent
<1> QED BY <1>5, <1>6, <1>7 DEF KeyInv

(* Every step keeps the invariant.                                          *)
LEMMA NextKeys == KeyInv /\ [Next]_vars => KeyInv'
<1> SUFFICES ASSUME KeyInv, [Next]_vars PROVE KeyInv'
  OBVIOUS
<1>a. TypeOK
  BY DEF KeyInv
<1>i. early' \subseteq Keys
  <2>1. \/ early' = early \/ \E k \in Keys : early' \in {early \cup {k}, early \ {k}}
    BY ZenonT(60) DEF Next, vars, AdminCreate, Rotate, AdminActivate, RetireRead, AdminRevoke,
       MaintainRotate, FirstKey, ActivateRead, ActivateWrite, RetireWrite, MaintainList,
       MaintainRevoke, MaintainRotations, EnsureStart, EnsureLocked, EnsureFound,
       EnsureWaitedOut, FirstKeyLost, EnsureDone, Bump, BumpFails, ReadVersion, ReadRows,
       FileActive, FileJwks, LockLapses, VersionExpires, TimeComes
  <2> QED BY <1>a, <2>1 DEF TypeOK
<1>b. /\ faults \in 0..MaxFaults /\ lock \in Nodes \cup {None}
      /\ hushed \subseteq Keys /\ early' \subseteq Keys
  BY <1>a, <1>i DEF TypeOK
<1>c. Fault => faults' \in 0..MaxFaults
  BY <1>b, KeysAssumption DEF Fault
<1>d. ASSUME NEW k \in Keys, NEW s \in Statuses \ {"absent"}
      PROVE  /\ [status EXCEPT ![k] = s] \in [Keys -> Statuses]
             /\ \A j \in Keys : [status EXCEPT ![k] = s][j] = "absent" => status[j] = "absent"
  BY <1>a DEF TypeOK
<1>e. ASSUME NEW n \in Nodes, NEW k \in Keys, NEW as \in {"pending", "active"},
             NEW next \in {"idle", "activate", "release"}, Create(n, k, as, next)
      PROVE  KeyInv'
  <2>1. [task[n] EXCEPT !.key = k, !.next = next] \in Task
    BY <1>a, ZenonT(40) DEF TypeOK, Task
  <2>2. /\ [task[n] EXCEPT !.key = k, !.next = next].key = k
        /\ [task[n] EXCEPT !.key = k, !.next = next].next = next
    BY <1>a DEF TypeOK, Task
  <2>3. as \in Statuses \ {"absent"}
    BY DEF Statuses
  <2>4. Commit(n, [status EXCEPT ![k] = as], [task[n] EXCEPT !.key = k, !.next = next])
    BY <1>e DEF Create
  <2>5. PICK rest \in Task : /\ rest = [task[n] EXCEPT !.key = k, !.next = next]
                             /\ rest.key = k /\ rest.next = next
    BY <2>1, <2>2
  <2>6. PICK to \in [Keys -> Statuses] : /\ to = [status EXCEPT ![k] = as]
                                         /\ \A j \in Keys : to[j] = "absent" => status[j] = "absent"
    BY <1>d, <2>3
  <2>7. Commit(n, to, rest)
    BY <2>4, <2>5, <2>6
  <2> QED BY <1>i, <2>5, <2>6, <2>7, CommitStep
<1>f. ASSUME NEW n \in Nodes PROVE task[n] \in Task
  BY <1>a, <1>f DEF TypeOK
<1>1. ASSUME NEW n \in Nodes, NEW k \in Keys, AdminCreate(n, k) \/ Rotate(n, k) PROVE KeyInv'
  BY <1>1, <1>e DEF AdminCreate, Rotate
<1>2. ASSUME NEW n \in Nodes, NEW k \in Keys, AdminActivate(n, k) PROVE KeyInv'
  <2> DEFINE q == [task[n] EXCEPT !.at = "activate", !.key = k]
  <2>1. q \in Task /\ q.at = "activate" /\ q.key = k /\ q.rev = task[n].rev
    BY <1>f DEF Task
  <2>2. task' = [task EXCEPT ![n] = q]
    BY <1>2, <1>a, <1>f DEF AdminActivate, TypeOK, Task
  <2> HIDE DEF q
  <2>3. InHand(q)
    BY <2>1, TaskInHand DEF InHand, Writes
  <2>4. hushed' \subseteq Keys /\ UNCHANGED <<status, cacheVars, revision, announced, revokedAt, faults, lock>>
    BY <1>2, <1>b DEF AdminActivate
  <2> QED BY <1>b, <2>2, <2>3, <2>4, QuietStep
<1>3. ASSUME NEW n \in Nodes, NEW k \in Keys, RetireRead(n, k) PROVE KeyInv'
  <2> DEFINE q == [task[n] EXCEPT !.at = "retire", !.key = k, !.rev = revision]
  <2>1. q \in Task /\ q.at = "retire" /\ q.key = k /\ q.rev = revision /\ q.next = task[n].next
    <3>1. PICK g \in Task : g = [task[n] EXCEPT !.at = "retire", !.key = k]
      BY <1>f DEF Task
    <3>2. revision \in Nat /\ q = [g EXCEPT !.rev = revision]
      BY <1>a, <3>1 DEF TypeOK
    <3>3. [g EXCEPT !.rev = revision] \in Task
      BY <3>2 DEF Task
    <3> QED BY <1>f, <3>1, <3>2, <3>3 DEF Task
  <2>4. task[n].next = "idle"
    BY <1>3 DEF RetireRead, KeyInv, TasksInHand, Idle
  <2>2. task' = [task EXCEPT ![n] = q]
    BY <1>3, <1>a, <1>f DEF RetireRead, TypeOK, Task
  <2> HIDE DEF q
  <2>3. InHand(q)
    BY <1>3, <1>a, <2>1, <2>4 DEF RetireRead, InHand, Writes, TypeOK
  <2> QED BY <1>3, <1>b, <2>2, <2>3, QuietStep DEF RetireRead
<1>4. ASSUME NEW n \in Nodes, NEW k \in Keys, AdminRevoke(n, k) PROVE KeyInv'
  <2>1. task[n] = Idle
    BY <1>4 DEF AdminRevoke, KeyInv, TasksInHand
  <2>2. Idle.next = "idle"
    BY DEF Idle
  <2> QED BY <1>4, <1>d, <1>f, <1>i, <2>1, <2>2, CommitStep DEF AdminRevoke, Revoke, Statuses
<1>5. ASSUME NEW n \in Nodes, NEW k \in Keys, MaintainRotate(n, k) PROVE KeyInv'
  <2> DEFINE q == [task[n] EXCEPT !.key = k, !.turns = @ - 1, !.next = "activate"]
  <2>1. task[n].turns \in Nat /\ task[n].turns > 0
    BY <1>5, <1>f DEF MaintainRotate, KeyInv, TasksInHand, Task
  <2>2. q \in Task /\ q.key = k /\ q.next = "activate"
    <3>1. PICK g \in Task : g = [task[n] EXCEPT !.key = k, !.next = "activate"]
      BY <1>f DEF Task
    <3>2. task[n].turns - 1 \in Nat
      BY <2>1
    <3>3. q = [g EXCEPT !.turns = task[n].turns - 1]
      BY <1>f, <3>1 DEF Task
    <3>4. [g EXCEPT !.turns = task[n].turns - 1] \in Task
      BY <3>2 DEF Task
    <3> QED BY <1>f, <3>1, <3>3, <3>4 DEF Task
  <2>3. Commit(n, [status EXCEPT ![k] = "pending"], q)
    BY <1>5 DEF MaintainRotate
  <2> HIDE DEF q
  <2> QED BY <1>d, <1>i, <2>2, <2>3, CommitStep DEF Statuses
<1>6. ASSUME NEW n \in Nodes, NEW k \in Keys, FirstKey(n, k) PROVE KeyInv'
  BY <1>6, <1>e DEF FirstKey
<1>7. ASSUME NEW n \in Nodes, ActivateRead(n) PROVE KeyInv'
  <2> DEFINE q == [task[n] EXCEPT !.at = "write", !.rev = revision,
                                  !.others = ActiveIn(status) \ {task[n].key}]
  <2>1. task[n].key \in Keys
    BY <1>7 DEF ActivateRead, KeyInv, TasksInHand
  <2>2. ActiveIn(status) \subseteq Keys
    BY DEF ActiveIn
  <2>3. /\ q \in Task /\ q.at = "write" /\ q.rev = revision /\ q.key = task[n].key
        /\ q.others = ActiveIn(status) \ {task[n].key}
    <3>1. PICK g \in Task : g = [task[n] EXCEPT !.at = "write", !.rev = revision]
      <4>1. revision \in Nat
        BY <1>a DEF TypeOK
      <4>2. PICK h \in Task : h = [task[n] EXCEPT !.at = "write"]
        BY <1>f DEF Task
      <4>3. [h EXCEPT !.rev = revision] \in Task
        BY <4>1 DEF Task
      <4> QED BY <4>2, <4>3
    <3>2. PICK o \in SUBSET Keys : o = ActiveIn(status) \ {task[n].key}
      BY <2>2
    <3>3. q = [g EXCEPT !.others = o]
      BY <3>1, <3>2
    <3>4. [g EXCEPT !.others = o] \in Task
      BY DEF Task
    <3> QED BY <1>f, <3>1, <3>2, <3>3, <3>4 DEF Task
  <2>4. task' = [task EXCEPT ![n] = IF status[task[n].key] = "revoked" THEN Idle ELSE q]
    BY <1>7 DEF ActivateRead
  <2> HIDE DEF q
  <2>5. status[task[n].key] # "revoked" => InHand(q)
    BY <1>a, <2>1, <2>3 DEF InHand, Writes, TypeOK, ActiveIn
  <2>6. UNCHANGED <<status, cacheVars, historyVars, faults, lock>>
    BY <1>7 DEF ActivateRead
  <2>7. CASE status[task[n].key] = "revoked"
    BY <1>a, <1>b, <2>4, <2>6, <2>7, IdleInHand, QuietStep
  <2>8. CASE status[task[n].key] # "revoked"
    BY <1>b, <2>4, <2>5, <2>6, <2>8, QuietStep
  <2> QED BY <2>7, <2>8
<1>8. ASSUME NEW n \in Nodes, ActivateWrite(n) PROVE KeyInv'
  <2> DEFINE rows == [k \in Keys |-> IF k = task[n].key THEN "active"
                                     ELSE IF k \in task[n].others THEN "retiring" ELSE status[k]]
             rest == [task[n] EXCEPT !.next = IF task[n].turns > 0 THEN "rotate" ELSE "idle"]
  <2>1. rows \in [Keys -> Statuses] /\ \A k \in Keys : rows[k] = "absent" => status[k] = "absent"
    BY <1>a DEF TypeOK, Statuses
  <2>2. rest \in Task /\ rest.next # "activate" /\ (rest.next = "rotate" => rest.turns > 0)
    BY <1>f DEF Task
  <2>3. CASE Commit(n, rows, rest)
    <3> HIDE DEF rows, rest
    <3> QED BY <1>i, <2>1, <2>2, <2>3, CommitStep
  <2>4. CASE task' = [task EXCEPT ![n] = Idle] /\ UNCHANGED <<status, cacheVars, faults,
  historyVars, lock>>
    BY <1>a, <1>b, <2>4, IdleInHand, QuietStep
  <2> QED BY <1>8, <2>3, <2>4 DEF ActivateWrite
<1>9. ASSUME NEW n \in Nodes, RetireWrite(n) PROVE KeyInv'
  <2>1. task[n].key \in Keys
    BY <1>9 DEF RetireWrite, KeyInv, TasksInHand
  <2>3. task[n].next = "idle"
    BY <1>9 DEF RetireWrite, KeyInv, TasksInHand
  <2> QED BY <1>9, <1>d, <1>f, <1>i, <2>1, <2>3, CommitStep, SMTT(20) DEF RetireWrite, Statuses
<1>10. ASSUME NEW n \in Nodes, MaintainList(n) PROVE KeyInv'
  <2>1. PICK due \in SUBSET Keys : task' = [task EXCEPT ![n].at = "maintain", ![n].todo = due]
    BY <1>10 DEF MaintainList
  <2> DEFINE q == [task[n] EXCEPT !.at = "maintain", !.todo = due]
  <2>2. q \in Task /\ q.at = "maintain" /\ q.rev = task[n].rev
    BY <1>f DEF Task
  <2>3. task' = [task EXCEPT ![n] = q]
    BY <1>a, <1>f, <2>1 DEF TypeOK, Task
  <2> HIDE DEF q
  <2>4. InHand(q)
    BY <2>2, TaskInHand DEF InHand, Writes
  <2> QED BY <1>10, <1>b, <2>3, <2>4, QuietStep DEF MaintainList
<1>11. ASSUME NEW n \in Nodes, MaintainRevoke(n) PROVE KeyInv'
  <2>1. PICK k \in task[n].todo :
              Revoke(n, k, [task[n] EXCEPT !.todo = @ \ {k}, !.next = "maintain"])
    BY <1>11 DEF MaintainRevoke
  <2> DEFINE q == [task[n] EXCEPT !.todo = @ \ {k}, !.next = "maintain"]
  <2>2. k \in Keys /\ q \in Task /\ q.next = "maintain"
    BY <1>f, <2>1 DEF Task
  <2>3. Commit(n, [status EXCEPT ![k] = "revoked"], q)
    BY <2>1 DEF Revoke
  <2> HIDE DEF q
  <2> QED BY <1>d, <1>i, <2>2, <2>3, CommitStep DEF Statuses
<1>12. ASSUME NEW n \in Nodes, MaintainRotations(n) PROVE KeyInv'
  <2>1. PICK due \in SUBSET Found :
              task' = [task EXCEPT ![n] =
                         IF due = {} THEN Idle
                         ELSE [task[n] EXCEPT !.at = "rotate", !.turns = Cardinality(due)]]
    BY <1>12 DEF MaintainRotations
  <2>2. IsFiniteSet(due)
    BY KeysAssumption, FS_Subset DEF ActiveIn, Found
  <2>3. Cardinality(due) \in Nat /\ (due # {} => Cardinality(due) > 0)
    BY <2>2, FS_CardinalityType, FS_EmptySet
  <2> DEFINE q == [task[n] EXCEPT !.at = "rotate", !.turns = Cardinality(due)]
  <2>4. q \in Task /\ q.at = "rotate" /\ q.rev = task[n].rev /\ q.turns = Cardinality(due)
    BY <1>f, <2>3 DEF Task
  <2>5. task' = [task EXCEPT ![n] = IF due = {} THEN Idle ELSE q]
    BY <2>1
  <2> HIDE DEF q
  <2>6. due # {} => InHand(q)
    BY <2>3, <2>4, TaskInHand DEF InHand, Writes
  <2>7. UNCHANGED <<status, cacheVars, historyVars, faults, lock>>
    BY <1>12 DEF MaintainRotations
  <2>8. CASE due = {}
    BY <1>a, <1>b, <2>5, <2>7, <2>8, IdleInHand, QuietStep
  <2>9. CASE due # {}
    BY <1>b, <2>5, <2>6, <2>7, <2>9, QuietStep
  <2> QED BY <2>8, <2>9
<1>13. ASSUME NEW n \in Nodes, NEW at \in {"wait", "make", "release"},
              task' = [task EXCEPT ![n].at = at], UNCHANGED <<status, cacheVars, revision, announced, revokedAt>>,
              hushed' \subseteq Keys,
              faults' \in 0..MaxFaults, lock' \in Nodes \cup {None}
       PROVE  KeyInv'
  <2> DEFINE q == [task[n] EXCEPT !.at = at]
  <2>1. q \in Task /\ q.at = at /\ q.rev = task[n].rev
    BY <1>f DEF Task
  <2>2. task' = [task EXCEPT ![n] = q]
    BY <1>13, <1>a, <1>f DEF TypeOK, Task
  <2> HIDE DEF q
  <2>3. InHand(q)
    BY <2>1, TaskInHand DEF InHand, Writes
  <2> QED BY <1>13, <1>b, <2>2, <2>3, QuietStep
<1>14. ASSUME NEW n \in Nodes, task' = [task EXCEPT ![n] = Idle],
              UNCHANGED <<status, cacheVars, revision, announced, revokedAt>>,
              hushed' \subseteq Keys,
              faults' \in 0..MaxFaults, lock' \in Nodes \cup {None}
       PROVE  KeyInv'
  BY <1>14, <1>a, <1>b, IdleInHand, QuietStep
<1>15. ASSUME NEW n \in Nodes,
              \/ EnsureStart(n) \/ EnsureLocked(n) \/ EnsureFound(n) \/ EnsureWaitedOut(n)
              \/ FirstKeyLost(n) \/ EnsureDone(n) \/ BumpFails(n)
       PROVE  KeyInv'
  <2>1. UNCHANGED <<status, cacheVars, revision, announced, revokedAt>> /\ hushed' \subseteq Keys
    BY <1>15, <1>b DEF EnsureStart, EnsureLocked, EnsureFound, EnsureWaitedOut, FirstKeyLost,
                       EnsureDone, BumpFails
  <2>2. faults' \in 0..MaxFaults
    BY <1>15, <1>b, <1>c DEF EnsureStart, EnsureLocked, EnsureFound, EnsureWaitedOut, FirstKeyLost,
                             EnsureDone, BumpFails
  <2>3. lock' \in Nodes \cup {None}
    BY <1>15, <1>b DEF EnsureStart, EnsureLocked, EnsureFound, EnsureWaitedOut, FirstKeyLost,
                       EnsureDone, BumpFails, Acquire, Release
  <2>4. \/ task' = [task EXCEPT ![n] = Idle]
        \/ \E at \in {"wait", "make", "release"} : task' = [task EXCEPT ![n].at = at]
    BY <1>15 DEF EnsureStart, EnsureLocked, EnsureFound, EnsureWaitedOut, FirstKeyLost, EnsureDone,
                 BumpFails
  <2> QED BY <1>13, <1>14, <2>1, <2>2, <2>3, <2>4
<1>16. ASSUME NEW n \in Nodes, Bump(n) PROVE KeyInv'
  <2> DEFINE q == IF task[n].next = "idle" THEN Idle ELSE [task[n] EXCEPT !.at = task[n].next]
  <2>1. task[n] \in Task /\ InHand(task[n]) /\ task[n].at = "bump"
    BY <1>16, <1>f, TaskInHand DEF Bump
  <2>3. task' = [task EXCEPT ![n] = q]
    BY <1>16 DEF Bump
  <2>4. InHand(q)
    <3>1. CASE task[n].next = "idle"
      BY <1>a, <3>1, IdleInHand
    <3>2. CASE task[n].next # "idle"
      <4> DEFINE g == [task[n] EXCEPT !.at = task[n].next]
      <4>1. g \in Task /\ g.at = task[n].next /\ g.at \in {"activate", "maintain", "rotate",
      "release"}
              /\ g.key = task[n].key /\ g.turns = task[n].turns /\ g.rev = task[n].rev
        BY <2>1, <3>2 DEF Task
      <4>2. q = g
        BY <3>2
      <4> HIDE DEF g, q
      <4> QED BY <2>1, <4>1, <4>2 DEF InHand, Writes
    <3> QED BY <3>1, <3>2
  <2> HIDE DEF q
  <2>5. task'[n] = q /\ \A m \in Nodes \ {n} : task'[m] = task[m]
    BY <1>a, <2>3 DEF TypeOK
  <2>6. UNCHANGED <<status, faults, revision, revokedAt, lock>> /\ Orphan
    BY <1>16 DEF Bump
  <2>7. announced' \in 0..revision' /\ hushed' \subseteq Keys
    BY <1>16, <1>a, <2>1, <2>6 DEF Bump, TypeOK, InHand, Task
  <2>8. TypeOK'
    BY <1>a, <1>b, <2>4, <2>5, <2>3, <2>6, <2>7, OrphanedViews DEF TypeOK, InHand
  <2>9. TasksInHand' /\ ReadUnrevoked'
    BY <2>4, <2>5, <2>6 DEF KeyInv, TasksInHand, ReadUnrevoked, InHand, Writes
  <2> QED BY <2>6, <2>8, <2>9, OrphanedViews DEF KeyInv
<1>17. CASE VersionExpires
  <2>1. Orphan /\ UNCHANGED <<status, task, revision, announced, revokedAt, lock>>
    BY <1>17 DEF VersionExpires
  <2>2. TypeOK'
    BY <1>17, <1>a, <1>b, <1>c, <2>1, OrphanedViews DEF VersionExpires, TypeOK, historyVars
  <2>3. TasksInHand' /\ ReadUnrevoked'
    BY <2>1 DEF KeyInv, TasksInHand, ReadUnrevoked, Writes, historyVars
  <2> QED BY <2>1, <2>2, <2>3, OrphanedViews DEF KeyInv
<1>18. CASE LockLapses
  <2>1. TypeOK'
    BY <1>18, <1>a, <1>b, <1>c DEF LockLapses, Lapse, TypeOK, cacheVars, historyVars
  <2>2. TasksInHand' /\ ReadUnrevoked' /\ ViewsCurrent'
    BY <1>18 DEF LockLapses, KeyInv, TasksInHand, ReadUnrevoked, Writes, ViewsCurrent, Current,
                 cacheVars, historyVars
  <2> QED BY <2>1, <2>2 DEF KeyInv
<1>g. ASSUME UNCHANGED <<status, task, faults, historyVars, lock>>, ViewsCurrent',
             reading' \in [Readers -> Reading \cup {None}],
             signing' \in [Readers -> {v \in View : v.active # {}} \cup {None}],
             jwks' \in {v \in View : v.keys # {}} \cup {None}
      PROVE  KeyInv'
  <2>1. TypeOK'
    BY <1>g, <1>a, <1>b DEF TypeOK, historyVars
  <2>2. TasksInHand' /\ ReadUnrevoked'
    BY <1>g DEF KeyInv, TasksInHand, ReadUnrevoked, Writes, historyVars
  <2> QED BY <1>g, <2>1, <2>2 DEF KeyInv
<1>h. ASSUME UNCHANGED <<status, historyVars>> PROVE \A v : Current(v)' <=> Current(v)
  BY <1>h DEF Current, historyVars
<1>19. ASSUME NEW n \in Readers, ReadVersion(n) PROVE KeyInv'
  <2>1. PICK t \in {"current", "old"} :
              reading' = [reading EXCEPT ![n] = [token |-> t, view |-> None]]
    BY <1>19 DEF ReadVersion
  <2>2. [token |-> t, view |-> None] \in Reading
    BY DEF Reading
  <2>3. reading' \in [Readers -> Reading \cup {None}]
    BY <1>a, <2>1, <2>2 DEF TypeOK
  <2>4. reading'[n].view = None /\ \A m \in Readers \ {n} : reading'[m] = reading[m]
    BY <1>a, <2>1 DEF TypeOK
  <2>5. UNCHANGED <<status, signing, jwks, task, faults, historyVars, lock>>
    BY <1>19 DEF ReadVersion
  <2>6. ViewsCurrent'
    BY <1>h, <2>4, <2>5 DEF KeyInv, ViewsCurrent
  <2> QED BY <1>a, <1>g, <2>3, <2>5, <2>6 DEF TypeOK
<1>20. ASSUME NEW n \in Readers, ReadRows(n) PROVE KeyInv'
  <2> DEFINE v == [active |-> Found, keys |-> Published, rev |-> revision]
  <2>1. PICK g \in Reading : g = reading[n]
    BY <1>20, <1>a DEF ReadRows, TypeOK
  <2>2. v \in View /\ v.rev = revision /\ v.keys = Published /\ v.active = Found
    BY <1>a DEF View, ActiveIn, Found, Published, TypeOK
  <2>3. Current(v)
    BY <1>a DEF Current, ActiveIn, Found, Published, TypeOK, Statuses
  <2>4. reading' = [reading EXCEPT ![n] = [g EXCEPT !.view = v]]
    BY <1>20, <1>a, <2>1 DEF ReadRows, TypeOK, Reading
  <2> HIDE DEF v
  <2>5. [g EXCEPT !.view = v] \in Reading /\ [g EXCEPT !.view = v].view = v
    BY <2>2 DEF Reading
  <2>6. reading' \in [Readers -> Reading \cup {None}]
    BY <1>a, <2>4, <2>5 DEF TypeOK
  <2>7. reading'[n].view = v /\ \A m \in Readers \ {n} : reading'[m] = reading[m]
    BY <1>a, <2>4, <2>5 DEF TypeOK
  <2>8. UNCHANGED <<status, signing, jwks, task, faults, historyVars, lock>>
    BY <1>20 DEF ReadRows
  <2>9. ViewsCurrent'
    BY <1>h, <2>3, <2>7, <2>8 DEF KeyInv, ViewsCurrent
  <2> QED BY <1>a, <1>g, <2>6, <2>8, <2>9 DEF TypeOK
<1>21. ASSUME NEW n \in Readers, FileActive(n) \/ FileJwks(n) PROVE KeyInv'
  <2>1. PICK g \in Reading : g = reading[n] /\ g.view \in View
    BY <1>21, <1>a DEF FileActive, FileJwks, TypeOK, Reading
  <2>2. g.token = "current" => Current(g.view)
    BY <2>1, ViewsAssumption DEF KeyInv, ViewsCurrent
  <2>3. reading' \in [Readers -> Reading \cup {None}]
    BY <1>21, <1>a DEF FileActive, FileJwks, TypeOK
  <2>4. reading'[n] = None /\ \A m \in Readers \ {n} : reading'[m] = reading[m]
    BY <1>21, <1>a DEF FileActive, FileJwks, TypeOK
  <2>5. UNCHANGED <<status, task, faults, historyVars, lock>>
    BY <1>21 DEF FileActive, FileJwks
  <2>6. /\ signing' \in [Readers -> {v \in View : v.active # {}} \cup {None}]
        /\ \A m \in Readers : signing'[m] = signing[m] \/ Current(signing'[m])
    BY <1>21, <1>a, <2>1, <2>2 DEF FileActive, FileJwks, TypeOK
  <2>7. /\ jwks' \in {v \in View : v.keys # {}} \cup {None}
        /\ jwks' = jwks \/ Current(jwks')
    BY <1>21, <1>a, <2>1, <2>2 DEF FileActive, FileJwks, TypeOK
  <2>8. ViewsCurrent'
    BY <1>h, <2>4, <2>5, <2>6, <2>7 DEF KeyInv, ViewsCurrent
  <2> QED BY <1>g, <2>3, <2>5, <2>6, <2>7, <2>8
<1>22. CASE UNCHANGED vars
  <2>1. UNCHANGED <<status, cacheVars, task, faults, historyVars, lock>>
    BY <1>22 DEF vars
  <2>2. ViewsCurrent'
    BY <1>h, <2>1 DEF KeyInv, ViewsCurrent, cacheVars
  <2> QED BY <1>a, <1>g, <2>1, <2>2 DEF TypeOK, cacheVars
<1>23. ASSUME NEW k \in Keys, TimeComes(k) PROVE KeyInv'
  <2>1. UNCHANGED <<status, cacheVars, task, faults, historyVars, lock>>
    BY <1>23 DEF TimeComes
  <2>2. ViewsCurrent'
    BY <1>h, <2>1 DEF KeyInv, ViewsCurrent, cacheVars
  <2> QED BY <1>a, <1>g, <2>1, <2>2 DEF TypeOK, cacheVars
<1> QED BY <1>1, <1>2, <1>3, <1>4, <1>5, <1>6, <1>7, <1>8, <1>9, <1>10, <1>11, <1>12, <1>15, <1>16,
           <1>17, <1>18, <1>19, <1>20, <1>21, <1>22, <1>23 DEF Next

(* The invariant holds in every state.                                      *)
THEOREM KeysAgree == Spec => []KeyInv
  BY InitKeys, NextKeys, PTL DEF Spec

(* Rows, changes, reads and views keep their types.                         *)
THEOREM TypeCorrect == Spec => []TypeOK
<1>1. KeyInv => TypeOK
  BY DEF KeyInv
<1> QED BY <1>1, KeysAgree, PTL

(* A change that has returned is seen by every read after it, whatever      *)
(* order reads, commits and bumps of any number of nodes come in:           *)
(* AnnouncedIsSeen.                                                         *)
THEOREM ChangesAreSeen == Spec => []AnnouncedIsSeen
<1>1. KeyInv => AnnouncedIsSeen
  BY DEF KeyInv, ViewsCurrent, Current, AnnouncedIsSeen
<1> QED BY <1>1, KeysAgree, PTL

(* What makes PublishedBeforeSigning inductive.  A key that a view under    *)
(* the token in force misses is unpublished or hushed, or its maker is      *)
(* about to move the token and it does not sign yet; nobody activates such  *)
(* a key, and no such view signs with it.                                   *)
CurrentViews ==
    ({signing[n] : n \in Readers} \cup {jwks} \cup
     {reading[n].view : n \in {m \in Readers : reading[m] # None /\ reading[m].token = "current"}})
    \ {None}
Missed(k) == \E v \in CurrentViews : k \notin v.keys
Heralded(k) ==
    /\ status[k] \in {"pending", "retiring"}
    /\ \E m \in Nodes : task[m].at = "bump" /\ task[m].key = k
Silent(k) == status[k] = "revoked" \/ k \in hushed
MissedIsKnown ==
    \A k \in Keys : Missed(k) => status[k] = "absent" \/ Silent(k) \/ Heralded(k)
ActivatesKnown ==
    \A n \in Nodes : task[n].at \in {"activate", "write"} /\ Missed(task[n].key) =>
        Silent(task[n].key)
SignsKnown ==
    \A v \in CurrentViews : \A k \in v.active : Missed(k) => Silent(k)
PubInv == MissedIsKnown /\ ActivatesKnown /\ SignsKnown

(* A change has only rows in hand that were inserted.                       *)
Handled(q) == ({q.key} \cup q.others \cup q.todo) \ {None}
HandsKnown == \A n \in Nodes : \A k \in Handled(task[n]) : status[k] # "absent"

(* A change that writes no row moves on, and stays or is not at its bump.   *)
LEMMA PubMoves ==
    ASSUME KeyInv, PubInv, NEW n \in Nodes, task' \in [Nodes -> Task],
           \A m \in Nodes \ {n} : task'[m] = task[m],
           UNCHANGED <<status, cacheVars>>, hushed \subseteq hushed',
           task[n].at = "bump" => \A k \in Keys : k = task[n].key /\ Heralded(k) => k \in hushed',
           task'[n].at \in {"activate", "write"} /\ Missed(task'[n].key) =>
               status[task'[n].key] = "revoked" \/ task'[n].key \in hushed'
    PROVE  PubInv'
<1>1. CurrentViews' = CurrentViews /\ \A k : Missed(k)' <=> Missed(k)
  BY DEF CurrentViews, Missed, cacheVars
<1>2. \A k : Silent(k) => Silent(k)'
  BY DEF Silent
<1>3. MissedIsKnown'
  <2> SUFFICES ASSUME NEW k \in Keys, Missed(k), ~Silent(k)', status[k] # "absent"
               PROVE  Heralded(k)'
    BY <1>1 DEF MissedIsKnown
  <2>1. Heralded(k)
    BY <1>2 DEF PubInv, MissedIsKnown
  <2>2. k \notin hushed'
    BY DEF Silent
  <2> QED BY <2>1, <2>2 DEF Heralded
<1>4. ActivatesKnown'
  BY <1>1, <1>2 DEF PubInv, ActivatesKnown, Silent
<1>5. SignsKnown'
  BY <1>1, <1>2 DEF PubInv, SignsKnown
<1> QED BY <1>3, <1>4, <1>5 DEF PubInv

(* A commit publishes a pending key as its maker, or a hushed one, and      *)
(* activates the key its change is about.                                   *)
LEMMA PubCommit ==
    ASSUME KeyInv, KeyInv', PubInv, NEW n \in Nodes, NEW rows \in [Keys -> Statuses],
           NEW rest \in Task, Commit(n, rows, rest), task[n].at # "bump",
           \A k \in Keys : /\ rows[k] = "absent" => status[k] = "absent"
                           /\ status[k] = "absent" /\ rows[k] # "absent" =>
                                 rows[k] = "active" \/ (rows[k] = "pending" /\ rest.key = k)
                           /\ rows[k] = "active" /\ status[k] \notin {"absent", "active"} =>
                                 task[n].at = "write" /\ k = task[n].key
    PROVE  PubInv'
<1>1. CurrentViews' = CurrentViews /\ \A k : Missed(k)' <=> Missed(k)
  BY DEF CurrentViews, Missed, Commit, cacheVars
<1>2. status' = rows /\ hushed \subseteq hushed'
  BY DEF Commit
<1>3. \A k \in Keys : /\ status[k] = "absent" /\ rows[k] = "active" => k \in hushed'
                      /\ status[k] = "revoked" /\ rows[k] # "revoked" => k \in hushed'
  BY DEF Commit
<1>4. /\ task'[n].at = "bump" /\ task'[n].key = rest.key
      /\ \A m \in Nodes \ {n} : task'[m] = task[m]
  BY DEF Commit, KeyInv, TypeOK, Task
<1>5. \A k \in Keys : Silent(k) => Silent(k)'
  BY <1>2, <1>3 DEF Silent
<1>6. MissedIsKnown'
  <2> SUFFICES ASSUME NEW k \in Keys, Missed(k), ~Silent(k)', rows[k] # "absent"
               PROVE  Heralded(k)'
    BY <1>1, <1>2 DEF MissedIsKnown
  <2>1. CASE status[k] = "absent"
    BY <1>2, <1>3, <1>4, <2>1 DEF Silent, Heralded
  <2>2. CASE status[k] # "absent"
    <3>1. ~Silent(k) /\ Heralded(k)
      BY <1>5, <2>2 DEF PubInv, MissedIsKnown
    <3>2. \E m \in Nodes : task'[m].at = "bump" /\ task'[m].key = k
      BY <1>4, <3>1 DEF Heralded
    <3>3. rows[k] # "active"
      BY <3>1 DEF PubInv, ActivatesKnown, Heralded
    <3>4. rows[k] \in Statuses \ {"absent", "revoked", "active"}
      BY <1>2, <3>3 DEF Silent
    <3> QED BY <1>2, <3>2, <3>4 DEF Heralded, Statuses
  <2> QED BY <2>1, <2>2
<1>7. ActivatesKnown'
  <2> SUFFICES ASSUME NEW m \in Nodes, task'[m].at \in {"activate", "write"}
               PROVE  Missed(task[m].key)' => Silent(task[m].key)'
    BY DEF ActivatesKnown
  <2>1. task'[m] = task[m] /\ task[m].at \in {"activate", "write"}
    BY <1>4
  <2>2. PICK j \in Keys : j = task[m].key
    BY <2>1 DEF KeyInv, TasksInHand
  <2>3. Missed(j) => Silent(j)
    BY <2>1, <2>2 DEF PubInv, ActivatesKnown
  <2>4. Missed(j)' => Silent(j)'
    BY <1>1, <1>5, <2>2, <2>3
  <2> QED BY <2>1, <2>2, <2>4
<1>8. SignsKnown'
  <2> SUFFICES ASSUME NEW v \in CurrentViews, NEW k \in v.active, Missed(k) PROVE Silent(k)'
    BY <1>1 DEF SignsKnown
  <2>1. k \in Keys
    BY DEF CurrentViews, KeyInv, TypeOK, View, Reading
  <2> QED BY <1>5, <2>1 DEF PubInv, SignsKnown
<1> QED BY <1>6, <1>7, <1>8 DEF PubInv

(* A reader moves on: what it reads is what is published now.               *)
LEMMA PubViews ==
    ASSUME KeyInv, HandsKnown, PubInv, UNCHANGED <<status, task, hushed>>,
           \A v \in CurrentViews' : v \in CurrentViews \/ (v.keys = Published /\ v.active = Found)
    PROVE  PubInv'
<1>1. \A k \in Keys : Missed(k)' => Missed(k) \/ status[k] \in {"absent", "revoked"}
  BY DEF Missed, Published, KeyInv, TypeOK, Statuses
<1>2. \A k : (Silent(k)' <=> Silent(k)) /\ (Heralded(k)' <=> Heralded(k))
  BY DEF Silent, Heralded
<1>3. MissedIsKnown'
  BY <1>1, <1>2 DEF PubInv, MissedIsKnown, Silent
<1>4. ActivatesKnown'
  <2> SUFFICES ASSUME NEW m \in Nodes, task[m].at \in {"activate", "write"},
                      Missed(task[m].key)'
               PROVE  Silent(task[m].key)
    BY <1>2 DEF PubInv, ActivatesKnown
  <2>1. task[m].key \in Keys /\ status[task[m].key] # "absent"
    BY KeysAssumption DEF KeyInv, TasksInHand, HandsKnown, Handled
  <2> QED BY <1>1, <2>1 DEF PubInv, ActivatesKnown, Silent
<1>5. SignsKnown'
  <2> SUFFICES ASSUME NEW v \in CurrentViews', NEW k \in v.active, Missed(k)' PROVE Silent(k)
    BY <1>2 DEF SignsKnown
  <2>1. CASE v \in CurrentViews
    <3>1. k \in Keys /\ status[k] # "absent"
      BY <2>1 DEF CurrentViews, KeyInv, TypeOK, View, Reading, ViewsCurrent, Current
    <3> QED BY <1>1, <2>1, <3>1 DEF PubInv, SignsKnown, Silent
  <2>2. CASE v.active = Found
    <3>1. k \in Keys /\ status[k] = "active"
      BY <2>2 DEF Found, ActiveIn
    <3>2. Missed(k) /\ ~Heralded(k)
      BY <1>1, <3>1 DEF Heralded
    <3> QED BY <3>1, <3>2 DEF PubInv, MissedIsKnown
  <2> QED BY <2>1, <2>2
<1> QED BY <1>3, <1>4, <1>5 DEF PubInv

(* In particular, when it files or drops what it had.                       *)
LEMMA PubViewsStay ==
    ASSUME KeyInv, HandsKnown, PubInv, UNCHANGED <<status, task, hushed>>,
           CurrentViews' \subseteq CurrentViews
    PROVE  PubInv'
<1>1. \A v \in CurrentViews' : v \in CurrentViews \/ (v.keys = Published /\ v.active = Found)
  OBVIOUS
<1> QED BY <1>1, PubViews

(* A new token: no view is current.                                         *)
LEMMA PubOrphan ==
    ASSUME KeyInv, Orphan
    PROVE  PubInv'
<1>1. CurrentViews' = {}
  <2>1. \A n \in Readers : signing'[n] = None /\ jwks' = None
    BY DEF Orphan
  <2>2. ASSUME NEW n \in Readers, reading'[n] # None PROVE reading'[n].token = "old"
    <3>1. PICK g \in Reading : g = reading[n]
      BY <2>2 DEF KeyInv, TypeOK, Orphan
    <3>2. reading'[n] = [g EXCEPT !.token = "old"]
      BY <2>2, <3>1 DEF Orphan
    <3> QED BY <3>2 DEF Reading
  <2> QED BY <2>1, <2>2 DEF CurrentViews, Orphan
<1> QED BY <1>1 DEF PubInv, MissedIsKnown, ActivatesKnown, SignsKnown, Missed

(* Every step keeps that: rows are never deleted, and a change names keys   *)
(* it has read or is inserting.                                             *)
LEMMA NextHands == KeyInv /\ KeyInv' /\ HandsKnown /\ [Next]_vars => HandsKnown'
<1> SUFFICES ASSUME KeyInv, KeyInv', HandsKnown, [Next]_vars PROVE HandsKnown'
  OBVIOUS
<1>a. /\ status \in [Keys -> Statuses] /\ status' \in [Keys -> Statuses]
      /\ task \in [Nodes -> Task] /\ task' \in [Nodes -> Task]
  BY DEF KeyInv, TypeOK
<1>b. ASSUME NEW n \in Nodes, \A m \in Nodes \ {n} : task'[m] = task[m],
             \A k \in Keys : status[k] # "absent" => status'[k] # "absent",
             \A k \in Keys : k \in Handled(task'[n]) => k \in Handled(task[n]) \/ status'[k] # "absent"
      PROVE  HandsKnown'
  <2> SUFFICES ASSUME NEW m \in Nodes, NEW k \in Handled(task'[m]) PROVE status'[k] # "absent"
    BY DEF HandsKnown, Handled
  <2>1. k \in Keys
    BY <1>a DEF Handled, Task
  <2>2. k \in Handled(task[m]) \/ status'[k] # "absent"
    BY <1>b, <2>1
  <2>3. k \in Handled(task[m]) => status[k] # "absent"
    BY DEF HandsKnown
  <2> QED BY <1>b, <2>1, <2>2, <2>3
<1>c. ASSUME NEW n \in Nodes, NEW k \in Keys, NEW as \in Statuses \ {"absent"}, NEW rest,
             Commit(n, [status EXCEPT ![k] = as], rest),
             rest \in Task, Handled(rest) \subseteq Handled(task[n]) \cup {k}
      PROVE  HandsKnown'
  <2>1. task'[n].key = rest.key /\ task'[n].others = rest.others /\ task'[n].todo = rest.todo
    BY <1>a, <1>c DEF Commit, Task
  <2>2. Handled(task'[n]) = Handled(rest)
    BY <2>1 DEF Handled
  <2>3. /\ status'[k] # "absent" /\ \A j \in Keys \ {k} : status'[j] = status[j]
        /\ \A m \in Nodes \ {n} : task'[m] = task[m]
    BY <1>a, <1>c DEF Commit
  <2> QED BY <1>b, <1>c, <2>2, <2>3
<1>d. ASSUME NEW n \in Nodes, UNCHANGED status, \A m \in Nodes \ {n} : task'[m] = task[m],
             \A k \in Keys : k \in Handled(task'[n]) => k \in Handled(task[n]) \/ status[k] # "absent"
      PROVE  HandsKnown'
  BY <1>b, <1>d
<1>e. ASSUME NEW n \in Nodes, NEW k \in Keys, NEW as \in {"pending", "active"},
             NEW next \in {"idle", "activate", "release"}, Create(n, k, as, next)
      PROVE  HandsKnown'
  <2>1. PICK rest \in Task : rest = [task[n] EXCEPT !.key = k, !.next = next]
    BY <1>a, ZenonT(40) DEF Task
  <2>2. rest.key = k /\ rest.others = task[n].others /\ rest.todo = task[n].todo
    BY <1>a, <2>1 DEF Task
  <2>3. Commit(n, [status EXCEPT ![k] = as], rest)
    BY <1>e, <2>1 DEF Create
  <2>4. Handled(rest) \subseteq Handled(task[n]) \cup {k}
    BY <2>2 DEF Handled
  <2> QED BY <1>c, <2>3, <2>4 DEF Statuses
<1>1. ASSUME NEW n \in Nodes, NEW k \in Keys, AdminCreate(n, k) \/ Rotate(n, k) \/ FirstKey(n, k)
      PROVE  HandsKnown'
  BY <1>1, <1>e DEF AdminCreate, Rotate, FirstKey
<1>3. ASSUME NEW n \in Nodes, NEW k \in Keys, MaintainRotate(n, k) PROVE HandsKnown'
  <2> DEFINE q == [task[n] EXCEPT !.key = k, !.turns = @ - 1, !.next = "activate"]
  <2>1. Commit(n, [status EXCEPT ![k] = "pending"], q)
    BY <1>3 DEF MaintainRotate
  <2>2. q.key = k /\ q.others = task[n].others /\ q.todo = task[n].todo
    BY <1>a DEF Task
  <2>3. q \in Task
    <3>1. task[n] \in Task /\ task[n].turns \in Nat /\ task[n].turns > 0
      BY <1>3, <1>a DEF MaintainRotate, KeyInv, TasksInHand, Task
    <3>2. PICK g \in Task : g = [task[n] EXCEPT !.key = k, !.next = "activate"]
      BY <3>1 DEF Task
    <3>3. task[n].turns - 1 \in Nat
      BY <3>1
    <3>4. q = [g EXCEPT !.turns = task[n].turns - 1]
      BY <3>1, <3>2 DEF Task
    <3>5. [g EXCEPT !.turns = task[n].turns - 1] \in Task
      BY <3>3 DEF Task
    <3> QED BY <3>4, <3>5
  <2> HIDE DEF q
  <2>4. Handled(q) \subseteq Handled(task[n]) \cup {k}
    BY <2>2 DEF Handled
  <2> QED BY <1>c, <2>1, <2>3, <2>4 DEF Statuses
<1>4. ASSUME NEW n \in Nodes, NEW k \in Keys, AdminRevoke(n, k) PROVE HandsKnown'
  BY <1>a, <1>c, <1>4 DEF AdminRevoke, Revoke, Statuses
<1>5. ASSUME NEW n \in Nodes, RetireWrite(n) PROVE HandsKnown'
  <2>1. PICK k \in Keys : k = task[n].key
    BY <1>5 DEF RetireWrite, KeyInv, TasksInHand
  <2> QED BY <1>a, <1>c, <1>5, <2>1 DEF RetireWrite, Statuses
<1>6. ASSUME NEW n \in Nodes, MaintainRevoke(n) PROVE HandsKnown'
  <2>1. PICK k \in task[n].todo :
              Revoke(n, k, [task[n] EXCEPT !.todo = @ \ {k}, !.next = "maintain"])
    BY <1>6 DEF MaintainRevoke
  <2> DEFINE q == [task[n] EXCEPT !.todo = @ \ {k}, !.next = "maintain"]
  <2>2. k \in Keys /\ q \in Task
    <3>1. task[n] \in Task /\ task[n].todo \in SUBSET Keys
      BY <1>a DEF Task
    <3>2. PICK d \in SUBSET Keys : d = task[n].todo \ {k}
      BY <3>1
    <3>3. PICK g \in Task : g = [task[n] EXCEPT !.todo = d]
      BY <3>1 DEF Task
    <3>4. [g EXCEPT !.next = "maintain"] \in Task
      BY DEF Task
    <3>5. q = [g EXCEPT !.next = "maintain"]
      BY <3>1, <3>2, <3>3
    <3> QED BY <2>1, <3>1, <3>4, <3>5
  <2>3. q.key = task[n].key /\ q.others = task[n].others /\ q.todo \subseteq task[n].todo
    BY <1>a DEF Task
  <2>4. Commit(n, [status EXCEPT ![k] = "revoked"], q)
    BY <2>1 DEF Revoke
  <2> HIDE DEF q
  <2>5. Handled(q) \subseteq Handled(task[n]) \cup {k}
    BY <2>3 DEF Handled
  <2> QED BY <1>c, <2>2, <2>4, <2>5 DEF Statuses
<1>7. ASSUME NEW n \in Nodes, ActivateWrite(n) PROVE HandsKnown'
  <2> DEFINE rows == [k \in Keys |-> IF k = task[n].key THEN "active"
                                     ELSE IF k \in task[n].others THEN "retiring" ELSE status[k]]
             rest == [task[n] EXCEPT !.next = IF task[n].turns > 0 THEN "rotate" ELSE "idle"]
  <2>1. CASE Commit(n, rows, rest)
    <3>1. \A k \in Keys : status[k] # "absent" => rows[k] # "absent"
      OBVIOUS
    <3>2. rest \in Task /\ rest.key = task[n].key /\ rest.others = task[n].others /\ rest.todo = task[n].todo
      <4>1. PICK x \in {"rotate", "idle"} : rest = [task[n] EXCEPT !.next = x]
        OBVIOUS
      <4>2. task[n] \in Task
        BY <1>a
      <4> HIDE DEF rest
      <4> QED BY <4>1, <4>2 DEF Task
    <3> HIDE DEF rows, rest
    <3>3. /\ status' = rows /\ \A m \in Nodes \ {n} : task'[m] = task[m]
          /\ task'[n].key = rest.key /\ task'[n].others = rest.others /\ task'[n].todo = rest.todo
      BY <1>a, <2>1, <3>2 DEF Commit, Task
    <3>4. Handled(task'[n]) = Handled(task[n])
      BY <3>2, <3>3 DEF Handled
    <3> QED BY <1>b, <3>1, <3>3, <3>4
  <2>2. CASE task' = [task EXCEPT ![n] = Idle] /\ UNCHANGED status
    BY <1>a, <1>d, <2>2 DEF Idle, Handled
  <2> QED BY <1>7, <2>1, <2>2 DEF ActivateWrite
<1>8. ASSUME NEW n \in Nodes, NEW k \in Keys, AdminActivate(n, k) \/ RetireRead(n, k) PROVE HandsKnown'
  <2>1. /\ UNCHANGED status /\ status[k] # "absent" /\ \A m \in Nodes \ {n} : task'[m] = task[m]
        /\ task'[n].key = k /\ task'[n].others = task[n].others /\ task'[n].todo = task[n].todo
    BY <1>a, <1>8 DEF AdminActivate, RetireRead, Task
  <2> QED BY <1>d, <2>1 DEF Handled
<1>9. ASSUME NEW n \in Nodes, ActivateRead(n) PROVE HandsKnown'
  <2>1. /\ UNCHANGED status /\ \A m \in Nodes \ {n} : task'[m] = task[m]
        /\ task'[n].key \in {None, task[n].key} /\ task'[n].others \subseteq ActiveIn(status)
        /\ task'[n].todo \subseteq task[n].todo
    BY <1>a, <1>9 DEF ActivateRead, Task, Idle
  <2> QED BY <1>d, <2>1 DEF Handled, ActiveIn
<1>10. ASSUME NEW n \in Nodes, MaintainList(n) PROVE HandsKnown'
  <2>1. /\ UNCHANGED status /\ \A m \in Nodes \ {n} : task'[m] = task[m]
        /\ task'[n].key = task[n].key /\ task'[n].others = task[n].others
        /\ \A k \in task'[n].todo : status[k] = "retiring"
    BY <1>a, <1>10 DEF MaintainList, Task
  <2> QED BY <1>d, <2>1 DEF Handled
<1>11. ASSUME NEW n \in Nodes,
              \/ MaintainRotations(n) \/ BumpFails(n) \/ Bump(n)
              \/ EnsureStart(n) \/ EnsureLocked(n) \/ EnsureFound(n) \/ EnsureWaitedOut(n)
              \/ FirstKeyLost(n) \/ EnsureDone(n)
       PROVE  HandsKnown'
  <2>1. UNCHANGED status
    BY <1>11 DEF MaintainRotations, EnsureStart, EnsureLocked, BumpFails, Bump,
                 EnsureFound, EnsureWaitedOut, FirstKeyLost, EnsureDone
  <2>2. /\ \A m \in Nodes \ {n} : task'[m] = task[m]
        /\ task'[n].key \in {None, task[n].key} /\ task'[n].others \subseteq task[n].others
        /\ task'[n].todo \subseteq task[n].todo
    <3>1. CASE MaintainRotations(n)
      <4>1. PICK due \in SUBSET Found :
                  task' = [task EXCEPT ![n] =
                             IF due = {} THEN Idle
                             ELSE [task[n] EXCEPT !.at = "rotate", !.turns = Cardinality(due)]]
        BY <3>1 DEF MaintainRotations
      <4> QED BY <1>a, <4>1 DEF Task, Idle
    <3>5. CASE BumpFails(n)
      BY <1>a, <3>5 DEF BumpFails, Task, Idle
    <3>2. CASE Bump(n)
      BY <1>a, <3>2 DEF Bump, Task, Idle
    <3>3. CASE EnsureStart(n) \/ EnsureLocked(n) \/ EnsureFound(n) \/ EnsureWaitedOut(n)
      BY <1>a, <3>3 DEF EnsureStart, EnsureLocked, EnsureFound, EnsureWaitedOut, Task, Idle
    <3>4. CASE FirstKeyLost(n) \/ EnsureDone(n)
      BY <1>a, <3>4 DEF FirstKeyLost, EnsureDone, Task, Idle
    <3> QED BY <1>11, <3>1, <3>2, <3>3, <3>4, <3>5
  <2> QED BY <1>d, <2>1, <2>2 DEF Handled
<1>12. CASE \/ VersionExpires \/ LockLapses \/ (\E k \in Keys : TimeComes(k)) \/ UNCHANGED vars
            \/ \E n \in Readers : ReadVersion(n) \/ ReadRows(n) \/ FileActive(n) \/ FileJwks(n)
  <2>1. UNCHANGED <<status, task>>
    BY <1>12 DEF VersionExpires, LockLapses, TimeComes, vars, ReadVersion, ReadRows, FileActive,
                 FileJwks
  <2> QED BY <2>1 DEF HandsKnown
<1> QED BY <1>1, <1>3, <1>4, <1>5, <1>6, <1>7, <1>8, <1>9, <1>10, <1>11, <1>12 DEF Next

(* Every step keeps what PublishedBeforeSigning rests on.                   *)
LEMMA NextPub == KeyInv /\ KeyInv' /\ HandsKnown /\ PubInv /\ [Next]_vars => PubInv'
<1> SUFFICES ASSUME KeyInv, KeyInv', HandsKnown, PubInv, [Next]_vars PROVE PubInv'
  OBVIOUS
<1>a. /\ status \in [Keys -> Statuses] /\ status' \in [Keys -> Statuses]
      /\ task \in [Nodes -> Task] /\ task' \in [Nodes -> Task]
  BY DEF KeyInv, TypeOK
<1>b. ASSUME NEW n \in Nodes, NEW k \in Keys, NEW as \in {"pending", "active"}, NEW rest \in Task,
             rest.key = k, status[k] = "absent", task[n].at # "bump",
             Commit(n, [status EXCEPT ![k] = as], rest)
      PROVE  PubInv'
  <2> DEFINE rows == [status EXCEPT ![k] = as]
  <2>1. /\ rows \in [Keys -> Statuses] /\ rows[k] = as
        /\ \A j \in Keys \ {k} : rows[j] = status[j]
    BY <1>a DEF Statuses
  <2>2. Commit(n, rows, rest)
    BY <1>b
  <2> HIDE DEF rows
  <2>3. \A j \in Keys : /\ rows[j] = "absent" => status[j] = "absent"
                        /\ status[j] = "absent" /\ rows[j] # "absent" =>
                              rows[j] = "active" \/ (rows[j] = "pending" /\ rest.key = j)
                        /\ rows[j] = "active" /\ status[j] \notin {"absent", "active"} =>
                              task[n].at = "write" /\ j = task[n].key
    BY <1>b, <2>1
  <2> QED BY <1>b, <2>1, <2>2, <2>3, PubCommit
<1>c. ASSUME NEW n \in Nodes, NEW k \in Keys, NEW as \in {"retiring", "revoked"}, NEW rest \in Task,
             status[k] # "absent", task[n].at # "bump",
             Commit(n, [status EXCEPT ![k] = as], rest)
      PROVE  PubInv'
  <2> DEFINE rows == [status EXCEPT ![k] = as]
  <2>1. /\ rows \in [Keys -> Statuses] /\ rows[k] = as
        /\ \A j \in Keys \ {k} : rows[j] = status[j]
    BY <1>a DEF Statuses
  <2>2. Commit(n, rows, rest)
    BY <1>c
  <2> HIDE DEF rows
  <2>3. \A j \in Keys : /\ rows[j] = "absent" => status[j] = "absent"
                        /\ status[j] = "absent" /\ rows[j] # "absent" =>
                              rows[j] = "active" \/ (rows[j] = "pending" /\ rest.key = j)
                        /\ rows[j] = "active" /\ status[j] \notin {"absent", "active"} =>
                              task[n].at = "write" /\ j = task[n].key
    BY <1>c, <2>1
  <2> QED BY <1>c, <2>1, <2>2, <2>3, PubCommit
<1>d. ASSUME NEW n \in Nodes, task[n].at # "bump", task'[n].at \notin {"activate", "write"},
             \A m \in Nodes \ {n} : task'[m] = task[m],
             UNCHANGED <<status, cacheVars>>, hushed \subseteq hushed'
      PROVE  PubInv'
  BY <1>a, <1>d, PubMoves
<1>e. ASSUME NEW n \in Nodes, NEW k \in Keys, NEW next \in {"idle", "activate", "release"}
      PROVE  /\ [task[n] EXCEPT !.key = k, !.next = next] \in Task
             /\ [task[n] EXCEPT !.key = k, !.next = next].key = k
  <2>1. task[n] \in Task
    BY <1>a
  <2>2. [task[n] EXCEPT !.key = k, !.next = next] \in Task
    BY <2>1, ZenonT(40) DEF Task
  <2> QED BY <2>1, <2>2 DEF Task
<1>1. ASSUME NEW n \in Nodes, NEW k \in Keys, AdminCreate(n, k) \/ Rotate(n, k) PROVE PubInv'
  <2>1. PICK next \in {"idle", "activate", "release"} : Create(n, k, "pending", next)
    BY <1>1 DEF AdminCreate, Rotate
  <2>2. task[n].at # "bump"
    BY <1>1 DEF AdminCreate, Rotate
  <2> DEFINE q == [task[n] EXCEPT !.key = k, !.next = next]
  <2>3. Commit(n, [status EXCEPT ![k] = "pending"], q) /\ status[k] = "absent"
    BY <2>1 DEF Create
  <2>4. q \in Task /\ q.key = k
    BY <1>e
  <2> HIDE DEF q
  <2> QED BY <1>b, <2>2, <2>3, <2>4
<1>2. ASSUME NEW n \in Nodes, NEW k \in Keys, FirstKey(n, k) PROVE PubInv'
  <2>1. Create(n, k, "active", "release") /\ task[n].at # "bump"
    BY <1>2 DEF FirstKey
  <2> DEFINE q == [task[n] EXCEPT !.key = k, !.next = "release"]
  <2>2. Commit(n, [status EXCEPT ![k] = "active"], q) /\ status[k] = "absent"
    BY <2>1 DEF Create
  <2>3. q \in Task /\ q.key = k
    BY <1>e
  <2> HIDE DEF q
  <2> QED BY <1>b, <2>1, <2>2, <2>3
<1>3. ASSUME NEW n \in Nodes, NEW k \in Keys, MaintainRotate(n, k) PROVE PubInv'
  <2> DEFINE q == [task[n] EXCEPT !.key = k, !.turns = @ - 1, !.next = "activate"]
  <2>1. Commit(n, [status EXCEPT ![k] = "pending"], q) /\ status[k] = "absent" /\ task[n].at # "bump"
    BY <1>3 DEF MaintainRotate
  <2>2. q.key = k
    BY <1>a DEF Task
  <2>3. q \in Task
    <3>1. task[n] \in Task /\ task[n].turns \in Nat /\ task[n].turns > 0
      BY <1>3, <1>a DEF MaintainRotate, KeyInv, TasksInHand, Task
    <3>2. PICK g \in Task : g = [task[n] EXCEPT !.key = k, !.next = "activate"]
      BY <3>1 DEF Task
    <3>3. task[n].turns - 1 \in Nat
      BY <3>1
    <3>4. q = [g EXCEPT !.turns = task[n].turns - 1]
      BY <3>1, <3>2 DEF Task
    <3>5. [g EXCEPT !.turns = task[n].turns - 1] \in Task
      BY <3>3 DEF Task
    <3> QED BY <3>4, <3>5
  <2> HIDE DEF q
  <2> QED BY <1>b, <2>1, <2>2, <2>3
<1>4. ASSUME NEW n \in Nodes, NEW k \in Keys, AdminRevoke(n, k) PROVE PubInv'
  <2>1. /\ status[k] # "absent" /\ task[n].at # "bump" /\ task[n] \in Task
        /\ Commit(n, [status EXCEPT ![k] = "revoked"], task[n])
    BY <1>4, <1>a DEF AdminRevoke, Revoke
  <2> QED BY <1>c, <2>1
<1>5. ASSUME NEW n \in Nodes, RetireWrite(n) PROVE PubInv'
  <2>1. task[n].key \in Keys /\ task[n] \in Task /\ task[n].at # "bump"
    BY <1>5, <1>a DEF RetireWrite, KeyInv, TasksInHand
  <2>2. PICK k \in Keys : k = task[n].key
    BY <2>1
  <2>3. Commit(n, [status EXCEPT ![k] = "retiring"], task[n])
    BY <1>5, <2>2 DEF RetireWrite
  <2>4. status[k] # "absent"
    BY <2>2, KeysAssumption DEF HandsKnown, Handled
  <2> QED BY <1>c, <2>1, <2>3, <2>4
<1>6. ASSUME NEW n \in Nodes, MaintainRevoke(n) PROVE PubInv'
  <2>1. PICK k \in task[n].todo :
              Revoke(n, k, [task[n] EXCEPT !.todo = @ \ {k}, !.next = "maintain"])
    BY <1>6 DEF MaintainRevoke
  <2> DEFINE q == [task[n] EXCEPT !.todo = @ \ {k}, !.next = "maintain"]
  <2>2. k \in Keys /\ q \in Task /\ task[n].at # "bump"
    <3>1. task[n] \in Task /\ task[n].todo \in SUBSET Keys
      BY <1>a DEF Task
    <3>2. PICK d \in SUBSET Keys : d = task[n].todo \ {k}
      BY <3>1
    <3>3. PICK g \in Task : g = [task[n] EXCEPT !.todo = d]
      BY <3>1 DEF Task
    <3>4. [g EXCEPT !.next = "maintain"] \in Task
      BY DEF Task
    <3>5. q = [g EXCEPT !.next = "maintain"]
      BY <3>1, <3>2, <3>3
    <3> QED BY <1>6, <2>1, <3>1, <3>4, <3>5 DEF MaintainRevoke
  <2>3. Commit(n, [status EXCEPT ![k] = "revoked"], q)
    BY <2>1 DEF Revoke
  <2>4. status[k] # "absent"
    BY <2>1, <2>2, KeysAssumption DEF HandsKnown, Handled
  <2> HIDE DEF q
  <2> QED BY <1>c, <2>2, <2>3, <2>4
<1>7. ASSUME NEW n \in Nodes, ActivateWrite(n) PROVE PubInv'
  <2> DEFINE rows == [k \in Keys |-> IF k = task[n].key THEN "active"
                                     ELSE IF k \in task[n].others THEN "retiring" ELSE status[k]]
             rest == [task[n] EXCEPT !.next = IF task[n].turns > 0 THEN "rotate" ELSE "idle"]
  <2>1. task[n].at = "write" /\ task[n] \in Task
    BY <1>7, <1>a DEF ActivateWrite
  <2>2. CASE Commit(n, rows, rest)
    <3>1. rest \in Task
      BY <2>1 DEF Task
    <3>2. rows \in [Keys -> Statuses]
      BY <1>a DEF Statuses
    <3>3. \A k \in Keys : k \in {task[n].key} \cup task[n].others => status[k] # "absent"
      BY KeysAssumption DEF HandsKnown, Handled
    <3>5. \A k \in Keys : /\ rows[k] = "absent" => status[k] = "absent"
                          /\ status[k] = "absent" => rows[k] = "absent"
                          /\ rows[k] = "active" /\ status[k] # "active" => k = task[n].key
      BY <3>3
    <3> HIDE DEF rows, rest
    <3> QED BY <2>1, <2>2, <3>1, <3>2, <3>5, PubCommit
  <2>3. CASE task' = [task EXCEPT ![n] = Idle] /\ UNCHANGED <<status, cacheVars, historyVars>>
    BY <1>a, <1>d, <2>1, <2>3 DEF Idle
  <2> QED BY <1>7, <2>2, <2>3 DEF ActivateWrite
<1>8. ASSUME NEW n \in Nodes, NEW k \in Keys, AdminActivate(n, k) PROVE PubInv'
  <2>1. /\ UNCHANGED <<status, cacheVars>> /\ hushed \subseteq hushed'
        /\ status[k] # "absent" /\ task[n].at # "bump"
        /\ \A m \in Nodes \ {n} : task'[m] = task[m]
        /\ task'[n].at = "activate" /\ task'[n].key = k
    BY <1>8, <1>a DEF AdminActivate, Task
  <2>2. Missed(k) => status[k] = "revoked" \/ k \in hushed'
    BY <1>8, <2>1 DEF AdminActivate, PubInv, MissedIsKnown, Silent, Heralded
  <2> QED BY <1>a, <2>1, <2>2, PubMoves
<1>9. ASSUME NEW n \in Nodes, ActivateRead(n) PROVE PubInv'
  <2>1. /\ UNCHANGED <<status, cacheVars, hushed>> /\ task[n].at = "activate"
        /\ \A m \in Nodes \ {n} : task'[m] = task[m]
        /\ task'[n].at \in {"activate", "write"} => task'[n].key = task[n].key
    BY <1>9, <1>a DEF ActivateRead, Task, Idle
  <2>2. Missed(task[n].key) => Silent(task[n].key)
    BY <2>1 DEF PubInv, ActivatesKnown
  <2> QED BY <1>a, <2>1, <2>2, PubMoves DEF Silent
<1>10. ASSUME NEW n \in Nodes, BumpFails(n) PROVE PubInv'
  <2>1. /\ UNCHANGED <<status, cacheVars>> /\ hushed \subseteq hushed'
        /\ \A m \in Nodes \ {n} : task'[m] = task[m]
        /\ task'[n].at = "idle"
    BY <1>10, <1>a DEF BumpFails, Idle
  <2>2. \A k \in Keys : k = task[n].key /\ Heralded(k) => k \in hushed'
    BY <1>10 DEF BumpFails, Heralded
  <2> QED BY <1>a, <2>1, <2>2, PubMoves
<1>11. ASSUME NEW n \in Nodes,
              \/ \E k \in Keys : RetireRead(n, k)
              \/ MaintainList(n) \/ MaintainRotations(n)
              \/ EnsureStart(n) \/ EnsureLocked(n) \/ EnsureFound(n) \/ EnsureWaitedOut(n)
              \/ FirstKeyLost(n) \/ EnsureDone(n)
       PROVE  PubInv'
  <2>1. UNCHANGED <<status, cacheVars, hushed>> /\ task[n].at # "bump"
    BY <1>11 DEF RetireRead, MaintainList, MaintainRotations, EnsureStart, EnsureLocked,
                 EnsureFound, EnsureWaitedOut, FirstKeyLost, EnsureDone
  <2>2. /\ \A m \in Nodes \ {n} : task'[m] = task[m]
        /\ task'[n].at \in {"idle", "retire", "maintain", "rotate", "wait", "make", "release"}
    <3>5. CASE \E k \in Keys : RetireRead(n, k)
      BY <1>a, <3>5 DEF RetireRead, Task
    <3>1. CASE MaintainList(n)
      BY <1>a, <3>1 DEF MaintainList, Task
    <3>2. CASE MaintainRotations(n)
      BY <1>a, <3>2 DEF MaintainRotations, Task, Idle
    <3>3. CASE EnsureStart(n) \/ EnsureLocked(n) \/ EnsureFound(n) \/ EnsureWaitedOut(n)
      BY <1>a, <3>3 DEF EnsureStart, EnsureLocked, EnsureFound, EnsureWaitedOut, Task, Idle
    <3>4. CASE FirstKeyLost(n) \/ EnsureDone(n)
      BY <1>a, <3>4 DEF FirstKeyLost, EnsureDone, Task, Idle
    <3> QED BY <1>11, <3>1, <3>2, <3>3, <3>4, <3>5
  <2> QED BY <1>d, <2>1, <2>2
<1>12. CASE VersionExpires \/ \E n \in Nodes : Bump(n)
  BY <1>12, PubOrphan DEF VersionExpires, Bump
<1>14. CASE LockLapses \/ (\E k \in Keys : TimeComes(k)) \/ UNCHANGED vars
  <2>1. UNCHANGED <<status, cacheVars, task, hushed>>
    BY <1>14 DEF LockLapses, TimeComes, vars
  <2>2. CurrentViews' = CurrentViews
    BY <2>1 DEF CurrentViews, cacheVars
  <2>3. UNCHANGED <<status, task, hushed>>
    BY <2>1
  <2> QED BY <2>2, <2>3, PubViewsStay
<1>15. ASSUME NEW n \in Readers, ReadVersion(n) PROVE PubInv'
  <2>1. UNCHANGED <<status, task, hushed, signing, jwks>>
    BY <1>15 DEF ReadVersion
  <2>2. reading'[n].view = None /\ \A m \in Readers \ {n} : reading'[m] = reading[m]
    BY <1>15 DEF ReadVersion, KeyInv, TypeOK
  <2>3. CurrentViews' \subseteq CurrentViews
    BY <2>1, <2>2 DEF CurrentViews
  <2>4. UNCHANGED <<status, task, hushed>>
    BY <2>1
  <2> QED BY <2>3, <2>4, PubViewsStay
<1>16. ASSUME NEW n \in Readers, ReadRows(n) PROVE PubInv'
  <2>1. UNCHANGED <<status, task, hushed, signing, jwks>>
    BY <1>16 DEF ReadRows
  <2>2. PICK g \in Reading : g = reading[n]
    BY <1>16 DEF ReadRows, KeyInv, TypeOK
  <2>3. PICK v : v = [active |-> Found, keys |-> Published, rev |-> revision]
    OBVIOUS
  <2>4. reading'[n] = [g EXCEPT !.view = v] /\ \A m \in Readers \ {n} : reading'[m] = reading[m]
    BY <1>16, <2>2, <2>3 DEF ReadRows, KeyInv, TypeOK
  <2>5. reading'[n].view = v
    BY <2>2, <2>4 DEF Reading
  <2>6. \A u \in CurrentViews' : u \in CurrentViews \/ u = v
    <3> SUFFICES ASSUME NEW u \in CurrentViews', u # v PROVE u \in CurrentViews
      OBVIOUS
    <3>1. u # None /\ (u \in {signing[m] : m \in Readers} \cup {jwks}
                      \/ \E m \in Readers : reading'[m] # None /\ reading'[m].token = "current"
                                             /\ u = reading'[m].view)
      BY <2>1 DEF CurrentViews
    <3>2. ASSUME NEW m \in Readers, u = reading'[m].view PROVE reading'[m] = reading[m]
      BY <2>4, <2>5, <3>2
    <3> QED BY <3>1, <3>2 DEF CurrentViews
  <2>7. v.keys = Published /\ v.active = Found
    BY <2>3
  <2>8. \A u \in CurrentViews' : u \in CurrentViews \/ (u.keys = Published /\ u.active = Found)
    BY <2>6, <2>7
  <2>9. UNCHANGED <<status, task, hushed>>
    BY <2>1
  <2> QED BY <2>8, <2>9, PubViews
<1>17. ASSUME NEW n \in Readers, FileActive(n) \/ FileJwks(n) PROVE PubInv'
  <2>1. UNCHANGED <<status, task, hushed>>
    BY <1>17 DEF FileActive, FileJwks
  <2>2. reading'[n] = None /\ \A m \in Readers \ {n} : reading'[m] = reading[m]
    BY <1>17 DEF FileActive, FileJwks, KeyInv, TypeOK
  <2>3. reading[n] # None
    BY <1>17 DEF FileActive, FileJwks
  <2>4. /\ \A m \in Readers : signing'[m] = signing[m]
                             \/ (signing'[m] = reading[n].view /\ reading[n].token = "current")
        /\ jwks' = jwks \/ (jwks' = reading[n].view /\ reading[n].token = "current")
    <3>1. CASE FileActive(n)
      BY <3>1 DEF FileActive, KeyInv, TypeOK
    <3>2. CASE FileJwks(n)
      BY <3>2 DEF FileJwks
    <3> QED BY <1>17, <3>1, <3>2
  <2>5. CurrentViews' \subseteq CurrentViews
    BY <2>2, <2>3, <2>4 DEF CurrentViews
  <2> QED BY <2>1, <2>5, PubViewsStay
<1> QED BY <1>1, <1>2, <1>3, <1>4, <1>5, <1>6, <1>7, <1>8, <1>9, <1>10, <1>11, <1>12, <1>14,
           <1>15, <1>16, <1>17 DEF Next

(* What a node signs with is in the document under the same token, or was   *)
(* revoked since, or its publication was not announced:                     *)
(* PublishedBeforeSigning.                                                  *)
THEOREM SignedIsPublished == Spec => []PublishedBeforeSigning
<1>1. Init => PubInv /\ HandsKnown
  <2> SUFFICES ASSUME Init PROVE PubInv /\ HandsKnown
    OBVIOUS
  <2>1. CurrentViews = {}
    BY DEF Init, CurrentViews
  <2>2. HandsKnown
    BY DEF Init, HandsKnown, Handled, Idle
  <2> QED BY <2>1, <2>2 DEF PubInv, MissedIsKnown, ActivatesKnown, SignsKnown, Missed
<1>2. PubInv => PublishedBeforeSigning
  <2> SUFFICES ASSUME PubInv, NEW n \in Readers, signing[n] # None, jwks # None,
                      NEW k \in signing[n].active, k \notin jwks.keys
               PROVE  status[k] = "revoked" \/ k \in hushed
    BY DEF PublishedBeforeSigning
  <2>1. signing[n] \in CurrentViews /\ jwks \in CurrentViews
    BY DEF CurrentViews
  <2>2. Missed(k)
    BY <2>1 DEF Missed
  <2> QED BY <2>1, <2>2 DEF PubInv, SignsKnown, Silent
<1>3. KeyInv /\ KeyInv' /\ PubInv /\ HandsKnown /\ [Next]_vars => PubInv' /\ HandsKnown'
  BY NextHands, NextPub
<1> QED BY <1>1, <1>2, <1>3, KeysAgree, PTL DEF Spec

(* A revoked key comes back only by a change that read its row before it    *)
(* was revoked: RevokedStaysUnlessOverlapped.                               *)
THEOREM RevokedStays == Spec => RevokedStaysUnlessOverlapped
<1> DEFINE Revived(k) == status[k] = "revoked" /\ status'[k] # "revoked"
           ByOverlap(k) == \E n \in Nodes : /\ task[n].at \in {"write", "retire"}
                                            /\ k \in {task[n].key} \cup task[n].others
                                            /\ task[n].rev < revokedAt[k]
<1>1. ASSUME KeyInv, [Next]_vars PROVE [\A k \in Keys : Revived(k) => ByOverlap(k)]_vars
  <2> SUFFICES ASSUME Next, NEW k \in Keys, Revived(k) PROVE ByOverlap(k)
    BY <1>1
  <2>1. status \in [Keys -> Statuses]
    BY <1>1 DEF KeyInv, TypeOK
  <2>2. ASSUME NEW n \in Nodes, k \in Writes(task[n]) PROVE ByOverlap(k)
    BY <1>1, <2>2 DEF KeyInv, ReadUnrevoked, Writes
  <2>3. ASSUME NEW n \in Nodes, NEW j \in Keys, NEW as, NEW next, Create(n, j, as, next)
        PROVE  FALSE
    BY <2>1, <2>3 DEF Create, Commit
  <2>4. ASSUME NEW n \in Nodes, NEW j \in Keys, NEW rest, Revoke(n, j, rest) PROVE FALSE
    BY <2>1, <2>4 DEF Revoke, Commit
  <2>5. ASSUME NEW n \in Nodes, NEW j \in Keys,
               \/ AdminCreate(n, j) \/ Rotate(n, j) \/ FirstKey(n, j) \/ AdminRevoke(n, j)
        PROVE  FALSE
    BY <2>3, <2>4, <2>5 DEF AdminCreate, Rotate, FirstKey, AdminRevoke
  <2>6. ASSUME NEW n \in Nodes, NEW j \in Keys, MaintainRotate(n, j) PROVE FALSE
    BY <2>1, <2>6 DEF MaintainRotate, Commit
  <2>7. ASSUME NEW n \in Nodes, MaintainRevoke(n) PROVE FALSE
    <3>1. task[n].todo \subseteq Keys
      BY <1>1 DEF KeyInv, TypeOK, Task
    <3> QED BY <2>4, <2>7, <3>1 DEF MaintainRevoke
  <2>8. ASSUME NEW n \in Nodes, ActivateWrite(n) PROVE ByOverlap(k)
    <3>1. task[n].at = "write" /\ k \in {task[n].key} \cup task[n].others
      BY <2>1, <2>8 DEF ActivateWrite, Commit
    <3>2. k \in Writes(task[n])
      BY <3>1 DEF Writes
    <3> HIDE DEF ByOverlap
    <3> QED BY <2>2, <3>2
  <2>9. ASSUME NEW n \in Nodes, RetireWrite(n) PROVE ByOverlap(k)
    <3>1. task[n].at = "retire" /\ k = task[n].key
      BY <2>1, <2>9 DEF RetireWrite, Commit
    <3>2. k \in Writes(task[n])
      BY <3>1 DEF Writes
    <3> HIDE DEF ByOverlap
    <3> QED BY <2>2, <3>2
  <2>10. status' # status
    OBVIOUS
  <2>11. \/ \E n \in Nodes, j \in Keys :
              \/ AdminCreate(n, j) \/ Rotate(n, j) \/ FirstKey(n, j) \/ AdminRevoke(n, j)
              \/ MaintainRotate(n, j)
         \/ \E n \in Nodes : MaintainRevoke(n) \/ ActivateWrite(n) \/ RetireWrite(n)
    BY <2>10 DEF Next, AdminActivate, RetireRead, ActivateRead, MaintainList, MaintainRotations,
                 EnsureStart, EnsureLocked, EnsureFound, EnsureWaitedOut, FirstKeyLost, EnsureDone,
                 Bump, BumpFails, ReadVersion, ReadRows, FileActive, FileJwks, LockLapses,
                 VersionExpires, TimeComes
  <2> HIDE DEF ByOverlap
  <2> QED BY <2>5, <2>6, <2>7, <2>8, <2>9, <2>11
<1> QED BY <1>1, KeysAgree, PTL DEF Spec, RevokedStaysUnlessOverlapped

-----------------------------------------------------------------------------
HIDE DEF historyVars

(* Master keys.  The theorems assume MasterKeysAssumption of the instance.  *)

CONSTANTS Stopped, Writers, Passes, NRows, EnvVersion, Batch, MaxVersion, MaxStops
VARIABLES node, table, maker, rows, writer, pass, retired, stops, latest, crossed
Master == INSTANCE MasterKeys

(* The generations there are, and their keys.                               *)
Gens == {EnvVersion} \cup table
KmsKeys == {Master!KmsKey(v) : v \in table}
GenKeys == {Master!EnvKey} \cup KmsKeys

(* New generations are numbered past MASTER_KEY's.                          *)
TableInv == table \subseteq (EnvVersion + 1)..MaxVersion /\ (retired => table # {})

(* A row's column is not ahead of its key, and once MASTER_KEY is gone no   *)
(* row is under it.                                                         *)
RowsInv ==
    /\ rows \in [Master!Rows -> [col : Gens, key : GenKeys, secret : Nat]]
    /\ \A r \in Master!Rows : /\ rows[r].col <= rows[r].key.ver
                              /\ retired => rows[r].key # Master!EnvKey

(* The current key of a process is the newest it holds, and past MASTER_KEY *)
(* once that is gone.                                                       *)
NodeShape == [at : {"down", "first", "check", "up"}, env : SUBSET {EnvVersion},
              wrapped : BOOLEAN, known : SUBSET GenKeys, current : Nat]
NodeOK(nd) ==
    /\ nd \in NodeShape
    /\ \A k \in nd.known : k.ver <= nd.current
    /\ nd.at \in {"check", "up"} => \E k \in nd.known : k.ver = nd.current
    /\ nd.at = "first" => nd.known \subseteq {Master!EnvKey}
    /\ retired /\ nd.at # "down" => nd.current > EnvVersion
NodesInv == node \in [Nodes -> NodeShape] /\ \A n \in Nodes : NodeOK(node[n])

(* A generation to be made is past MASTER_KEY's, and its maker is there.    *)
MakerInv ==
    maker # None =>
      /\ maker \in [node : Nodes, force : BOOLEAN, ver : (EnvVersion + 1)..MaxVersion]
      /\ node[maker.node].at = IF maker.force THEN "up" ELSE "first"

(* A secret to be stored is sealed with a key there is.                     *)
WriterShape == {Master!Idle, Master!Ended}
                 \cup [at : {"sealed"}, node : Nodes, row : Master!Rows, key : GenKeys]
WritersInv ==
    /\ writer \in [Writers -> WriterShape]
    /\ \A w \in Writers : retired /\ Master!Running(writer[w]) => writer[w].key # Master!EnvKey

(* A pass runs on a process that is up and no older than its target; what   *)
(* it has sealed is under a key of the table, at or past the target.        *)
Sealed == UNION {[D -> [key : KmsKeys, secret : Nat]] : D \in SUBSET Master!Rows}
PassShape ==
    {Master!Idle, Master!Ended}
      \cup [at : {"versions", "done"}, node : Nodes, target : Gens, failed : SUBSET Master!Rows,
            touched : SUBSET Master!Rows]
      \cup [at : {"read"}, node : Nodes, target : Gens, failed : SUBSET Master!Rows,
            touched : SUBSET Master!Rows, versions : SUBSET Gens, after : 0..NRows]
      \cup [at : {"write"}, node : Nodes, target : Gens, failed : SUBSET Master!Rows,
            touched : SUBSET Master!Rows, versions : SUBSET Gens, version : Gens,
            after : 0..NRows, full : BOOLEAN, sealed : Sealed]
PassOK(ps) ==
    /\ ps \in PassShape
    /\ ps \notin {Master!Idle, Master!Ended} =>
         node[ps.node].at = "up" /\ ps.target <= node[ps.node].current
    /\ ps.at \in {"read", "write"} => ps.versions # {} /\ ps.target \notin ps.versions
    /\ ps.at = "write" => /\ ps.version = Master!Min(ps.versions)
                          /\ \A r \in DOMAIN ps.sealed : ps.target <= ps.sealed[r].key.ver
PassesInv == pass \in [Passes -> PassShape] /\ \A p \in Passes : PassOK(pass[p])

MasterInv == TableInv /\ RowsInv /\ NodesInv /\ MakerInv /\ WritersInv /\ PassesInv

(* How many secrets were stored in each row.                                *)
LatestInv == latest \in [Master!Rows -> Nat]

(* A copy of a row that is not crossed is of what was stored last, or lacks *)
(* the column it is to be written under, which was behind its pass's target.*)
Outdated(p, r) ==
    /\ pass[p].at = "write" /\ r \in DOMAIN pass[p].sealed
    /\ pass[p].sealed[r].secret # latest[r]
SecretsInv ==
    \A r \in Master!Rows \ crossed :
      /\ rows[r].secret = latest[r]
      /\ \A p \in Passes : Outdated(p, r) => /\ pass[p].version < pass[p].target
                                             /\ rows[r].col # pass[p].version

(* A row that a pass has still to move is under a version it has still to   *)
(* visit, past its cursor or in its hands.                                  *)
Owed(p, r) ==
    /\ rows[r].key.ver < pass[p].target
    /\ r \notin pass[p].failed \cup pass[p].touched
Ahead(ps, r) ==
    /\ ps.at # "done" /\ rows[r].col \in ps.versions
    /\ ps.at = "read" /\ rows[r].col = Master!Min(ps.versions) => r > ps.after
    /\ ps.at = "write" /\ rows[r].col = ps.version =>
         r \in DOMAIN ps.sealed \/ (ps.full /\ r > ps.after)
ScanInv ==
    \A p \in Passes, r \in Master!Rows :
      pass[p].at \in {"read", "write", "done"} /\ Owed(p, r) => Ahead(pass[p], r)

(* A set of numbers has a least one.                                        *)
LEMMA LeastOf == ASSUME NEW S \in SUBSET Nat, S # {}
                 PROVE  \E m \in S : \A t \in S : m <= t
<1> DEFINE R == OpToRel(<, Nat)
<1>1. \A x, y \in Nat : <<y, x>> \in R <=> y < x
  BY DEF OpToRel
<1>2. IsWellFoundedOn(R, Nat)
  BY NatLessThanWellFounded, Zenon
<1> HIDE DEF R
<1>3. PICK m \in S : \A t \in S : ~ (<<t, m>> \in R)
  BY <1>2, WFMin
<1>4. \A t \in S : ~ (t < m)
  BY <1>1, <1>3
<1> QED BY <1>3, <1>4

(* The least of a set of numbers.                                           *)
LEMMA MinOf == ASSUME NEW S \in SUBSET Nat, S # {}
               PROVE  Master!Min(S) \in S /\ \A t \in S : Master!Min(S) <= t
<1>1. \E m \in S : \A t \in S : m <= t
  BY LeastOf
<1> QED BY <1>1 DEF Master!Min

(* The greatest of a bounded set of numbers.                                *)
LEMMA MaxOf == ASSUME NEW S \in SUBSET Nat, S # {}, NEW b \in Nat, \A t \in S : t <= b
               PROVE  Master!Max(S) \in S /\ \A t \in S : t <= Master!Max(S)
<1> DEFINE T == {b - t : t \in S}
<1>1. T \in SUBSET Nat /\ T # {}
  <2>1. \A t \in S : b - t \in Nat
    OBVIOUS
  <2>2. T # {}
    OBVIOUS
  <2> QED BY <2>1, <2>2
<1> HIDE DEF T
<1>2. PICK m \in T : \A t \in T : m <= t
  BY <1>1, LeastOf
<1>3. PICK s \in S : m = b - s
  BY <1>2 DEF T
<1>4. \A t \in S : t <= s
  <2> SUFFICES ASSUME NEW t \in S PROVE t <= s
    OBVIOUS
  <2>1. b - t \in T
    BY DEF T
  <2>2. m <= b - t
    BY <1>2, <2>1
  <2> QED BY <1>3, <2>2
<1>5. \E x \in S : \A y \in S : x >= y
  BY <1>3, <1>4
<1> QED BY <1>5 DEF Master!Max

(* To begin with, everything is under MASTER_KEY.                           *)
LEMMA InitMaster == ASSUME Master!MasterKeysAssumption PROVE Master!Init => MasterInv
<1> SUFFICES ASSUME Master!Init PROVE MasterInv
  OBVIOUS
<1> USE DEF Master!MasterKeysAssumption
<1>1. TableInv
  BY DEF Master!Init, TableInv
<1>2. RowsInv
  BY DEF Master!Init, RowsInv, Gens, GenKeys, KmsKeys, Master!EnvKey
<1>3. NodesInv
  <2> SUFFICES ASSUME NEW n \in Nodes PROVE NodeOK(node[n])
    BY DEF Master!Init, NodesInv, NodeOK
  <2>1. CASE n \in Stopped
    <3>1. node[n] = [at |-> "down", env |-> {EnvVersion}, wrapped |-> FALSE, known |-> {},
                     current |-> EnvVersion]
      BY <2>1 DEF Master!Init
    <3> QED BY <3>1 DEF NodeOK, NodeShape, Master!Init
  <2>2. CASE n \notin Stopped
    <3>1. node[n] = [at |-> "up", env |-> {EnvVersion}, wrapped |-> FALSE,
                     known |-> {Master!EnvKey}, current |-> EnvVersion]
      BY <2>2 DEF Master!Init
    <3>2. Master!EnvKey.ver = EnvVersion /\ {Master!EnvKey} \subseteq GenKeys
      BY DEF Master!EnvKey, GenKeys
    <3> QED BY <3>1, <3>2 DEF NodeOK, NodeShape, Master!Init
  <2> QED BY <2>1, <2>2
<1>4. MakerInv
  BY DEF Master!Init, MakerInv
<1>5. WritersInv
  BY DEF Master!Init, WritersInv, WriterShape, Master!Running
<1>6. PassesInv
  BY DEF Master!Init, PassesInv, PassOK, PassShape, Master!Idle, Master!Ended
<1> QED BY <1>1, <1>2, <1>3, <1>4, <1>5, <1>6 DEF MasterInv

(* ... and no secret was stored yet.                                        *)
LEMMA InitLatest == ASSUME Master!MasterKeysAssumption
                    PROVE  Master!Init => MasterInv /\ LatestInv
<1>1. Master!Init => LatestInv
  BY DEF Master!Init, LatestInv
<1> QED BY <1>1, InitMaster

(* The keys there are go by their numbers.                                  *)
LEMMA KeyFacts ==
    ASSUME Master!MasterKeysAssumption, TableInv
    PROVE  /\ EnvVersion \in Nat /\ MaxVersion \in Nat /\ NRows \in Nat /\ NRows > 0
           /\ EnvVersion \notin table /\ Gens \subseteq Nat
           /\ \A v \in table : v \in Nat /\ v > EnvVersion /\ v <= MaxVersion
           /\ \A v \in Gens : v >= EnvVersion /\ v <= EnvVersion + MaxVersion
           /\ Master!EnvKey.ver = EnvVersion
           /\ \A v : Master!KmsKey(v).ver = v
           /\ \A k \in GenKeys : k.ver \in Gens /\ (k \notin KmsKeys => k = Master!EnvKey)
           /\ \A k \in KmsKeys : k \in GenKeys /\ k.ver \in table /\ k # Master!EnvKey
           /\ \A k \in GenKeys : k.ver > EnvVersion => k \in KmsKeys
<1>1. EnvVersion \in Nat /\ MaxVersion \in Nat /\ NRows \in Nat /\ NRows > 0
  BY DEF Master!MasterKeysAssumption
<1>2. \A v \in table : v \in Nat /\ v > EnvVersion /\ v <= MaxVersion
  BY <1>1 DEF TableInv
<1>3. Master!EnvKey.ver = EnvVersion /\ \A v : Master!KmsKey(v).ver = v
  BY DEF Master!EnvKey, Master!KmsKey
<1>4. \A v \in Gens : v \in Nat /\ v >= EnvVersion /\ v <= EnvVersion + MaxVersion
  BY <1>1, <1>2 DEF Gens
<1>5. \A k \in KmsKeys : k.ver \in table
  BY <1>3 DEF KmsKeys
<1>6. EnvVersion \notin table
  BY <1>1, <1>2
<1>7. \A k \in GenKeys : k.ver \in Gens /\ (k \notin KmsKeys => k = Master!EnvKey)
  BY <1>3, <1>5 DEF GenKeys, Gens
<1>8. \A k \in KmsKeys : k \in GenKeys /\ k # Master!EnvKey
  BY <1>3, <1>5, <1>6 DEF GenKeys
<1>9. \A k \in GenKeys : k.ver > EnvVersion => k \in KmsKeys
  BY <1>1, <1>3, <1>7
<1> QED BY <1>1, <1>2, <1>3, <1>4, <1>5, <1>6, <1>7, <1>8, <1>9

(* Loading keeps a process's current key the newest it holds.               *)
LEMMA LoadedKeys ==
    ASSUME Master!MasterKeysAssumption, MasterInv, NEW n \in Nodes, NEW vs,
           NEW nd \in Master!Outcomes(n, vs)
    PROVE  /\ nd \in NodeShape
           /\ nd.at = node[n].at /\ nd.env = node[n].env /\ nd.wrapped = node[n].wrapped
           /\ nd.current >= node[n].current
           /\ node[n].known \subseteq nd.known
           /\ \A k \in nd.known : k.ver <= nd.current
           /\ node[n].at # "first" => NodeOK(nd)
<1>1. PICK got \in SUBSET vs : nd = Master!Loaded(node[n], got)
  BY DEF Master!Outcomes
<1> DEFINE fresh == IF node[n].wrapped THEN (got \cap table) \ Master!Versions(node[n]) ELSE {}
           new == {Master!KmsKey(v) : v \in fresh}
           S == fresh \cup {node[n].current}
<1>2. nd = [node[n] EXCEPT !.known = node[n].known \cup new, !.current = Master!Max(S)]
  BY <1>1 DEF Master!Loaded
<1>3. NodeOK(node[n]) /\ node[n] \in NodeShape
  BY DEF MasterInv, NodesInv
<1>4. node[n].current \in Nat /\ node[n].known \subseteq GenKeys
  BY <1>3 DEF NodeShape
<1>5. fresh \subseteq table
  OBVIOUS
<1> HIDE DEF fresh
<1>6. /\ MaxVersion \in Nat /\ EnvVersion \in Nat /\ \A v : Master!KmsKey(v).ver = v
      /\ \A v \in table : v \in Nat /\ v <= MaxVersion
  BY KeyFacts DEF MasterInv
<1>7. S \in SUBSET Nat /\ S # {} /\ \A t \in S : t <= MaxVersion + node[n].current
  BY <1>4, <1>5, <1>6
<1>8. MaxVersion + node[n].current \in Nat
  BY <1>4, <1>6
<1>9. Master!Max(S) \in S /\ \A t \in S : t <= Master!Max(S)
  <2> HIDE DEF S
  <2> QED BY <1>7, <1>8, MaxOf
<1>10. new \subseteq GenKeys
  BY <1>5 DEF GenKeys, KmsKeys
<1> DEFINE m == Master!Max(S)
<1>11. m \in Nat /\ m >= node[n].current /\ \A v \in fresh : v <= m
  BY <1>7, <1>9
<1>12. m = node[n].current \/ m \in fresh
  BY <1>9
<1> HIDE DEF m, S
<1>13. nd = [node[n] EXCEPT !.known = node[n].known \cup new, !.current = m]
  BY <1>2 DEF m
<1>14. \A k \in new : k.ver \in fresh
  BY <1>6
<1>15. m \in fresh => \E k \in new : k.ver = m
  <2> SUFFICES ASSUME m \in fresh PROVE \E k \in new : k.ver = m
    OBVIOUS
  <2> WITNESS Master!KmsKey(m) \in new
  <2> QED BY <1>6
<1> HIDE DEF new
<1>16. /\ nd \in NodeShape /\ nd.at = node[n].at /\ nd.env = node[n].env
       /\ nd.wrapped = node[n].wrapped /\ nd.known = node[n].known \cup new /\ nd.current = m
  BY <1>3, <1>10, <1>11, <1>13 DEF NodeShape
<1>17. \A k \in node[n].known : k.ver \in Nat /\ k.ver <= node[n].current
  BY <1>3, <1>4, KeyFacts DEF NodeOK, MasterInv
<1>18. \A k \in nd.known : k.ver <= nd.current
  BY <1>4, <1>11, <1>14, <1>16, <1>17
<1>19. node[n].at # "first" => NodeOK(nd)
  <2> SUFFICES ASSUME node[n].at # "first" PROVE NodeOK(nd)
    OBVIOUS
  <2>1. nd.at \in {"check", "up"} => \E k \in nd.known : k.ver = nd.current
    BY <1>3, <1>12, <1>15, <1>16 DEF NodeOK
  <2>2. retired /\ nd.at # "down" => nd.current > EnvVersion
    BY <1>3, <1>4, <1>6, <1>11, <1>16 DEF NodeOK
  <2> QED BY <1>16, <1>18, <2>1, <2>2 DEF NodeOK
<1> QED BY <1>11, <1>16, <1>18, <1>19

(* A step of one process that stays up, or was not.                         *)
LEMMA NodeStep ==
    ASSUME Master!MasterKeysAssumption, MasterInv, NEW n \in Nodes, NEW nd, NodeOK(nd),
           node' = [node EXCEPT ![n] = nd], UNCHANGED <<table, retired>>,
           node[n].at = "up" => nd.at = "up" /\ nd.current >= node[n].current
    PROVE  /\ TableInv' /\ NodesInv'
           /\ UNCHANGED rows => RowsInv'
           /\ UNCHANGED writer => WritersInv'
           /\ UNCHANGED maker /\ (maker # None /\ maker.node = n => nd.at = node[n].at)
                => MakerInv'
           /\ \A p \in Passes : pass'[p] = pass[p] => PassOK(pass[p])'
<1> USE DEF MasterInv
<1>1. TableInv'
  BY DEF TableInv
<1>2. Gens' = Gens /\ KmsKeys' = KmsKeys /\ GenKeys' = GenKeys
  BY DEF Gens, KmsKeys, GenKeys
<1>3. NodesInv'
  <2>1. \A m \in Nodes : NodeOK(node'[m])
    BY DEF NodesInv
  <2>2. \A m \in Nodes : NodeOK(node[m])'
    BY <1>2, <2>1 DEF NodeOK, NodeShape
  <2>3. node' \in [Nodes -> NodeShape']
    BY <1>2 DEF NodeOK, NodesInv, NodeShape
  <2> QED BY <2>2, <2>3 DEF NodesInv
<1>4. UNCHANGED rows => RowsInv'
  BY <1>2 DEF RowsInv
<1>5. UNCHANGED writer => WritersInv'
  BY <1>2 DEF WritersInv, WriterShape
<1>6. UNCHANGED maker /\ (maker # None /\ maker.node = n => nd.at = node[n].at) => MakerInv'
  BY DEF MakerInv, NodesInv
<1>7. \A p \in Passes : pass'[p] = pass[p] => PassOK(pass[p])'
  <2> SUFFICES ASSUME NEW p \in Passes, pass'[p] = pass[p] PROVE PassOK(pass[p])'
    OBVIOUS
  <2>1. PassShape' = PassShape
    BY <1>2 DEF PassShape, Sealed
  <2>2. PassOK(pass[p]) /\ pass[p] \in PassShape
    BY DEF PassesInv
  <2>3. pass[p] \notin {Master!Idle, Master!Ended} =>
           node'[pass[p].node].at = "up" /\ pass[p].target <= node'[pass[p].node].current
    <3> SUFFICES ASSUME pass[p] \notin {Master!Idle, Master!Ended}
                 PROVE  node'[pass[p].node].at = "up"
                          /\ pass[p].target <= node'[pass[p].node].current
      OBVIOUS
    <3>1. pass[p].node \in Nodes /\ pass[p].target \in Gens
      BY <2>2 DEF PassShape
    <3>2. node[pass[p].node].at = "up" /\ pass[p].target <= node[pass[p].node].current
      BY <2>2 DEF PassOK
    <3>3. node[pass[p].node].current \in Nat /\ nd.current \in Nat /\ pass[p].target \in Nat
      BY <3>1, KeyFacts DEF NodesInv, NodeOK, NodeShape
    <3> QED BY <3>1, <3>2, <3>3 DEF NodesInv
  <2> QED BY <2>1, <2>2, <2>3 DEF PassOK
<1> QED BY <1>1, <1>3, <1>4, <1>5, <1>6, <1>7

(* The passes are in order when each of them is.                            *)
LEMMA PassesFrom == ASSUME DOMAIN pass' = Passes, pass' = [p \in Passes |-> pass'[p]],
                           \A p \in Passes : PassOK(pass[p])'
                    PROVE  PassesInv'
<1>1. \A p \in Passes : pass'[p] \in PassShape'
  BY DEF PassOK
<1>2. pass' \in [Passes -> PassShape']
  BY <1>1
<1> QED BY <1>2 DEF PassesInv

(* Keys are loaded: by the minute, or for a secret that is read.            *)
LEMMA MasterLoads ==
    ASSUME Master!MasterKeysAssumption, MasterInv, NEW n \in Nodes, NEW vs, node[n].at = "up",
           NEW nd \in Master!Outcomes(n, vs), node' = [node EXCEPT ![n] = nd],
           UNCHANGED <<table, maker, rows, writer, pass, retired>>
    PROVE  MasterInv'
<1>1. /\ NodeOK(nd) /\ nd.at = node[n].at /\ nd.current >= node[n].current
  BY LoadedKeys
<1>2. \A p \in Passes : PassOK(pass[p])'
  BY <1>1, NodeStep
<1>3. PassesInv'
  BY <1>2, PassesFrom DEF MasterInv, PassesInv
<1> QED BY <1>1, <1>3, NodeStep DEF MasterInv

(* A process that stops takes its requests and passes with it.              *)
LEMMA MasterStop == ASSUME Master!MasterKeysAssumption, MasterInv, NEW n \in Nodes, Master!Stop(n)
                    PROVE  MasterInv'
<1> USE DEF MasterInv
<1> DEFINE nd == [node[n] EXCEPT !.at = "down", !.known = {}]
<1>1. node' = [node EXCEPT ![n] = nd] /\ UNCHANGED <<table, rows, retired>>
  BY DEF Master!Stop
<1>2. Gens' = Gens /\ KmsKeys' = KmsKeys /\ GenKeys' = GenKeys
  BY <1>1 DEF Gens, KmsKeys, GenKeys
<1>3. node[n] \in NodeShape
  BY DEF NodesInv
<1>4. NodeOK(nd)
  BY <1>3 DEF NodeOK, NodeShape
<1> HIDE DEF nd
<1>5. NodesInv'
  <2>1. \A m \in Nodes : NodeOK(node'[m])
    BY <1>1, <1>4 DEF NodesInv
  <2>2. \A m \in Nodes : NodeOK(node[m])'
    BY <1>1, <1>2, <2>1 DEF NodeOK, NodeShape
  <2>3. node' \in [Nodes -> NodeShape']
    BY <1>1, <1>2, <1>4 DEF NodeOK, NodesInv, NodeShape
  <2> QED BY <2>2, <2>3 DEF NodesInv
<1>6. TableInv' /\ RowsInv'
  BY <1>1, <1>2 DEF TableInv, RowsInv
<1>7. MakerInv'
  BY <1>1 DEF MakerInv, NodesInv, Master!Stop
<1>8. WritersInv'
  BY <1>1, <1>2 DEF WritersInv, WriterShape, Master!Running, Master!Stop
<1>9. \A p \in Passes : PassOK(pass[p])'
  <2> SUFFICES ASSUME NEW p \in Passes PROVE PassOK(pass[p])'
    OBVIOUS
  <2>1. PassShape' = PassShape
    BY <1>2 DEF PassShape, Sealed
  <2>2. CASE pass'[p] = Master!Ended
    BY <2>1, <2>2 DEF PassOK, PassShape, Master!Ended
  <2>3. CASE pass'[p] # Master!Ended
    <3>1. pass'[p] = pass[p] /\ (Master!Running(pass[p]) => pass[p].node # n)
      BY <2>3 DEF Master!Stop
    <3>2. PassOK(pass[p])
      BY DEF PassesInv
    <3>3. pass[p] \notin {Master!Idle, Master!Ended} =>
            /\ pass[p].node \in Nodes /\ pass[p].node # n
      BY <3>1, <3>2 DEF PassOK, PassShape, Master!Running
    <3>4. pass[p] \notin {Master!Idle, Master!Ended} => node'[pass[p].node] = node[pass[p].node]
      BY <1>1, <3>3 DEF NodesInv
    <3> QED BY <2>1, <3>1, <3>2, <3>4 DEF PassOK
  <2> QED BY <2>2, <2>3
<1>10. PassesInv'
  BY <1>9, PassesFrom DEF Master!Stop
<1> QED BY <1>5, <1>6, <1>7, <1>8, <1>10

(* Attaching: the newest generation is loaded, or there is none yet.        *)
LEMMA MasterAttach == ASSUME Master!MasterKeysAssumption, MasterInv, NEW n \in Nodes,
                             NEW env \in {{}, {EnvVersion}}, Master!Attach(n, env)
                      PROVE  MasterInv'
<1> USE DEF MasterInv
<1> DEFINE newest == Master!Max(table)
<1>1. PICK loaded \in SUBSET table :
        /\ loaded = table \/ newest \in loaded
        /\ node' = [node EXCEPT ![n] =
              [at |-> IF table = {} THEN "first" ELSE "check", env |-> env, wrapped |-> TRUE,
               known |-> {k \in {Master!EnvKey} : k.ver \in env}
                           \cup {Master!KmsKey(v) : v \in loaded},
               current |-> IF table = {} THEN Master!Max(env \cup {0}) ELSE newest]]
  BY DEF Master!Attach
<1> DEFINE known == {k \in {Master!EnvKey} : k.ver \in env}
                      \cup {Master!KmsKey(v) : v \in loaded}
           current == IF table = {} THEN Master!Max(env \cup {0}) ELSE newest
           nd == [at |-> IF table = {} THEN "first" ELSE "check", env |-> env, wrapped |-> TRUE,
                  known |-> known, current |-> current]
<1>2. node' = [node EXCEPT ![n] = nd] /\ UNCHANGED <<table, maker, rows, writer, pass, retired>>
  BY <1>1 DEF Master!Attach
<1>3. known \subseteq GenKeys /\ (table = {} => known \subseteq {Master!EnvKey})
  BY <1>1 DEF GenKeys, KmsKeys
<1>4. /\ EnvVersion \in Nat /\ MaxVersion \in Nat /\ Master!EnvKey.ver = EnvVersion
      /\ \A v : Master!KmsKey(v).ver = v
      /\ \A v \in table : v \in Nat /\ v > EnvVersion /\ v <= MaxVersion
  BY KeyFacts
<1>5. table # {} => newest \in table /\ \A v \in table : v <= newest
  BY <1>4, MaxOf
<1>6. /\ Master!Max(env \cup {0}) \in env \cup {0}
      /\ \A v \in env \cup {0} : v <= Master!Max(env \cup {0})
  <2> DEFINE S == env \cup {0}
  <2>1. S \in SUBSET Nat /\ S # {} /\ \A t \in S : t <= EnvVersion
    BY <1>4
  <2> HIDE DEF S
  <2>2. Master!Max(S) \in S /\ \A v \in S : v <= Master!Max(S)
    BY <1>4, <2>1, MaxOf
  <2> QED BY <2>2 DEF S
<1>7. current \in Nat /\ (table # {} => current > EnvVersion)
  BY <1>4, <1>5, <1>6
<1>8. \A k \in known : k.ver <= current
  <2>1. CASE table = {}
    <3>1. \A k \in known : k.ver \in env
      BY <1>1, <2>1
    <3> QED BY <1>6, <2>1, <3>1
  <2>2. CASE table # {}
    <3>1. \A k \in known : k.ver = EnvVersion \/ k.ver \in table
      BY <1>1, <1>4
    <3>2. newest \in Nat /\ EnvVersion <= newest
      BY <1>4, <1>5, <2>2
    <3> QED BY <1>4, <1>5, <2>2, <3>1, <3>2
  <2> QED BY <2>1, <2>2
<1>9. table # {} => \E k \in known : k.ver = current
  <2> SUFFICES ASSUME table # {} PROVE \E k \in known : k.ver = current
    OBVIOUS
  <2>1. newest \in loaded
    BY <1>1, <1>5
  <2>2. Master!KmsKey(newest) \in known /\ Master!KmsKey(newest).ver = current
    BY <1>4, <2>1
  <2> QED BY <2>2
<1>10. retired => table # {}
  BY DEF TableInv
<1> HIDE DEF known, current
<1>11. NodeOK(nd)
  BY <1>3, <1>7, <1>8, <1>9, <1>10 DEF NodeOK, NodeShape
<1>12. node[n].at = "down" /\ (maker # None => maker.node # n)
  BY DEF Master!Attach, MakerInv
<1> HIDE DEF nd
<1>13. \A p \in Passes : PassOK(pass[p])'
  BY <1>2, <1>11, <1>12, NodeStep
<1>14. PassesInv'
  BY <1>2, <1>13, PassesFrom DEF PassesInv
<1> QED BY <1>2, <1>11, <1>12, <1>14, NodeStep

(* A process that passes the check is up with its newest key.               *)
LEMMA MasterCheck == ASSUME Master!MasterKeysAssumption, MasterInv, NEW n \in Nodes,
                            Master!Check(n)
                     PROVE  MasterInv'
<1> USE DEF MasterInv
<1> DEFINE cols == {rows[r].col : r \in Master!Rows}
           vers(sample) == {rows[sample[v]].key.ver : v \in cols}
           failed(sample, md) ==
             {v \in cols : ~ Master!Opens(md, rows[sample[v]].key)}
           ends(sample, md) == md.current \in failed(sample, md) \/ failed(sample, md) = cols
           after(md, fatal) == [md EXCEPT !.at = IF fatal THEN "down" ELSE "up",
                                          !.known = IF fatal THEN {} ELSE @]
<1>a. PICK sample \in [cols -> Master!Rows] :
        \E md \in Master!Outcomes(n, vers(sample)) :
          node' = [node EXCEPT ![n] = after(md, ends(sample, md))]
  BY DEF Master!Check
<1> HIDE DEF vers, ends
<1>b. PICK md \in Master!Outcomes(n, vers(sample)) :
        node' = [node EXCEPT ![n] = after(md, ends(sample, md))]
  BY <1>a
<1>c. PICK fatal \in BOOLEAN : node' = [node EXCEPT ![n] = after(md, fatal)]
  <2>1. CASE ends(sample, md)
    <3>1. after(md, ends(sample, md)) = after(md, TRUE)
      BY <2>1
    <3> QED BY <1>b, <3>1
  <2>2. CASE ~ ends(sample, md)
    <3>1. after(md, ends(sample, md)) = after(md, FALSE)
      BY <2>2
    <3> QED BY <1>b, <3>1
  <2> QED BY <2>1, <2>2
<1>1. node' = [node EXCEPT ![n] = [md EXCEPT !.at = IF fatal THEN "down" ELSE "up",
                                             !.known = IF fatal THEN {} ELSE md.known]]
  BY <1>c
<1> DEFINE nd == [md EXCEPT !.at = IF fatal THEN "down" ELSE "up",
                            !.known = IF fatal THEN {} ELSE md.known]
<1>2. /\ node' = [node EXCEPT ![n] = nd] /\ node[n].at = "check"
      /\ UNCHANGED <<table, maker, rows, writer, pass, retired>>
  BY <1>1 DEF Master!Check
<1>3. NodeOK(md) /\ md.at = "check" /\ md \in NodeShape
  BY <1>2, LoadedKeys
<1>4. NodeOK(nd)
  BY <1>3 DEF NodeOK, NodeShape
<1>5. maker # None => maker.node # n
  BY <1>2 DEF MakerInv
<1> HIDE DEF nd
<1>6. \A p \in Passes : PassOK(pass[p])'
  BY <1>2, <1>4, NodeStep
<1>7. PassesInv'
  BY <1>2, <1>6, PassesFrom DEF PassesInv
<1> QED BY <1>2, <1>4, <1>5, <1>7, NodeStep

(* MASTER_KEY goes when no row is under it: a row's key is not behind its   *)
(* column.                                                                  *)
LEMMA MasterRetire == ASSUME Master!MasterKeysAssumption, MasterInv, Master!Retire
                      PROVE  MasterInv'
<1> USE DEF MasterInv
<1>1. UNCHANGED <<node, table, maker, rows, writer, pass>> /\ table # {}
  BY DEF Master!Retire
<1>2. Gens' = Gens /\ KmsKeys' = KmsKeys /\ GenKeys' = GenKeys /\ PassShape' = PassShape
  BY <1>1 DEF Gens, KmsKeys, GenKeys, PassShape, Sealed
<1>3. /\ EnvVersion \in Nat /\ MaxVersion \in Nat /\ Master!EnvKey.ver = EnvVersion
      /\ \A v \in table : v \in Nat /\ v > EnvVersion /\ v <= MaxVersion
  BY KeyFacts
<1>4. Master!Max(table) \in table
  BY <1>1, <1>3, MaxOf
<1>5. TableInv'
  BY <1>1 DEF TableInv
<1>6. RowsInv'
  <2> SUFFICES ASSUME NEW r \in Master!Rows PROVE rows[r].key # Master!EnvKey
    BY <1>1, <1>2 DEF RowsInv
  <2>1. rows[r].col > EnvVersion /\ rows[r].col \in Nat
    BY <1>3, <1>4 DEF Master!Retire
  <2>2. rows[r].col <= rows[r].key.ver
    BY DEF RowsInv
  <2> QED BY <1>3, <2>1, <2>2
<1>7. NodesInv'
  <2> SUFFICES ASSUME NEW n \in Nodes, node[n].at # "down" PROVE node[n].current > EnvVersion
    BY <1>1, <1>2 DEF NodesInv, NodeOK, NodeShape
  <2> QED BY <1>3, <1>4 DEF Master!Retire
<1>8. MakerInv'
  BY <1>1 DEF MakerInv
<1>9. WritersInv'
  BY <1>1, <1>2 DEF WritersInv, WriterShape, Master!Retire
<1>10. PassesInv'
  BY <1>1, <1>2 DEF PassesInv, PassOK
<1> QED BY <1>5, <1>6, <1>7, <1>8, <1>9, <1>10

(* A new generation is past MASTER_KEY's: the table's are, or the rows and  *)
(* the configuration are all there is.                                      *)
LEMMA NumberedPast == ASSUME Master!MasterKeysAssumption, MasterInv, NEW n \in Nodes
                      PROVE  Master!NextVersion(n) \in Nat /\ Master!NextVersion(n) > EnvVersion
<1> USE DEF MasterInv
<1> DEFINE cols == {rows[r].col : r \in Master!Rows}
           S == table \cup node[n].env \cup cols
<1>1. /\ EnvVersion \in Nat /\ MaxVersion \in Nat /\ NRows \in Nat /\ NRows > 0
      /\ Gens \subseteq Nat /\ \A v \in Gens : v >= EnvVersion /\ v <= EnvVersion + MaxVersion
  BY KeyFacts
<1>2. node[n].env \subseteq {EnvVersion}
  BY DEF NodesInv, NodeShape
<1>3. cols \subseteq Gens
  BY DEF RowsInv
<1>4. 1 \in Master!Rows
  BY <1>1 DEF Master!Rows
<1>5. S \subseteq Gens /\ S # {}
  BY <1>2, <1>3, <1>4 DEF Gens
<1>6. S \in SUBSET Nat /\ \A t \in S : t <= EnvVersion + MaxVersion
  BY <1>1, <1>5
<1> HIDE DEF S
<1>7. EnvVersion + MaxVersion \in Nat
  BY <1>1
<1>8. Master!Max(S) \in S
  BY <1>5, <1>6, <1>7, MaxOf
<1>9. Master!NextVersion(n) = 1 + Master!Max(S)
  BY DEF S, Master!NextVersion
<1>10. Master!Max(S) \in Gens
  BY <1>5, <1>8
<1>11. Master!Max(S) \in Nat /\ Master!Max(S) >= EnvVersion
  BY <1>1, <1>10
<1> QED BY <1>1, <1>9, <1>11

(* The number a maker takes is past every one in use.                       *)
LEMMA MasterMake == ASSUME Master!MasterKeysAssumption, MasterInv, NEW n \in Nodes,
                           NEW force \in BOOLEAN, Master!Make(n, force)
                    PROVE  MasterInv'
<1> USE DEF MasterInv
<1>1. UNCHANGED <<node, table, rows, writer, pass, retired>>
  BY DEF Master!Make
<1>2. Gens' = Gens /\ KmsKeys' = KmsKeys /\ GenKeys' = GenKeys /\ PassShape' = PassShape
  BY <1>1 DEF Gens, KmsKeys, GenKeys, PassShape, Sealed
<1>3. Master!NextVersion(n) \in (EnvVersion + 1)..MaxVersion
  BY NumberedPast, KeyFacts DEF Master!Make
<1>4. MakerInv'
  BY <1>1, <1>3 DEF MakerInv, Master!Make
<1>5. TableInv' /\ RowsInv' /\ NodesInv' /\ WritersInv' /\ PassesInv'
  BY <1>1, <1>2 DEF TableInv, RowsInv, NodesInv, NodeOK, NodeShape, WritersInv, WriterShape,
                    PassesInv, PassOK
<1> QED BY <1>4, <1>5

(* Another process's first generation is taken over.                        *)
LEMMA MasterMadeElsewhere == ASSUME Master!MasterKeysAssumption, MasterInv, NEW n \in Nodes,
                                    Master!MadeElsewhere(n)
                             PROVE  MasterInv'
<1> USE DEF MasterInv
<1>1. PICK md \in Master!Outcomes(n, {Master!Max(table)}) :
        node' = [node EXCEPT ![n] =
                   IF md = node[n] THEN [node[n] EXCEPT !.at = "down", !.known = {}]
                   ELSE [md EXCEPT !.at = "check", !.current = Master!Max(table)]]
  BY DEF Master!MadeElsewhere
<1> DEFINE newest == Master!Max(table)
           nd == IF md = node[n] THEN [node[n] EXCEPT !.at = "down", !.known = {}]
                 ELSE [md EXCEPT !.at = "check", !.current = newest]
<1>2. /\ node' = [node EXCEPT ![n] = nd] /\ node[n].at = "first" /\ maker = None
      /\ table # {} /\ UNCHANGED <<table, maker, rows, writer, pass, retired>>
  BY <1>1 DEF Master!MadeElsewhere
<1>3. /\ EnvVersion \in Nat /\ MaxVersion \in Nat /\ Master!EnvKey.ver = EnvVersion
      /\ \A v : Master!KmsKey(v).ver = v
      /\ \A v \in table : v \in Nat /\ v > EnvVersion /\ v <= MaxVersion
  BY KeyFacts
<1>4. newest \in table
  BY <1>2, <1>3, MaxOf
<1> HIDE DEF newest
<1>5. node[n] \in NodeShape /\ NodeOK(node[n]) /\ md \in NodeShape
  BY LoadedKeys DEF NodesInv
<1>6. NodeOK(nd)
  <2>1. CASE md = node[n]
    BY <1>5, <2>1 DEF NodeOK, NodeShape
  <2>2. CASE md # node[n]
    <3>1. PICK got \in SUBSET {newest} : md = Master!Loaded(node[n], got)
      BY DEF Master!Outcomes, newest
    <3> DEFINE fresh == IF node[n].wrapped THEN (got \cap table) \ Master!Versions(node[n]) ELSE {}
    <3>2. /\ md.known = node[n].known \cup {Master!KmsKey(v) : v \in fresh}
          /\ md = [node[n] EXCEPT !.known = node[n].known \cup {Master!KmsKey(v) : v \in fresh},
                                  !.current = Master!Max(fresh \cup {node[n].current})]
      BY <1>5, <3>1 DEF Master!Loaded, NodeShape
    <3>3. fresh # {}
      <4> SUFFICES ASSUME fresh = {} PROVE FALSE
        OBVIOUS
      <4>1. fresh \cup {node[n].current} = {node[n].current} /\ node[n].current \in Nat
        BY <1>5 DEF NodeShape
      <4>2. Master!Max({node[n].current}) = node[n].current
        BY <4>1, MaxOf
      <4>3. node[n].known \cup {Master!KmsKey(v) : v \in fresh} = node[n].known
        OBVIOUS
      <4> HIDE DEF fresh
      <4>4. md = [node[n] EXCEPT !.known = node[n].known, !.current = node[n].current]
        BY <3>2, <4>1, <4>2, <4>3
      <4>5. md = node[n]
        BY <1>5, <4>4 DEF NodeShape
      <4> QED BY <2>2, <4>5
    <3>4. fresh = {newest}
      BY <3>3
    <3>5. md.known = node[n].known \cup {Master!KmsKey(newest)}
      BY <3>2, <3>4
    <3>6. node[n].known \subseteq {Master!EnvKey}
      BY <1>2, <1>5 DEF NodeOK
    <3>7. \A k \in md.known : k.ver <= newest
      BY <1>3, <1>4, <3>5, <3>6
    <3>8. \E k \in md.known : k.ver = newest
      BY <1>3, <3>5
    <3>9. nd = [md EXCEPT !.at = "check", !.current = newest]
      BY <2>2
    <3> QED BY <1>3, <1>4, <1>5, <3>7, <3>8, <3>9 DEF NodeOK, NodeShape
  <2> QED BY <2>1, <2>2
<1> HIDE DEF nd
<1>7. \A p \in Passes : PassOK(pass[p])'
  BY <1>2, <1>6, NodeStep
<1>8. PassesInv'
  BY <1>2, <1>7, PassesFrom DEF PassesInv
<1> QED BY <1>2, <1>6, <1>8, NodeStep

(* More generations, more that there may be.                                *)
LEMMA ShapesGrow == ASSUME table \subseteq table'
                    PROVE  /\ Gens \subseteq Gens' /\ KmsKeys \subseteq KmsKeys'
                           /\ GenKeys \subseteq GenKeys' /\ NodeShape \subseteq NodeShape'
                           /\ WriterShape \subseteq WriterShape' /\ PassShape \subseteq PassShape'
<1>1. Gens \subseteq Gens' /\ KmsKeys \subseteq KmsKeys' /\ GenKeys \subseteq GenKeys'
  BY DEF Gens, KmsKeys, GenKeys
<1>2. NodeShape \subseteq NodeShape' /\ WriterShape \subseteq WriterShape'
  BY <1>1 DEF NodeShape, WriterShape
<1>3. Sealed \subseteq Sealed'
  <2> SUFFICES ASSUME NEW D \in SUBSET Master!Rows, NEW f \in [D -> [key : KmsKeys, secret : Nat]]
               PROVE  f \in Sealed'
    BY DEF Sealed
  <2>1. f \in [D -> [key : KmsKeys', secret : Nat]]
    BY <1>1
  <2> QED BY <2>1 DEF Sealed
<1>4. PassShape \subseteq PassShape'
  BY <1>1, <1>3 DEF PassShape
<1> QED BY <1>1, <1>2, <1>4

(* A generation is inserted, and its maker has it, or the attempt failed.   *)
LEMMA MasterInsert == ASSUME Master!MasterKeysAssumption, MasterInv, Master!Insert
                      PROVE  MasterInv'
<1> USE DEF MasterInv
<1> DEFINE n == maker.node  v == maker.ver
           done == [node[n] EXCEPT !.known = @ \cup {Master!KmsKey(v)},
                      !.current = IF maker.force THEN Master!Max({@, v}) ELSE v,
                      !.at = IF maker.force THEN @ ELSE "check"]
           dead == [node[n] EXCEPT !.at = "down", !.known = {}]
<1>1. /\ maker # None /\ maker' = None /\ UNCHANGED <<rows, writer, pass, retired>>
      /\ \/ table' = table \cup {v} /\ node' = [node EXCEPT ![n] = done]
         \/ /\ UNCHANGED table
            /\ node' = IF maker.force THEN node ELSE [node EXCEPT ![n] = dead]
  <2>1. maker # None /\ n \in Nodes
    BY DEF Master!Insert, MakerInv
  <2>2. node = [i \in Nodes |-> node[i]] /\ DOMAIN node = Nodes
    BY DEF NodesInv
  <2>3. \A x : [node EXCEPT ![n] = x] = [i \in Nodes |-> IF i = n THEN x ELSE node[i]]
    BY <2>2
  <2>4. CASE table' = table \cup {v}
    <3>1. node[n] \in NodeShape
      BY <2>1 DEF NodesInv
    <3>2. CASE node' = [node EXCEPT ![n].known = @ \cup {Master!KmsKey(v)},
                          ![n].current = IF maker.force THEN Master!Max({@, v}) ELSE v,
                          ![n].at = IF maker.force THEN @ ELSE "check"]
      <4>1. DOMAIN node' = Nodes /\ node' = [i \in Nodes |-> node'[i]]
        BY <2>2, <3>2
      <4>2. \A i \in Nodes : i # n => node'[i] = node[i]
        BY <2>2, <3>2
      <4>3. node'[n] = done
        BY <2>1, <2>2, <3>1, <3>2 DEF NodeShape
      <4>4. node' = [node EXCEPT ![n] = done]
        BY <2>2, <4>1, <4>2, <4>3
      <4> QED BY <2>4, <4>4 DEF Master!Insert
    <3> QED BY <2>4, <3>2 DEF Master!Insert
  <2>5. CASE UNCHANGED table /\ table' # table \cup {v}
    BY <2>1, <2>2, <2>5 DEF Master!Insert
  <2> QED BY <2>4, <2>5 DEF Master!Insert
<1>2. /\ n \in Nodes /\ maker.force \in BOOLEAN /\ v \in (EnvVersion + 1)..MaxVersion
      /\ node[n].at = IF maker.force THEN "up" ELSE "first"
  BY <1>1 DEF MakerInv
<1>3. node[n] \in NodeShape /\ NodeOK(node[n])
  BY <1>2 DEF NodesInv
<1>4. /\ EnvVersion \in Nat /\ MaxVersion \in Nat /\ Master!EnvKey.ver = EnvVersion
      /\ \A u : Master!KmsKey(u).ver = u
      /\ \A k \in GenKeys : k.ver \in Nat
  BY KeyFacts
<1>5. v \in Nat /\ v > EnvVersion /\ v <= MaxVersion
  BY <1>2, <1>4
<1> HIDE DEF n, v
<1>6. MakerInv'
  BY <1>1 DEF MakerInv
<1>7. CASE table' = table \cup {v} /\ node' = [node EXCEPT ![n] = done]
  <2>1. /\ Gens \subseteq Gens' /\ GenKeys \subseteq GenKeys' /\ NodeShape \subseteq NodeShape'
        /\ WriterShape \subseteq WriterShape' /\ PassShape \subseteq PassShape'
    BY <1>7, ShapesGrow
  <2>2. TableInv'
    BY <1>1, <1>2, <1>7 DEF TableInv
  <2>3. RowsInv' /\ WritersInv'
    BY <1>1, <2>1 DEF RowsInv, WritersInv
  <2> DEFINE m == IF maker.force THEN Master!Max({node[n].current, v}) ELSE v
             known == node[n].known \cup {Master!KmsKey(v)}
  <2>4. node[n].current \in Nat /\ node[n].known \subseteq GenKeys
    BY <1>3 DEF NodeShape
  <2>5. /\ Master!Max({node[n].current, v}) \in {node[n].current, v}
        /\ \A t \in {node[n].current, v} : t <= Master!Max({node[n].current, v})
    <3> DEFINE S == {node[n].current, v}
    <3>1. S \in SUBSET Nat /\ S # {} /\ \A t \in S : t <= node[n].current + v
      BY <1>5, <2>4
    <3>2. node[n].current + v \in Nat
      BY <1>5, <2>4
    <3> HIDE DEF S
    <3>3. Master!Max(S) \in S /\ \A t \in S : t <= Master!Max(S)
      BY <3>1, <3>2, MaxOf
    <3> QED BY <3>3 DEF S
  <2>6. /\ m \in Nat /\ m >= v /\ m \in {node[n].current, v}
        /\ maker.force => m >= node[n].current
    BY <1>5, <2>4, <2>5
  <2> HIDE DEF m
  <2>7. done = [node[n] EXCEPT !.known = known, !.current = m,
                               !.at = IF maker.force THEN node[n].at ELSE "check"]
    BY DEF m
  <2>8. Master!KmsKey(v) \in GenKeys'
    BY <1>7 DEF GenKeys, KmsKeys
  <2>9. known \subseteq GenKeys'
    BY <2>1, <2>4, <2>8
  <2>10. \A k \in known : k.ver <= m
    <3>1. Master!KmsKey(v).ver <= m
      BY <1>4, <1>5, <2>6
    <3>2. \A k \in node[n].known : k.ver <= m
      <4>1. CASE maker.force
        BY <1>3, <1>4, <2>4, <2>6, <4>1 DEF NodeOK
      <4>2. CASE ~ maker.force
        <5>1. node[n].known \subseteq {Master!EnvKey}
          BY <1>2, <1>3, <4>2 DEF NodeOK
        <5> QED BY <1>4, <1>5, <2>6, <5>1
      <4> QED BY <4>1, <4>2
    <3> QED BY <3>1, <3>2
  <2>11. \E k \in known : k.ver = m
    <3>1. CASE m = v
      BY <1>4, <3>1
    <3>2. CASE m # v
      <4>1. maker.force /\ m = node[n].current
        BY <2>6, <3>2 DEF m
      <4> QED BY <1>2, <1>3, <4>1 DEF NodeOK
    <3> QED BY <3>1, <3>2
  <2> HIDE DEF known, done
  <2>12. /\ done \in NodeShape' /\ done.known = known /\ done.current = m
         /\ done.at = IF maker.force THEN "up" ELSE "check"
    <3>1. node[n].env \subseteq {EnvVersion} /\ node[n].wrapped \in BOOLEAN
      BY <1>3 DEF NodeShape
    <3> QED BY <1>2, <1>3, <2>6, <2>7, <2>9, <3>1 DEF NodeShape
  <2>13. NodesInv'
    <3>1. \A i \in Nodes : NodeOK(node[i])'
      <4> SUFFICES ASSUME NEW i \in Nodes PROVE NodeOK(node[i])'
        OBVIOUS
      <4>1. CASE i = n
        <5>1. node'[i] = done
          BY <1>2, <1>7, <4>1 DEF NodesInv
        <5>2. m > EnvVersion
          BY <1>4, <1>5, <2>6
        <5> QED BY <2>10, <2>11, <2>12, <5>1, <5>2 DEF NodeOK
      <4>2. CASE i # n
        <5>1. node'[i] = node[i] /\ NodeOK(node[i])
          BY <1>2, <1>7, <4>2 DEF NodesInv
        <5> QED BY <1>1, <2>1, <5>1 DEF NodeOK
      <4> QED BY <4>1, <4>2
    <3>2. node' \in [Nodes -> NodeShape']
      BY <1>2, <1>7, <2>1, <2>12 DEF NodesInv
    <3> QED BY <3>1, <3>2 DEF NodesInv
  <2>14. \A p \in Passes : PassOK(pass[p])'
    <3> SUFFICES ASSUME NEW p \in Passes PROVE PassOK(pass[p])'
      OBVIOUS
    <3>1. PassOK(pass[p]) /\ pass[p] \in PassShape
      BY DEF PassesInv
    <3>2. pass[p] \notin {Master!Idle, Master!Ended} =>
            node'[pass[p].node].at = "up" /\ pass[p].target <= node'[pass[p].node].current
      <4> SUFFICES ASSUME pass[p] \notin {Master!Idle, Master!Ended}
                   PROVE  node'[pass[p].node].at = "up"
                            /\ pass[p].target <= node'[pass[p].node].current
        OBVIOUS
      <4>1. pass[p].node \in Nodes /\ pass[p].target \in Nat
        BY <3>1, KeyFacts DEF PassShape
      <4>2. node[pass[p].node].at = "up" /\ pass[p].target <= node[pass[p].node].current
        BY <3>1 DEF PassOK
      <4>3. CASE pass[p].node = n
        BY <1>2, <1>7, <2>4, <2>6, <2>12, <4>1, <4>2, <4>3 DEF NodesInv
      <4>4. CASE pass[p].node # n
        BY <1>2, <1>7, <4>1, <4>2, <4>4 DEF NodesInv
      <4> QED BY <4>3, <4>4
    <3> QED BY <1>1, <2>1, <3>1, <3>2 DEF PassOK
  <2>15. PassesInv'
    BY <1>1, <2>14, PassesFrom DEF PassesInv
  <2> QED BY <1>6, <2>2, <2>3, <2>13, <2>15
<1>8. CASE UNCHANGED table /\ node' = IF maker.force THEN node ELSE [node EXCEPT ![n] = dead]
  <2>1. CASE maker.force
    <3>1. Gens' = Gens /\ KmsKeys' = KmsKeys /\ GenKeys' = GenKeys /\ PassShape' = PassShape
      BY <1>8 DEF Gens, KmsKeys, GenKeys, PassShape, Sealed
    <3>2. TableInv' /\ RowsInv' /\ NodesInv' /\ WritersInv' /\ PassesInv'
      BY <1>1, <1>8, <2>1, <3>1 DEF TableInv, RowsInv, NodesInv, NodeOK, NodeShape, WritersInv,
                                   WriterShape, PassesInv, PassOK
    <3> QED BY <1>6, <3>2
  <2>2. CASE ~ maker.force
    <3>1. NodeOK(dead)
      BY <1>3 DEF NodeOK, NodeShape
    <3>2. node[n].at # "up"
      BY <1>2, <2>2
    <3> HIDE DEF dead
    <3>3. /\ TableInv' /\ NodesInv' /\ RowsInv' /\ WritersInv'
          /\ \A p \in Passes : PassOK(pass[p])'
      BY <1>1, <1>2, <1>8, <2>2, <3>1, <3>2, NodeStep
    <3>4. PassesInv'
      BY <1>1, <3>3, PassesFrom DEF PassesInv
    <3> QED BY <1>6, <3>3, <3>4
  <2> QED BY <2>1, <2>2
<1> QED BY <1>1, <1>7, <1>8

(* A secret is sealed with the current key of a process, ...                *)
LEMMA MasterSeal == ASSUME Master!MasterKeysAssumption, MasterInv, NEW w \in Writers,
                           NEW n \in Nodes, NEW r \in Master!Rows, Master!Seal(w, n, r)
                    PROVE  MasterInv'
<1> USE DEF MasterInv
<1> DEFINE key == Master!KeyOf(node[n], node[n].current)
<1>1. /\ UNCHANGED <<node, table, maker, rows, pass, retired>> /\ node[n].at = "up"
      /\ writer' = [writer EXCEPT ![w] = [at |-> "sealed", node |-> n, row |-> r, key |-> key]]
  BY DEF Master!Seal
<1>2. Gens' = Gens /\ KmsKeys' = KmsKeys /\ GenKeys' = GenKeys /\ PassShape' = PassShape
  BY <1>1 DEF Gens, KmsKeys, GenKeys, PassShape, Sealed
<1>3. NodeOK(node[n])
  BY DEF NodesInv
<1>4. \E k \in node[n].known : k.ver = node[n].current
  BY <1>1, <1>3 DEF NodeOK
<1>5. key \in node[n].known /\ key.ver = node[n].current
  BY <1>4 DEF Master!KeyOf
<1>6. key \in GenKeys
  BY <1>3, <1>5 DEF NodeOK, NodeShape
<1>7. retired => key # Master!EnvKey
  BY <1>1, <1>3, <1>5, KeyFacts DEF NodeOK
<1> HIDE DEF key
<1>8. WritersInv'
  BY <1>1, <1>2, <1>6, <1>7 DEF WritersInv, WriterShape, Master!Running
<1>9. TableInv' /\ RowsInv' /\ NodesInv' /\ MakerInv' /\ PassesInv'
  BY <1>1, <1>2 DEF TableInv, RowsInv, NodesInv, NodeOK, NodeShape, MakerInv, PassesInv, PassOK
<1> QED BY <1>8, <1>9

(* What a pass is told changes nothing else of it.                          *)
LEMMA TouchedKeeps ==
    ASSUME MasterInv, NEW by, NEW changed \in SUBSET Master!Rows, NEW ver, NEW p \in Passes,
           NEW ps, ps = Master!Touched(by, changed, ver)[p]
    PROVE  /\ PassOK(ps) /\ ps.at = pass[p].at
           /\ ps.at \notin {"idle", "ended"} =>
                /\ ps.node = pass[p].node /\ ps.target = pass[p].target
                /\ ps.failed = pass[p].failed /\ pass[p].touched \subseteq ps.touched
                /\ p # by /\ ver < ps.target => ps.touched = pass[p].touched \cup changed
           /\ ps.at \in {"read", "write"} =>
                ps.versions = pass[p].versions /\ ps.after = pass[p].after
           /\ ps.at = "write" => /\ ps.version = pass[p].version /\ ps.full = pass[p].full
                                 /\ ps.sealed = pass[p].sealed
<1>1. PassOK(pass[p]) /\ pass[p] \in PassShape
  BY DEF MasterInv, PassesInv
<1>2. CASE Master!Running(pass[p]) /\ p # by /\ ver < pass[p].target
  <2>1. ps = [pass[p] EXCEPT !.touched = @ \cup changed]
    BY <1>2 DEF Master!Touched
  <2>2. pass[p] \notin {Master!Idle, Master!Ended}
    BY <1>2 DEF Master!Running
  <2>3. /\ ps \in PassShape /\ ps.at = pass[p].at /\ ps.node = pass[p].node
        /\ ps.target = pass[p].target /\ ps.failed = pass[p].failed
        /\ ps.touched = pass[p].touched \cup changed
        /\ ps.at \in {"read", "write"} =>
             ps.versions = pass[p].versions /\ ps.after = pass[p].after
        /\ ps.at = "write" => /\ ps.version = pass[p].version /\ ps.full = pass[p].full
                              /\ ps.sealed = pass[p].sealed
    <3>1. CASE pass[p].at \in {"versions", "done"}
      BY <1>1, <2>1, <2>2, <3>1 DEF PassShape
    <3>2. CASE pass[p].at = "read"
      BY <1>1, <2>1, <2>2, <3>2 DEF PassShape
    <3>3. CASE pass[p].at = "write"
      BY <1>1, <2>1, <2>2, <3>3 DEF PassShape
    <3> QED BY <1>1, <2>2, <3>1, <3>2, <3>3 DEF PassShape
  <2>4. PassOK(ps)
    BY <1>1, <2>2, <2>3 DEF PassOK
  <2> QED BY <2>3, <2>4
<1>3. CASE ~ (Master!Running(pass[p]) /\ p # by /\ ver < pass[p].target)
  <2>1. ps = pass[p]
    BY <1>3 DEF Master!Touched
  <2>2. ps.at \notin {"idle", "ended"} => Master!Running(ps)
    BY <2>1 DEF Master!Running, Master!Idle, Master!Ended
  <2> QED BY <1>1, <1>3, <2>1, <2>2
<1> QED BY <1>2, <1>3

(* ... so it stays as a pass should be.                                     *)
LEMMA TouchedOK ==
    ASSUME MasterInv, NEW by, NEW changed \in SUBSET Master!Rows, NEW ver, NEW p \in Passes
    PROVE  PassOK(Master!Touched(by, changed, ver)[p])
  BY TouchedKeeps, ZenonT(60)

(* ... and stored under its number.                                         *)
LEMMA MasterStore == ASSUME Master!MasterKeysAssumption, MasterInv, LatestInv, NEW w \in Writers,
                            Master!Store(w)
                     PROVE  MasterInv'
<1> USE DEF MasterInv
<1> DEFINE r == writer[w].row  key == writer[w].key
<1>1. /\ UNCHANGED <<node, table, maker, retired>> /\ Master!Running(writer[w])
      /\ writer' = [writer EXCEPT ![w] = Master!Ended]
      /\ rows' = [rows EXCEPT ![r] = [col |-> key.ver, key |-> key, secret |-> latest[r] + 1]]
      /\ pass' = Master!Touched(None, {r}, key.ver)
  BY DEF Master!Store
<1>2. /\ Gens' = Gens /\ KmsKeys' = KmsKeys /\ GenKeys' = GenKeys /\ PassShape' = PassShape
      /\ WriterShape' = WriterShape
  BY <1>1 DEF Gens, KmsKeys, GenKeys, PassShape, Sealed, WriterShape
<1>3. r \in Master!Rows /\ key \in GenKeys /\ (retired => key # Master!EnvKey)
  BY <1>1 DEF WritersInv, WriterShape, Master!Running
<1>4. key.ver \in Gens /\ key.ver \in Nat
  BY <1>3, KeyFacts
<1> HIDE DEF r, key
<1>5. latest[r] + 1 \in Nat
  BY <1>3 DEF LatestInv
<1>6. RowsInv'
  BY <1>1, <1>2, <1>3, <1>4, <1>5 DEF RowsInv
<1>7. WritersInv'
  BY <1>1, <1>2 DEF WritersInv, WriterShape, Master!Running
<1>8. \A p \in Passes : PassOK(pass[p])'
  <2> SUFFICES ASSUME NEW p \in Passes PROVE PassOK(pass[p])'
    OBVIOUS
  <2> DEFINE changed == {r}
  <2>0. changed \in SUBSET Master!Rows
    BY <1>3
  <2> HIDE DEF changed
  <2>t. PassOK(Master!Touched(None, changed, key.ver)[p])
    BY <2>0, TouchedOK
  <2>1. PassOK(pass'[p])
    BY <1>1, <2>t DEF changed
  <2> QED BY <1>1, <1>2, <2>1 DEF PassOK
<1>9. PassesInv'
  BY <1>1, <1>8, PassesFrom DEF Master!Touched
<1>10. TableInv' /\ NodesInv' /\ MakerInv'
  BY <1>1, <1>2 DEF TableInv, NodesInv, NodeOK, NodeShape, MakerInv
<1> QED BY <1>6, <1>7, <1>9, <1>10

(* A pass begins on a process that is up, with its current generation.      *)
LEMMA MasterPassStart == ASSUME Master!MasterKeysAssumption, MasterInv, NEW p \in Passes,
                                NEW n \in Nodes, Master!PassStart(p, n)
                         PROVE  MasterInv'
<1> USE DEF MasterInv
<1>1. PICK nd \in Master!Outcomes(n, Master!Unseen(node[n])) :
        /\ node' = [node EXCEPT ![n] = nd]
        /\ pass' = [pass EXCEPT ![p] = [at |-> "versions", node |-> n, target |-> nd.current,
                                        failed |-> {}, touched |-> {}]]
  BY DEF Master!PassStart
<1>2. node[n].at = "up" /\ UNCHANGED <<table, maker, rows, writer, retired>>
  BY DEF Master!PassStart
<1>3. NodeOK(nd) /\ nd.at = "up" /\ nd.current >= node[n].current
  BY <1>2, LoadedKeys
<1>4. nd.current \in Gens /\ nd.current \in Nat
  BY <1>3, KeyFacts DEF NodeOK, NodeShape
<1>5. /\ TableInv' /\ NodesInv' /\ RowsInv' /\ WritersInv' /\ MakerInv'
      /\ \A q \in Passes : pass'[q] = pass[q] => PassOK(pass[q])'
  BY <1>1, <1>2, <1>3, NodeStep
<1>6. Gens' = Gens
  BY <1>2 DEF Gens
<1>7. PassOK(pass[p])'
  <2>1. pass'[p] = [at |-> "versions", node |-> n, target |-> nd.current, failed |-> {},
                    touched |-> {}]
    BY <1>1 DEF PassesInv
  <2>2. node'[n] = nd
    BY <1>1 DEF NodesInv
  <2>3. pass'[p] \in PassShape'
    BY <1>4, <1>6, <2>1 DEF PassShape
  <2> QED BY <1>3, <1>4, <2>1, <2>2, <2>3 DEF PassOK
<1>8. \A q \in Passes : PassOK(pass[q])'
  BY <1>1, <1>5, <1>7 DEF PassesInv
<1>9. PassesInv'
  BY <1>1, <1>8, PassesFrom DEF PassesInv
<1> QED BY <1>5, <1>9

(* The versions a pass has still to visit.                                  *)
LEMMA VersionsOK ==
    ASSUME NEW ps, ps.node \in Nodes, ps.target \in Gens, ps.failed \in SUBSET Master!Rows,
           ps.touched \in SUBSET Master!Rows, node[ps.node].at = "up",
           ps.target <= node[ps.node].current, NEW vs \in SUBSET Gens, ps.target \notin vs,
           Master!MasterKeysAssumption
    PROVE  PassOK(Master!AtVersions(ps, vs))
<1> DEFINE qs == Master!AtVersions(ps, vs)
<1>0. 0 \in 0..NRows
  BY DEF Master!MasterKeysAssumption
<1>1. CASE vs = {}
  <2>1. qs = [at |-> "done", node |-> ps.node, target |-> ps.target, failed |-> ps.failed,
              touched |-> ps.touched]
    BY <1>1 DEF Master!AtVersions
  <2> HIDE DEF qs
  <2>2. qs \in PassShape
    BY <2>1 DEF PassShape
  <2>3. PassOK(qs)
    BY <2>1, <2>2 DEF PassOK
  <2> QED BY <2>3 DEF qs
<1>2. CASE vs # {}
  <2>1. qs = [at |-> "read", node |-> ps.node, target |-> ps.target, failed |-> ps.failed,
              touched |-> ps.touched, versions |-> vs, after |-> 0]
    BY <1>2 DEF Master!AtVersions
  <2> HIDE DEF qs
  <2>2. qs \in PassShape
    BY <1>0, <2>1 DEF PassShape
  <2>3. PassOK(qs)
    BY <1>2, <2>1, <2>2 DEF PassOK
  <2> QED BY <2>3 DEF qs
<1> QED BY <1>1, <1>2

(* A pass visits every other generation in use.                             *)
LEMMA MasterPassVersions == ASSUME Master!MasterKeysAssumption, MasterInv, NEW p \in Passes,
                                   Master!PassVersions(p)
                            PROVE  MasterInv'
<1> USE DEF MasterInv
<1> DEFINE ps == pass[p]
           qs == Master!AtVersions(ps, Master!InUse(ps.target))
<1>1. /\ UNCHANGED <<node, table, maker, rows, writer, retired>> /\ ps.at = "versions"
      /\ pass' = [pass EXCEPT ![p] = qs]
  BY DEF Master!PassVersions
<1>2. Gens' = Gens /\ KmsKeys' = KmsKeys /\ GenKeys' = GenKeys /\ PassShape' = PassShape
  BY <1>1 DEF Gens, KmsKeys, GenKeys, PassShape, Sealed
<1>3. PassOK(ps) /\ ps \in PassShape
  BY DEF PassesInv
<1>4. /\ ps.node \in Nodes /\ ps.target \in Gens /\ ps.failed \in SUBSET Master!Rows
      /\ ps.touched \in SUBSET Master!Rows /\ ps \notin {Master!Idle, Master!Ended}
  BY <1>1, <1>3 DEF PassShape, Master!Idle, Master!Ended
<1>5. Master!InUse(ps.target) \in SUBSET Gens /\ ps.target \notin Master!InUse(ps.target)
  BY DEF Master!InUse, RowsInv
<1>6. PassOK(qs)
  BY <1>3, <1>4, <1>5, VersionsOK DEF PassOK
<1> HIDE DEF qs
<1>7. \A q \in Passes : PassOK(pass'[q])
  BY <1>1, <1>6 DEF PassesInv
<1>8. \A q \in Passes : PassOK(pass[q])'
  BY <1>1, <1>2, <1>7 DEF PassOK
<1>9. PassesInv'
  BY <1>1, <1>8, PassesFrom DEF PassesInv
<1>10. TableInv' /\ RowsInv' /\ NodesInv' /\ MakerInv' /\ WritersInv'
  BY <1>1, <1>2 DEF TableInv, RowsInv, NodesInv, NodeOK, NodeShape, MakerInv, WritersInv,
                    WriterShape
<1> QED BY <1>9, <1>10

(* A pass that ends leaves everything as it is.                             *)
LEMMA MasterPassEnd == ASSUME MasterInv, NEW p \in Passes, Master!PassEnd(p)
                       PROVE  MasterInv'
<1> USE DEF MasterInv
<1>1. /\ UNCHANGED <<node, table, maker, rows, writer, retired>>
      /\ pass' = [pass EXCEPT ![p] = Master!Ended]
  BY DEF Master!PassEnd
<1>2. Gens' = Gens /\ KmsKeys' = KmsKeys /\ GenKeys' = GenKeys /\ PassShape' = PassShape
  BY <1>1 DEF Gens, KmsKeys, GenKeys, PassShape, Sealed
<1>3. PassOK(Master!Ended)
  BY DEF PassOK, PassShape, Master!Ended
<1>4. \A q \in Passes : PassOK(pass'[q])
  BY <1>1, <1>3 DEF PassesInv
<1>5. \A q \in Passes : PassOK(pass[q])'
  BY <1>1, <1>2, <1>4 DEF PassOK
<1>6. PassesInv'
  BY <1>1, <1>5, PassesFrom DEF PassesInv
<1>7. TableInv' /\ RowsInv' /\ NodesInv' /\ MakerInv' /\ WritersInv'
  BY <1>1, <1>2 DEF TableInv, RowsInv, NodesInv, NodeOK, NodeShape, MakerInv, WritersInv,
                    WriterShape
<1> QED BY <1>6, <1>7

(* A page is some of the rows, all under one version and past the cursor.   *)
LEMMA PageRows == ASSUME NEW v, NEW after
                  PROVE  /\ Master!PageOf(v, after) \subseteq Master!Rows
                         /\ \A r \in Master!PageOf(v, after) : rows[r].col = v /\ r > after
  BY DEF Master!PageOf

(* What a pass seals is under a key of the table: it opens a row under      *)
(* another generation than its target, and neither is older than MASTER_KEY.*)
LEMMA SealedPast ==
    ASSUME Master!MasterKeysAssumption, MasterInv, NEW p \in Passes, pass[p].at = "read",
           NEW vs, NEW nd \in Master!Outcomes(pass[p].node, vs),
           NEW r \in Master!Rows, rows[r].col \in pass[p].versions,
           Master!Opens(nd, rows[r].key)
    PROVE  /\ Master!KeyOf(nd, nd.current) \in KmsKeys
           /\ pass[p].target <= Master!KeyOf(nd, nd.current).ver
<1> USE DEF MasterInv
<1> DEFINE ps == pass[p]  n == ps.node  key == Master!KeyOf(nd, nd.current)
<1>1. PassOK(ps) /\ ps \in PassShape
  BY DEF PassesInv
<1>2. /\ n \in Nodes /\ ps.target \in Gens /\ ps.versions \in SUBSET Gens
      /\ ps \notin {Master!Idle, Master!Ended}
  BY <1>1 DEF PassShape, Master!Idle, Master!Ended
<1>3. node[n].at = "up" /\ ps.target <= node[n].current /\ ps.target \notin ps.versions
  BY <1>1, <1>2 DEF PassOK
<1>4. /\ nd \in NodeShape /\ nd.current >= node[n].current /\ NodeOK(nd) /\ nd.at = "up"
      /\ node[n] \in NodeShape
  BY <1>2, <1>3, LoadedKeys DEF NodesInv
<1>5. \E k \in nd.known : k.ver = nd.current
  BY <1>4 DEF NodeOK
<1>6. key \in nd.known /\ key.ver = nd.current
  BY <1>5 DEF Master!KeyOf
<1>7. key \in GenKeys /\ nd.current \in Nat /\ node[n].current \in Nat
  BY <1>4, <1>6 DEF NodeShape
<1> HIDE DEF key
<1>8. rows[r].key.ver <= nd.current /\ rows[r].key \in GenKeys
  BY <1>4 DEF NodeOK, Master!Opens, RowsInv
<1>9. rows[r].col <= rows[r].key.ver /\ rows[r].col \in Gens
  BY DEF RowsInv
<1>10. /\ EnvVersion \in Nat /\ rows[r].col \in Nat /\ rows[r].col >= EnvVersion
       /\ ps.target \in Nat /\ ps.target >= EnvVersion /\ rows[r].key.ver \in Nat
  BY <1>2, <1>8, <1>9, KeyFacts
<1>11. rows[r].col # ps.target
  BY <1>3
<1>12. nd.current > EnvVersion /\ ps.target <= nd.current
  BY <1>3, <1>4, <1>7, <1>8, <1>9, <1>10, <1>11
<1>13. key \in KmsKeys
  BY <1>6, <1>7, <1>12, KeyFacts
<1> QED BY <1>6, <1>12, <1>13 DEF key

(* A page is sealed again at or past the target of its pass.                *)
LEMMA MasterPassRead == ASSUME Master!MasterKeysAssumption, MasterInv, NEW p \in Passes,
                               Master!PassRead(p)
                        PROVE  MasterInv'
<1> USE DEF MasterInv
<1> DEFINE ps == pass[p]
           n == ps.node
           v == Master!Min(ps.versions)
           page == Master!PageOf(v, ps.after)
           vers == {rows[r].key.ver : r \in page}
           opened(nd) == {r \in page : Master!Opens(nd, rows[r].key)}
           copies(nd) == [r \in opened(nd) |-> [key |-> Master!KeyOf(nd, nd.current),
                                                secret |-> rows[r].secret]]
           found(nd) == [at |-> "write", node |-> n, target |-> ps.target,
                         failed |-> ps.failed \cup (page \ opened(nd)), touched |-> ps.touched,
                         versions |-> ps.versions, version |-> v, after |-> Master!Max(page),
                         full |-> Master!Cardinality(page) = Batch, sealed |-> copies(nd)]
<1>1. PICK nd \in Master!Outcomes(n, vers) :
        /\ node' = [node EXCEPT ![n] = nd]
        /\ pass' = [pass EXCEPT ![p] = IF page = {} THEN Master!AtVersions(ps, ps.versions \ {v})
                                       ELSE found(nd)]
  BY DEF Master!PassRead
<1>2. ps.at = "read" /\ UNCHANGED <<table, maker, rows, writer, retired>>
  BY DEF Master!PassRead
<1>3. PassOK(ps) /\ ps \in PassShape
  BY DEF PassesInv
<1>4. /\ n \in Nodes /\ ps.target \in Gens /\ ps.versions \in SUBSET Gens
      /\ ps.failed \in SUBSET Master!Rows /\ ps.touched \in SUBSET Master!Rows
      /\ ps \notin {Master!Idle, Master!Ended}
  BY <1>2, <1>3 DEF PassShape, Master!Idle, Master!Ended
<1>5. /\ node[n].at = "up" /\ ps.target <= node[n].current
      /\ ps.versions # {} /\ ps.target \notin ps.versions
  BY <1>2, <1>3, <1>4 DEF PassOK
<1>6. /\ NodeOK(nd) /\ nd.at = "up" /\ nd.current >= node[n].current
      /\ nd.current \in Nat /\ node[n].current \in Nat
  BY <1>4, <1>5, LoadedKeys DEF NodesInv, NodeShape
<1>7. v \in ps.versions
  BY <1>4, <1>5, MinOf, KeyFacts
<1>8. /\ TableInv' /\ NodesInv' /\ RowsInv' /\ WritersInv' /\ MakerInv'
      /\ \A q \in Passes : pass'[q] = pass[q] => PassOK(pass[q])'
  BY <1>1, <1>2, <1>4, <1>5, <1>6, NodeStep
<1>9. Gens' = Gens /\ KmsKeys' = KmsKeys /\ PassShape' = PassShape
  BY <1>2 DEF Gens, KmsKeys, PassShape, Sealed
<1>10. node'[n] = nd /\ ps.target \in Nat /\ ps.target <= nd.current
  BY <1>1, <1>4, <1>5, <1>6, KeyFacts DEF NodesInv
<1>11. page \subseteq Master!Rows /\ \A r \in page : rows[r].col = v
  BY PageRows
<1> HIDE DEF page, v
<1>12. CASE page = {}
  <2> DEFINE qs == Master!AtVersions(ps, ps.versions \ {v})
  <2>1. pass' = [pass EXCEPT ![p] = qs]
    BY <1>1, <1>12
  <2>2. PassOK(qs)
    BY <1>4, <1>5, VersionsOK
  <2> HIDE DEF qs
  <2>3. qs \in PassShape /\ (qs \notin {Master!Idle,
  Master!Ended} => qs.node = n /\ qs.target = ps.target)
    BY <2>2 DEF PassOK, qs, Master!AtVersions
  <2>4. pass'[p] = qs
    BY <2>1 DEF PassesInv
  <2>5. PassOK(pass[p])'
    BY <1>6, <1>9, <1>10, <2>2, <2>3, <2>4 DEF PassOK
  <2>6. \A q \in Passes : PassOK(pass[q])'
    BY <1>8, <2>1, <2>5 DEF PassesInv
  <2>7. PassesInv'
    BY <2>1, <2>6, PassesFrom DEF PassesInv
  <2> QED BY <1>8, <2>7
<1>13. CASE page # {}
  <2> DEFINE qs == found(nd)
  <2>1. pass' = [pass EXCEPT ![p] = qs]
    BY <1>1, <1>13
  <2>2. \A r \in opened(nd) : /\ Master!KeyOf(nd, nd.current) \in KmsKeys
                              /\ ps.target <= Master!KeyOf(nd, nd.current).ver
    BY <1>2, <1>7, <1>11, SealedPast
  <2>3. opened(nd) \in SUBSET Master!Rows /\ \A r \in Master!Rows : rows[r].secret \in Nat
    BY <1>11 DEF RowsInv
  <2> HIDE DEF opened
  <2>4. copies(nd) \in [opened(nd) -> [key : KmsKeys, secret : Nat]]
    BY <2>2, <2>3
  <2>5. copies(nd) \in Sealed
    BY <2>3, <2>4 DEF Sealed
  <2>6. DOMAIN copies(nd) = opened(nd)
        /\ \A r \in opened(nd) : copies(nd)[r].key = Master!KeyOf(nd, nd.current)
    OBVIOUS
  <2> HIDE DEF copies
  <2>7. Master!Max(page) \in 0..NRows
    <3>1. page \in SUBSET Nat /\ NRows \in Nat /\ \A t \in page : t <= NRows
      BY <1>11, KeyFacts DEF Master!Rows
    <3>2. Master!Max(page) \in page
      BY <1>13, <3>1, MaxOf
    <3>3. Master!Max(page) \in Nat /\ Master!Max(page) <= NRows
      BY <3>1, <3>2
    <3> QED BY <3>1, <3>3
  <2>8. v \in Gens /\ (Master!Cardinality(page) = Batch) \in BOOLEAN
    BY <1>4, <1>7
  <2>9. (ps.failed \cup (page \ opened(nd))) \in SUBSET Master!Rows
    BY <1>4, <1>11
  <2>10. qs \in PassShape
    BY <1>4, <2>5, <2>7, <2>8, <2>9 DEF PassShape
  <2>11. /\ qs.at = "write" /\ qs.node = n /\ qs.target = ps.target /\ qs.versions = ps.versions
         /\ qs.version = v /\ qs.sealed = copies(nd)
    OBVIOUS
  <2> HIDE DEF qs, found
  <2>12. pass'[p] = qs
    BY <2>1 DEF PassesInv
  <2>13. PassOK(pass[p])'
    BY <1>5, <1>6, <1>9, <1>10, <2>2, <2>6, <2>10, <2>11, <2>12 DEF PassOK, v
  <2>14. \A q \in Passes : PassOK(pass[q])'
    BY <1>8, <2>1, <2>13 DEF PassesInv
  <2>15. PassesInv'
    BY <2>1, <2>14, PassesFrom DEF PassesInv
  <2> QED BY <1>8, <2>15
<1> QED BY <1>12, <1>13

(* The rows written back are not ahead of their keys.                       *)
LEMMA MasterPassWrite == ASSUME Master!MasterKeysAssumption, MasterInv, NEW p \in Passes,
                                Master!PassWrite(p)
                         PROVE  MasterInv'
<1> USE DEF MasterInv
<1> DEFINE ps == pass[p]
           moved == {r \in DOMAIN ps.sealed : Master!StillThere(r, ps.version)}
           told == Master!Touched(p, moved, ps.target)
           qs == IF ps.full THEN [at |-> "read", node |-> ps.node, target |-> ps.target,
                                  failed |-> ps.failed, touched |-> ps.touched,
                                  versions |-> ps.versions, after |-> ps.after]
                 ELSE Master!AtVersions(ps, ps.versions \ {ps.version})
<1>1. /\ UNCHANGED <<node, table, maker, writer, retired>> /\ ps.at = "write"
      /\ pass' = [told EXCEPT ![p] = qs]
      /\ rows' = [r \in Master!Rows |-> IF r \in moved
                                        THEN [col |-> ps.target, key |-> ps.sealed[r].key,
                                              secret |-> ps.sealed[r].secret]
                                        ELSE rows[r]]
  BY DEF Master!PassWrite
<1>2. Gens' = Gens /\ KmsKeys' = KmsKeys /\ GenKeys' = GenKeys /\ PassShape' = PassShape
  BY <1>1 DEF Gens, KmsKeys, GenKeys, PassShape, Sealed
<1>3. PassOK(ps) /\ ps \in PassShape
  BY DEF PassesInv
<1>4. /\ ps.node \in Nodes /\ ps.target \in Gens /\ ps.failed \in SUBSET Master!Rows
      /\ ps.touched \in SUBSET Master!Rows /\ ps \notin {Master!Idle, Master!Ended}
      /\ ps.versions \in SUBSET Gens /\ ps.sealed \in Sealed /\ ps.after \in 0..NRows
  BY <1>1, <1>3 DEF PassShape, Master!Idle, Master!Ended
<1>5. /\ node[ps.node].at = "up" /\ ps.target <= node[ps.node].current
      /\ ps.versions # {} /\ ps.target \notin ps.versions
      /\ \A r \in DOMAIN ps.sealed : ps.target <= ps.sealed[r].key.ver
  BY <1>1, <1>3, <1>4 DEF PassOK
<1>6. /\ DOMAIN ps.sealed \subseteq Master!Rows
      /\ \A r \in DOMAIN ps.sealed : ps.sealed[r].key \in KmsKeys /\ ps.sealed[r].secret \in Nat
  BY <1>4 DEF Sealed
<1>7. moved \in SUBSET Master!Rows /\ moved \subseteq DOMAIN ps.sealed
  BY <1>6
<1> HIDE DEF moved
<1>8. RowsInv'
  <2>1. \A r \in moved : /\ ps.sealed[r].key \in GenKeys /\ ps.sealed[r].key # Master!EnvKey
                         /\ ps.sealed[r].secret \in Nat /\ ps.target <= ps.sealed[r].key.ver
    BY <1>5, <1>6, <1>7, KeyFacts
  <2> SUFFICES ASSUME NEW r \in Master!Rows
               PROVE  /\ rows'[r] \in [col : Gens, key : GenKeys, secret : Nat]
                      /\ rows'[r].col <= rows'[r].key.ver
                      /\ retired => rows'[r].key # Master!EnvKey
    BY <1>1, <1>2 DEF RowsInv
  <2>2. CASE r \in moved
    BY <1>1, <1>4, <2>1, <2>2
  <2>3. CASE r \notin moved
    BY <1>1, <2>3 DEF RowsInv
  <2> QED BY <2>2, <2>3
<1>9. PassOK(qs)
  <2>1. CASE ps.full
    <3>1. qs = [at |-> "read", node |-> ps.node, target |-> ps.target, failed |-> ps.failed,
                touched |-> ps.touched, versions |-> ps.versions, after |-> ps.after]
      BY <2>1
    <3> HIDE DEF qs
    <3>2. qs \in PassShape
      BY <1>4, <3>1 DEF PassShape
    <3> QED BY <1>5, <3>1, <3>2 DEF PassOK
  <2>2. CASE ~ ps.full
    <3>1. qs = Master!AtVersions(ps, ps.versions \ {ps.version})
      BY <2>2
    <3> HIDE DEF qs
    <3> QED BY <1>4, <1>5, <3>1, VersionsOK
  <2> QED BY <2>1, <2>2
<1> HIDE DEF qs
<1>10. \A q \in Passes : PassOK(told[q])
  BY <1>7, TouchedOK
<1>11. DOMAIN told = Passes /\ told = [q \in Passes |-> told[q]]
  BY DEF Master!Touched
<1> HIDE DEF told
<1>12. \A q \in Passes : PassOK(pass'[q])
  BY <1>1, <1>9, <1>10, <1>11
<1>13. \A q \in Passes : PassOK(pass[q])'
  BY <1>1, <1>2, <1>12 DEF PassOK
<1>14. PassesInv'
  BY <1>1, <1>11, <1>13, PassesFrom
<1>15. TableInv' /\ NodesInv' /\ MakerInv' /\ WritersInv'
  BY <1>1, <1>2 DEF TableInv, NodesInv, NodeOK, NodeShape, MakerInv, WritersInv, WriterShape
<1> QED BY <1>8, <1>14, <1>15

(* Every step.                                                              *)
LEMMA NextMaster == ASSUME Master!MasterKeysAssumption, MasterInv, LatestInv, Master!Next
                    PROVE  MasterInv' /\ LatestInv'
<1>1. LatestInv'
  <2>1. CASE \E w \in Writers : Master!Store(w)
    <3>1. PICK w \in Writers : Master!Store(w)
      BY <2>1
    <3>2. latest' = [latest EXCEPT ![writer[w].row] = @ + 1]
      BY <3>1 DEF Master!Store
    <3>3. \A r \in Master!Rows : latest[r] + 1 \in Nat
      BY DEF LatestInv
    <3> QED BY <3>2, <3>3 DEF LatestInv
  <2>2. CASE ~ \E w \in Writers : Master!Store(w)
    <3>1. UNCHANGED latest
      BY <2>2 DEF Master!Next, Master!Refresh, Master!Read, Master!Stop, Master!Attach,
         Master!Check,
                  Master!Retire, Master!Make, Master!MadeElsewhere, Master!Insert, Master!Seal,
                  Master!PassStart, Master!PassVersions, Master!PassRead, Master!PassWrite,
                  Master!PassEnd
    <3> QED BY <3>1 DEF LatestInv
  <2> QED BY <2>1, <2>2
<1>2. ASSUME NEW n \in Nodes, Master!Refresh(n) PROVE MasterInv'
  BY <1>2, MasterLoads DEF Master!Refresh
<1>3. ASSUME NEW n \in Nodes, NEW r \in Master!Rows, Master!Read(n, r) PROVE MasterInv'
  BY <1>3, MasterLoads DEF Master!Read
<1>4. ASSUME NEW n \in Nodes,
             Master!Stop(n) \/ Master!Check(n) \/ Master!MadeElsewhere(n)
      PROVE  MasterInv'
  BY <1>4, MasterStop, MasterCheck, MasterMadeElsewhere
<1>5. ASSUME NEW n \in Nodes, NEW env \in {{}, {EnvVersion}}, Master!Attach(n, env) PROVE MasterInv'
  BY <1>5, MasterAttach
<1>6. ASSUME NEW n \in Nodes, NEW force \in BOOLEAN, Master!Make(n, force) PROVE MasterInv'
  BY <1>6, MasterMake
<1>7. ASSUME NEW n \in Nodes, NEW w \in Writers, NEW r \in Master!Rows, Master!Seal(w, n, r)
      PROVE  MasterInv'
  BY <1>7, MasterSeal
<1>8. ASSUME NEW n \in Nodes, NEW p \in Passes, Master!PassStart(p, n) PROVE MasterInv'
  BY <1>8, MasterPassStart
<1>9. ASSUME NEW w \in Writers, Master!Store(w) PROVE MasterInv'
  BY <1>9, MasterStore
<1>10. ASSUME NEW p \in Passes,
              \/ Master!PassVersions(p) \/ Master!PassRead(p) \/ Master!PassWrite(p)
              \/ Master!PassEnd(p)
       PROVE  MasterInv'
  BY <1>10, MasterPassVersions, MasterPassRead, MasterPassWrite, MasterPassEnd
<1>11. MasterInv'
  BY <1>2, <1>3, <1>4, <1>5, <1>6, <1>7, <1>8, <1>9, <1>10, MasterInsert, MasterRetire
     DEF Master!Next
<1> QED BY <1>1, <1>11

(* A stutter changes nothing.                                               *)
LEMMA StutterMaster == ASSUME MasterInv, LatestInv, UNCHANGED Master!vars
                       PROVE  MasterInv' /\ LatestInv'
  BY DEF Master!vars, MasterInv, LatestInv, TableInv, RowsInv, NodesInv, NodeOK, NodeShape,
     MakerInv,
         WritersInv, WriterShape, PassesInv, PassOK, PassShape, Sealed, Gens, KmsKeys, GenKeys

(* The number of a row's key names one key, which is there.                 *)
LEMMA ReadableRows == ASSUME Master!MasterKeysAssumption, MasterInv PROVE Master!RowsReadable
<1> USE DEF MasterInv
<1> SUFFICES ASSUME NEW r \in Master!Rows
             PROVE  {k \in (IF retired THEN {} ELSE {Master!EnvKey})
                            \cup {Master!KmsKey(v) : v \in table} : k.ver = rows[r].key.ver}
                      = {rows[r].key}
  BY DEF Master!RowsReadable
<1> DEFINE all == (IF retired THEN {} ELSE {Master!EnvKey}) \cup KmsKeys
<1>1. rows[r].key \in GenKeys /\ (retired => rows[r].key # Master!EnvKey)
  BY DEF RowsInv
<1>2. rows[r].key \in all /\ all \subseteq GenKeys
  BY <1>1 DEF GenKeys
<1>3. \A k, j \in GenKeys : k.ver = j.ver => k = j
  BY KeyFacts DEF GenKeys, KmsKeys, Master!KmsKey
<1>4. {k \in all : k.ver = rows[r].key.ver} = {rows[r].key}
  BY <1>2, <1>3
<1> QED BY <1>4 DEF KmsKeys

(* Every stored secret can be opened, whatever nodes, requests and passes   *)
(* do, also after MASTER_KEY is gone.                                       *)
THEOREM SecretsReadable == ASSUME Master!MasterKeysAssumption
                           PROVE  Master!Spec => []Master!RowsReadable
<1>1. Master!Init => MasterInv /\ LatestInv
  BY InitLatest
<1>2. MasterInv /\ LatestInv /\ [Master!Next]_Master!vars => MasterInv' /\ LatestInv'
  BY NextMaster, StutterMaster
<1>3. MasterInv => Master!RowsReadable
  BY ReadableRows
<1> QED BY <1>1, <1>2, <1>3, PTL DEF Master!Spec

-----------------------------------------------------------------------------
(* A pass that has sealed copies: what is known of them.                    *)
LEMMA CopiesOf ==
    ASSUME Master!MasterKeysAssumption, MasterInv, NEW p \in Passes, pass[p].at = "write"
    PROVE  /\ Master!Running(pass[p])
           /\ pass[p].target \in Gens /\ pass[p].version \in Gens
           /\ pass[p].target \in Nat /\ pass[p].version \in Nat
           /\ pass[p].version # pass[p].target /\ pass[p].version \in pass[p].versions
           /\ DOMAIN pass[p].sealed \subseteq Master!Rows
           /\ \A r \in DOMAIN pass[p].sealed : pass[p].target <= pass[p].sealed[r].key.ver
<1>1. PassOK(pass[p]) /\ pass[p] \in PassShape
  BY DEF MasterInv, PassesInv
<1>2. /\ pass[p].target \in Gens /\ pass[p].version \in Gens /\ pass[p].versions \in SUBSET Gens
      /\ pass[p].sealed \in Sealed
  BY <1>1 DEF PassShape, Master!Idle, Master!Ended
<1>3. pass[p].versions \in SUBSET Nat /\ pass[p].versions # {}
  BY <1>1, <1>2, KeyFacts DEF PassOK, MasterInv
<1>4. pass[p].version \in pass[p].versions /\ pass[p].target \notin pass[p].versions
  BY <1>1, <1>3, MinOf DEF PassOK
<1>5. pass[p].target \in Nat /\ pass[p].version \in Nat
  BY <1>2, KeyFacts DEF MasterInv
<1>6. Master!Running(pass[p])
  BY DEF Master!Running, Master!Idle, Master!Ended
<1>7. DOMAIN pass[p].sealed \subseteq Master!Rows
  BY <1>2 DEF Sealed
<1> QED BY <1>1, <1>2, <1>4, <1>5, <1>6, <1>7 DEF PassOK

(* Steps that store nothing and read no page.                               *)
LEMMA SecretsKept == ASSUME SecretsInv, UNCHANGED <<rows, latest, crossed>>,
                            \A p \in Passes : pass'[p].at = "write" => pass'[p] = pass[p]
                     PROVE  SecretsInv'
  BY DEF SecretsInv, Outdated

(* A request stores a row: unless it is crossed, everyone is on the newest  *)
(* generation, and so is the row.                                           *)
LEMMA SecretsStore == ASSUME Master!MasterKeysAssumption, MasterInv, LatestInv, SecretsInv,
                             NEW w \in Writers, Master!Store(w)
                      PROVE  SecretsInv'
<1> DEFINE r == writer[w].row  key == writer[w].key  v == key.ver
<1>1. /\ rows' = [rows EXCEPT ![r] = [col |-> key.ver, key |-> key, secret |-> latest[r] + 1]]
      /\ latest' = [latest EXCEPT ![r] = @ + 1]
      /\ crossed' = IF Master!Overtaken(r, v) THEN crossed \cup {r} ELSE crossed \ {r}
      /\ pass' = Master!Touched(None, {r}, v) /\ Master!Running(writer[w])
  BY DEF Master!Store
<1>2. r \in Master!Rows /\ key \in GenKeys
  BY <1>1 DEF MasterInv, WritersInv, WriterShape, Master!Running
<1>3. v \in Gens /\ v \in Nat
  BY <1>2, KeyFacts DEF MasterInv
<1> HIDE DEF r, key, v
<1>4. {r} \in SUBSET Master!Rows
  BY <1>2
<1>5. \A p \in Passes : /\ pass'[p].at = pass[p].at
                        /\ pass'[p].at = "write" => /\ pass'[p].version = pass[p].version
                                                    /\ pass'[p].target = pass[p].target
                                                    /\ pass'[p].sealed = pass[p].sealed
  <2> SUFFICES ASSUME NEW p \in Passes
               PROVE  /\ pass'[p].at = pass[p].at
                      /\ pass'[p].at = "write" => /\ pass'[p].version = pass[p].version
                                                  /\ pass'[p].target = pass[p].target
                                                  /\ pass'[p].sealed = pass[p].sealed
    OBVIOUS
  <2> DEFINE changed == {r}
  <2>1. changed \in SUBSET Master!Rows
    BY <1>4
  <2> HIDE DEF changed
  <2> DEFINE ps == Master!Touched(None, changed, v)[p]
  <2>2. ps.at = pass[p].at /\ (ps.at = "write" => /\ ps.version = pass[p].version
                                                 /\ ps.target = pass[p].target
                                                 /\ ps.sealed = pass[p].sealed)
    BY <2>1, TouchedKeeps
  <2>3. pass'[p] = ps
    BY <1>1 DEF changed
  <2> HIDE DEF ps
  <2> QED BY <2>2, <2>3
<1> SUFFICES ASSUME NEW x \in Master!Rows \ crossed'
             PROVE  /\ rows'[x].secret = latest'[x]
                    /\ \A p \in Passes : Outdated(p, x)' =>
                          /\ pass'[p].version < pass'[p].target
                          /\ rows'[x].col # pass'[p].version
  BY DEF SecretsInv
<1>6. CASE x # r
  <2>1. x \notin crossed /\ rows'[x] = rows[x] /\ latest'[x] = latest[x]
    BY <1>1, <1>2, <1>6 DEF MasterInv, RowsInv, LatestInv
  <2>2. \A p \in Passes : Outdated(p, x)' => Outdated(p, x)
    BY <1>5, <2>1 DEF Outdated
  <2> QED BY <1>5, <2>1, <2>2 DEF SecretsInv, Outdated
<1>7. CASE x = r
  <2>1. ~ Master!Overtaken(r, v)
    BY <1>1, <1>7
  <2>2. rows'[x].secret = latest'[x] /\ rows'[x].col = v
    BY <1>1, <1>2, <1>7 DEF MasterInv, RowsInv, LatestInv, v
  <2>3. ASSUME NEW p \in Passes, Outdated(p, x)'
        PROVE  pass'[p].version < pass'[p].target /\ rows'[x].col # pass'[p].version
    <3>1. pass[p].at = "write" /\ r \in DOMAIN pass[p].sealed
      BY <1>5, <1>7, <2>3 DEF Outdated
    <3>2. /\ Master!Running(pass[p]) /\ pass[p].target \in Gens /\ pass[p].version \in Gens
          /\ pass[p].target \in Nat /\ pass[p].version \in Nat
          /\ pass[p].version # pass[p].target
      BY <3>1, CopiesOf
    <3> DEFINE targets == {pass[q].target : q \in {q \in Passes : Master!Running(pass[q])}}
               low == Master!Min(targets \cup {v})
    <3>3. \A newer \in table : ~ (newer > low)
      BY <2>1, <3>1 DEF Master!Overtaken
    <3>4. pass[p].target \in targets /\ targets \subseteq Gens
      <4>1. \A q \in Passes : Master!Running(pass[q]) => pass[q].target \in Gens
        BY DEF MasterInv, PassesInv, PassShape, Master!Running
      <4> QED BY <3>2, <4>1
    <3>5. low \in Nat /\ low <= pass[p].target /\ low <= v
      <4> DEFINE S == targets \cup {v}
      <4>1. S \in SUBSET Nat /\ S # {} /\ v \in S /\ pass[p].target \in S
        BY <1>3, <3>4, KeyFacts DEF MasterInv
      <4> HIDE DEF S
      <4>2. Master!Min(S) \in S /\ \A t \in S : Master!Min(S) <= t
        BY <4>1, MinOf
      <4> QED BY <4>1, <4>2 DEF S
    <3> HIDE DEF low
    <3>6. /\ EnvVersion \in Nat /\ Gens = {EnvVersion} \cup table
          /\ \A g \in table : g \in Nat /\ g > EnvVersion
      BY KeyFacts DEF MasterInv, Gens
    <3>7. pass[p].version < pass[p].target
      BY <3>2, <3>3, <3>5, <3>6
    <3>8. v # pass[p].version
      BY <1>3, <3>2, <3>3, <3>5, <3>6, <3>7
    <3> QED BY <1>5, <2>2, <2>3, <3>7, <3>8 DEF Outdated
  <2> QED BY <2>2, <2>3
<1> QED BY <1>6, <1>7

(* A page that is read holds what was stored last.                          *)
LEMMA SecretsRead == ASSUME SecretsInv, MasterInv, NEW p \in Passes, Master!PassRead(p)
                     PROVE  SecretsInv'
<1> DEFINE page == Master!PageOf(Master!Min(pass[p].versions), pass[p].after)
<1>1. UNCHANGED <<rows, latest, crossed>> /\ \A q \in Passes \ {p} : pass'[q] = pass[q]
  BY DEF Master!PassRead, MasterInv, PassesInv
<1>2. pass'[p].at = "write" => \A r \in DOMAIN pass'[p].sealed :
                                 pass'[p].sealed[r].secret = rows[r].secret
  <2>1. CASE page = {}
    <3>1. pass'[p] = Master!AtVersions(pass[p], pass[p].versions \ {Master!Min(pass[p].versions)})
      BY <2>1 DEF Master!PassRead, MasterInv, PassesInv
    <3> QED BY <3>1 DEF Master!AtVersions
  <2>2. CASE page # {}
    BY <2>2 DEF Master!PassRead, MasterInv, PassesInv
  <2> QED BY <2>1, <2>2
<1> QED BY <1>1, <1>2 DEF SecretsInv, Outdated

(* A pass writes back what was stored last, and under a column that no      *)
(* outdated copy waits for.                                                 *)
LEMMA SecretsWrite == ASSUME Master!MasterKeysAssumption, MasterInv, LatestInv, SecretsInv,
                             NEW p \in Passes, Master!PassWrite(p)
                      PROVE  SecretsInv'
<1> DEFINE ps == pass[p]
           moved == {r \in DOMAIN ps.sealed : Master!StillThere(r, ps.version)}
<1>1. /\ ps.at = "write" /\ UNCHANGED <<table, latest>>
      /\ crossed' = crossed \cup {r \in moved : Master!PutBack(p, r)}
      /\ rows' = [r \in Master!Rows |-> IF r \in moved
                                        THEN [col |-> ps.target, key |-> ps.sealed[r].key,
                                              secret |-> ps.sealed[r].secret]
                                        ELSE rows[r]]
  BY DEF Master!PassWrite
<1>2. /\ pass'[p].at # "write"
      /\ \A q \in Passes \ {p} : pass'[q] = Master!Touched(p, moved, ps.target)[q]
  <2>1. DOMAIN Master!Touched(p, moved, ps.target) = Passes
    BY DEF Master!Touched
  <2>2. pass'[p].at # "write"
    BY <2>1 DEF Master!PassWrite, Master!AtVersions
  <2>3. \A q \in Passes \ {p} : pass'[q] = Master!Touched(p, moved, ps.target)[q]
    BY <2>1 DEF Master!PassWrite
  <2> QED BY <2>2, <2>3
<1>3. moved \in SUBSET Master!Rows /\ ps.target \in Gens /\ ps.target \in Nat
  BY <1>1, CopiesOf
<1>4. \A r \in moved : r \in DOMAIN ps.sealed /\ rows[r].col = ps.version
  BY DEF Master!StillThere
<1> HIDE DEF moved
<1>5. \A q \in Passes : pass'[q].at = "write" =>
        /\ q # p /\ pass[q].at = "write" /\ pass'[q].version = pass[q].version
        /\ pass'[q].target = pass[q].target /\ pass'[q].sealed = pass[q].sealed
  <2> SUFFICES ASSUME NEW q \in Passes, pass'[q].at = "write"
               PROVE  /\ q # p /\ pass[q].at = "write" /\ pass'[q].version = pass[q].version
                      /\ pass'[q].target = pass[q].target /\ pass'[q].sealed = pass[q].sealed
    OBVIOUS
  <2>1. q # p
    BY <1>2
  <2>2. pass'[q] = Master!Touched(p, moved, ps.target)[q]
    BY <1>2, <2>1
  <2> DEFINE ts == Master!Touched(p, moved, ps.target)[q]
  <2>3. ts.at = pass[q].at /\ (ts.at = "write" => /\ ts.version = pass[q].version
                                                 /\ ts.target = pass[q].target
                                                 /\ ts.sealed = pass[q].sealed)
    BY <1>3, TouchedKeeps
  <2> HIDE DEF ts
  <2>4. pass'[q] = ts
    BY <2>2 DEF ts
  <2> QED BY <2>1, <2>3, <2>4
<1> SUFFICES ASSUME NEW x \in Master!Rows \ crossed'
             PROVE  /\ rows'[x].secret = latest'[x]
                    /\ \A q \in Passes : Outdated(q, x)' =>
                          /\ pass'[q].version < pass'[q].target
                          /\ rows'[x].col # pass'[q].version
  BY DEF SecretsInv
<1>6. \A q \in Passes : Outdated(q, x)' => Outdated(q, x)
  BY <1>1, <1>5 DEF Outdated
<1>7. x \notin crossed
  BY <1>1
<1>8. CASE x \notin moved
  <2>1. rows'[x] = rows[x]
    BY <1>1, <1>8
  <2> QED BY <1>1, <1>5, <1>6, <1>7, <2>1 DEF SecretsInv, Outdated
<1>9. CASE x \in moved
  <2>1. rows'[x].secret = ps.sealed[x].secret /\ rows'[x].col = ps.target
    BY <1>1, <1>9
  <2>2. ~ Outdated(p, x)
    BY <1>4, <1>7, <1>9 DEF SecretsInv
  <2>3. ps.sealed[x].secret = latest[x]
    BY <1>1, <1>4, <1>9, <2>2 DEF Outdated
  <2>4. ASSUME NEW q \in Passes, Outdated(q, x)'
        PROVE  pass'[q].version < pass'[q].target /\ rows'[x].col # pass'[q].version
    <3>1. /\ Outdated(q, x) /\ q # p /\ pass[q].at = "write"
          /\ pass'[q].version = pass[q].version /\ pass'[q].target = pass[q].target
      BY <1>5, <1>6, <2>4 DEF Outdated
    <3>2. pass[q].version < pass[q].target
      BY <1>7, <3>1 DEF SecretsInv
    <3>3. /\ pass[q].target \in Gens /\ pass[q].target \in Nat /\ pass[q].version \in Nat
          /\ pass[q].version \in Gens
      BY <3>1, CopiesOf
    <3>4. ~ Master!PutBack(p, x)
      BY <1>1, <1>9
    <3>5. \A newer \in table : ~ (newer > ps.target)
      BY <2>3, <3>1, <3>4 DEF Master!PutBack, Outdated
    <3>6. /\ EnvVersion \in Nat /\ Gens = {EnvVersion} \cup table
          /\ \A g \in table : g \in Nat /\ g > EnvVersion
      BY KeyFacts DEF MasterInv, Gens
    <3>7. ps.target # pass[q].version
      BY <1>3, <3>2, <3>3, <3>5, <3>6
    <3> QED BY <2>1, <3>1, <3>2, <3>7
  <2> QED BY <1>1, <2>1, <2>3, <2>4
<1> QED BY <1>8, <1>9

(* Every step.                                                              *)
LEMMA NextSecrets == ASSUME Master!MasterKeysAssumption, MasterInv, LatestInv, SecretsInv,
                            Master!Next
                     PROVE  SecretsInv'
<1> USE DEF MasterInv, PassesInv
<1>1. ASSUME NEW n \in Nodes, Master!Stop(n) PROVE SecretsInv'
  <2>1. \A p \in Passes : pass'[p].at = "write" => pass'[p] = pass[p]
    BY <1>1 DEF Master!Stop, Master!Ended
  <2> QED BY <1>1, <2>1, SecretsKept DEF Master!Stop
<1>2. ASSUME NEW n \in Nodes, NEW p \in Passes, Master!PassStart(p, n) PROVE SecretsInv'
  <2>1. \A q \in Passes : pass'[q].at = "write" => pass'[q] = pass[q]
    BY <1>2 DEF Master!PassStart
  <2> QED BY <1>2, <2>1, SecretsKept DEF Master!PassStart
<1>3. ASSUME NEW p \in Passes, Master!PassVersions(p) PROVE SecretsInv'
  <2>1. \A q \in Passes : pass'[q].at = "write" => pass'[q] = pass[q]
    BY <1>3 DEF Master!PassVersions, Master!AtVersions
  <2> QED BY <1>3, <2>1, SecretsKept DEF Master!PassVersions
<1>4. ASSUME NEW p \in Passes, Master!PassEnd(p) PROVE SecretsInv'
  <2>1. \A q \in Passes : pass'[q].at = "write" => pass'[q] = pass[q]
    BY <1>4 DEF Master!PassEnd, Master!Ended
  <2> QED BY <1>4, <2>1, SecretsKept DEF Master!PassEnd
<1>5. CASE UNCHANGED <<rows, latest, crossed, pass>>
  BY <1>5, SecretsKept
<1>6. CASE \E w \in Writers : Master!Store(w)
  BY <1>6, SecretsStore
<1>7. ASSUME NEW p \in Passes, Master!PassRead(p) \/ Master!PassWrite(p) PROVE SecretsInv'
  BY <1>7, SecretsRead, SecretsWrite
<1> QED
  BY <1>1, <1>2, <1>3, <1>4, <1>5, <1>6, <1>7
  DEF Master!Next, Master!Refresh, Master!Read, Master!Attach, Master!Check, Master!Retire,
      Master!Make, Master!MadeElsewhere, Master!Insert, Master!Seal

(* A rotation changes no secret, for any number of nodes, requests and      *)
(* passes, but for rows stored or put back under someone who was behind.    *)
THEOREM SecretsSurvive == ASSUME Master!MasterKeysAssumption
                          PROVE  Master!Spec => []Master!RotationKeepsSecrets
<1> DEFINE Inv == MasterInv /\ LatestInv /\ SecretsInv
<1>1. Master!Init => Inv
  <2>1. Master!Init => SecretsInv
    BY DEF Master!Init, SecretsInv, Outdated, Master!Idle
  <2> QED BY <2>1, InitLatest
<1>2. Inv /\ [Master!Next]_Master!vars => Inv'
  <2>1. ASSUME Inv, Master!Next PROVE Inv'
    BY <2>1, NextMaster, NextSecrets
  <2>2. ASSUME Inv, UNCHANGED Master!vars PROVE Inv'
    BY <2>2, StutterMaster, SecretsKept DEF Master!vars
  <2> QED BY <2>1, <2>2
<1>3. Inv => Master!RotationKeepsSecrets
  BY DEF SecretsInv, Master!RotationKeepsSecrets
<1> QED BY <1>1, <1>2, <1>3, PTL DEF Master!Spec

-----------------------------------------------------------------------------
(* Counting is counting.                                                    *)
LEMMA CountedAlike == ASSUME NEW S PROVE Master!Cardinality(S) = Cardinality(S)
  BY Zenon DEF Master!Cardinality, Cardinality

(* A page is the first rows that are left, so that the cursor passes over   *)
(* none of them, and only a full page leaves some.                          *)
LEMMA PageScan ==
    ASSUME Master!MasterKeysAssumption, NEW v, NEW after, NEW left, NEW page,
           left = {r \in Master!Rows : rows[r].col = v /\ r > after},
           page = Master!PageOf(v, after)
    PROVE  /\ page \subseteq left /\ (page = {} => left = {})
           /\ page # {} => \A r \in left \ page : r > Master!Max(page)
           /\ Master!Cardinality(page) # Batch => left \subseteq page
<1> DEFINE below(r) == {q \in left : q < r}
<1>1. /\ NRows \in Nat /\ Batch \in Nat /\ Batch > 0 /\ left \in SUBSET Nat
      /\ left \subseteq 1..NRows /\ \A r \in left : r <= NRows
  BY DEF Master!MasterKeysAssumption, Master!Rows
<1>2. page = {r \in left : Cardinality(below(r)) < Batch}
  BY CountedAlike DEF Master!PageOf
<1>3. IsFiniteSet(left)
  <2>1. IsFiniteSet(1..NRows)
    BY <1>1, FS_Interval, 1 \in Int, NRows \in Int
  <2>2. left \in SUBSET (1..NRows)
    BY <1>1
  <2> QED BY <2>1, <2>2, FS_Subset
<1>4. \A S \in SUBSET left : /\ IsFiniteSet(S) /\ Cardinality(S) \in Nat
                             /\ \A T \in SUBSET S : Cardinality(T) <= Cardinality(S)
  BY <1>3, FS_Subset, FS_CardinalityType
<1>5. \A r : below(r) \in SUBSET left
  OBVIOUS
<1>6. page = {} => left = {}
  <2> SUFFICES ASSUME left # {} PROVE page # {}
    OBVIOUS
  <2>1. PICK m \in left : \A t \in left : m <= t
    BY <1>1, LeastOf
  <2>2. below(m) = {}
    BY <1>1, <2>1
  <2>3. Cardinality(below(m)) = 0
    BY <2>2, FS_EmptySet
  <2> QED BY <1>1, <1>2, <2>1, <2>3
<1>7. page \in SUBSET left /\ page \in SUBSET Nat
  BY <1>1, <1>2
<1>8. page # {} => Master!Max(page) \in page /\ \A t \in page : t <= Master!Max(page)
  BY <1>1, <1>7, MaxOf
<1>9. page # {} => \A r \in left \ page : r > Master!Max(page)
  <2> SUFFICES ASSUME page # {}, NEW r \in left \ page, ~ (r > Master!Max(page)) PROVE FALSE
    OBVIOUS
  <2> DEFINE m == Master!Max(page)
  <2>1. m \in page /\ m \in Nat /\ r \in Nat
    BY <1>1, <1>7, <1>8
  <2> HIDE DEF m
  <2>2. r <= m
    BY <2>1 DEF m
  <2>3. below(r) \in SUBSET below(m)
    BY <1>1, <2>1, <2>2
  <2>4. /\ Cardinality(below(r)) <= Cardinality(below(m)) /\ Cardinality(below(m)) < Batch
        /\ Cardinality(below(r)) \in Nat /\ Cardinality(below(m)) \in Nat
    <3>1. below(m) \in SUBSET left /\ below(r) \in SUBSET left
      OBVIOUS
    <3>2. Cardinality(below(m)) < Batch
      BY <1>2, <2>1
    <3> HIDE DEF below
    <3> QED BY <1>4, <2>3, <3>1, <3>2
  <2>5. Cardinality(below(r)) < Batch
    BY <1>1, <2>4
  <2> QED BY <1>2, <2>5
<1>10. Master!Cardinality(page) # Batch => left \subseteq page
  <2> SUFFICES ASSUME left \ page # {} PROVE Cardinality(page) = Batch
    BY CountedAlike
  <2> DEFINE rest == left \ page
  <2>0. rest \in SUBSET Nat /\ rest # {}
    BY <1>1
  <2> HIDE DEF rest
  <2>1. PICK r \in rest : \A t \in rest : r <= t
    BY <2>0, LeastOf
  <2>2. r \in left /\ r \notin page
    BY <2>1 DEF rest
  <2>3. below(r) \in SUBSET page
    BY <1>1, <2>1, <2>2 DEF rest
  <2>4. Cardinality(below(r)) \in Nat /\ Cardinality(page) \in Nat
        /\ Cardinality(below(r)) <= Cardinality(page)
    <3>1. below(r) \in SUBSET left
      OBVIOUS
    <3> HIDE DEF below
    <3> QED BY <1>4, <1>7, <2>3, <3>1
  <2>5. ~ (Cardinality(below(r)) < Batch)
    BY <1>2, <2>2
  <2>6. Cardinality(page) >= Batch
    BY <1>1, <2>4, <2>5
  <2>7. page # {}
    <3>1. Cardinality({}) = 0
      BY FS_EmptySet
    <3> QED BY <1>1, <2>6, <3>1
  <2> DEFINE m == Master!Max(page)
  <2>8. m \in page /\ \A t \in page : t <= m
    BY <1>8, <2>7
  <2> HIDE DEF m
  <2>9. page \in SUBSET (below(m) \cup {m})
    BY <1>1, <1>7, <2>8
  <2>10. below(m) \in SUBSET left
    OBVIOUS
  <2>11. Cardinality(below(m)) < Batch
    BY <1>2, <2>8
  <2> HIDE DEF below
  <2>12. IsFiniteSet(below(m)) /\ Cardinality(below(m)) \in Nat
    BY <1>4, <2>10
  <2>13. /\ IsFiniteSet(below(m) \cup {m})
         /\ Cardinality(below(m) \cup {m}) <= Cardinality(below(m)) + 1
         /\ Cardinality(below(m) \cup {m}) \in Nat
    <3>1. /\ IsFiniteSet(below(m) \cup {m})
          /\ Cardinality(below(m) \cup {m}) =
               IF m \in below(m) THEN Cardinality(below(m)) ELSE Cardinality(below(m)) + 1
      BY <2>12, FS_AddElement
    <3> QED BY <2>12, <3>1
  <2>14. Cardinality(page) <= Cardinality(below(m) \cup {m})
    BY <2>9, <2>13, FS_Subset
  <2> QED BY <1>1, <2>4, <2>6, <2>11, <2>12, <2>13, <2>14
<1> QED BY <1>6, <1>7, <1>9, <1>10

(* The fields of a pass that has versions to visit.                         *)
LEMMA ScanFields ==
    ASSUME Master!MasterKeysAssumption, MasterInv, NEW p \in Passes
    PROVE  /\ pass[p].at \notin {"idle", "ended"} =>
                /\ pass[p].target \in Nat /\ pass[p].target \in Gens
                /\ pass[p].failed \subseteq Master!Rows /\ pass[p].touched \subseteq Master!Rows
           /\ pass[p].at \in {"read", "write"} =>
                /\ pass[p].versions \in SUBSET Nat /\ pass[p].versions # {}
                /\ Master!Min(pass[p].versions) \in pass[p].versions
           /\ pass[p].at = "write" => pass[p].version = Master!Min(pass[p].versions)
<1>1. PassOK(pass[p]) /\ pass[p] \in PassShape
  BY DEF MasterInv, PassesInv
<1>2. pass[p].at \notin {"idle", "ended"} =>
        /\ pass[p].target \in Gens /\ pass[p].failed \subseteq Master!Rows
        /\ pass[p].touched \subseteq Master!Rows
  BY <1>1 DEF PassShape, Master!Idle, Master!Ended
<1>3. pass[p].at \in {"read", "write"} => pass[p].versions \in SUBSET Gens
  BY <1>1 DEF PassShape, Master!Idle, Master!Ended
<1>4. Gens \subseteq Nat
  BY KeyFacts DEF MasterInv
<1>5. pass[p].at \in {"read", "write"} => pass[p].versions \in SUBSET Nat /\ pass[p].versions # {}
  BY <1>1, <1>3, <1>4 DEF PassOK
<1>6. pass[p].at \in {"read", "write"} => Master!Min(pass[p].versions) \in pass[p].versions
  BY <1>5, MinOf
<1>7. pass[p].at = "write" => pass[p].version = Master!Min(pass[p].versions)
  BY <1>1 DEF PassOK
<1> QED BY <1>2, <1>4, <1>5, <1>6, <1>7

(* What a row says of itself, in numbers.                                   *)
LEMMA RowNumbers ==
    ASSUME Master!MasterKeysAssumption, MasterInv, NEW r \in Master!Rows
    PROVE  /\ rows[r].col \in Nat /\ rows[r].key.ver \in Nat /\ rows[r].col <= rows[r].key.ver
           /\ r \in Nat /\ r > 0
<1>1. rows[r].col \in Gens /\ rows[r].key \in GenKeys /\ rows[r].col <= rows[r].key.ver
  BY DEF MasterInv, RowsInv
<1>2. r \in Nat /\ r > 0
  BY KeyFacts DEF Master!Rows, MasterInv
<1> QED BY <1>1, <1>2, KeyFacts DEF MasterInv

(* Going on to the versions left: a row owed that is under one of them is   *)
(* ahead.                                                                   *)
LEMMA AheadOf ==
    ASSUME NEW ps, NEW vs, NEW r \in Master!Rows, rows[r].col \in vs, NRows \in Nat
    PROVE  Ahead(Master!AtVersions(ps, vs), r)
<1>1. Master!AtVersions(ps, vs) =
        [at |-> "read", node |-> ps.node, target |-> ps.target, failed |-> ps.failed,
         touched |-> ps.touched, versions |-> vs, after |-> 0]
  BY DEF Master!AtVersions
<1>2. r > 0
  BY DEF Master!Rows
<1> QED BY <1>1, <1>2 DEF Ahead

(* Steps that write no row and move no pass.                                *)
LEMMA ScanKept ==
    ASSUME ScanInv, UNCHANGED rows,
           \A p \in Passes : pass'[p].at \in {"read", "write", "done"} => pass'[p] = pass[p]
    PROVE  ScanInv'
  BY DEF ScanInv, Owed, Ahead

(* A pass that was told of others' writes is where it was.                  *)
LEMMA ScanTold ==
    ASSUME Master!MasterKeysAssumption, MasterInv, ScanInv, NEW by,
           NEW changed \in SUBSET Master!Rows, NEW ver, NEW p \in Passes, NEW ps,
           ps = Master!Touched(by, changed, ver)[p], ps.at \in {"read", "write", "done"},
           NEW x \in Master!Rows, rows[x].key.ver < ps.target, x \notin ps.failed \cup ps.touched
    PROVE  Ahead(ps, x)
<1>1. /\ ps.at = pass[p].at /\ ps.target = pass[p].target
      /\ ps.failed = pass[p].failed /\ pass[p].touched \subseteq ps.touched
      /\ ps.at \in {"read", "write"} => ps.versions = pass[p].versions /\ ps.after = pass[p].after
      /\ ps.at = "write" => /\ ps.version = pass[p].version /\ ps.full = pass[p].full
                            /\ ps.sealed = pass[p].sealed
  BY TouchedKeeps
<1>2. Owed(p, x)
  BY <1>1 DEF Owed
<1>3. Ahead(pass[p], x)
  BY <1>1, <1>2 DEF ScanInv
<1> QED BY <1>1, <1>3 DEF Ahead

(* A pass that was told of them still runs, with the same target.           *)
LEMMA ToldAt ==
    ASSUME MasterInv, NEW by, NEW q \in Passes, NEW changed \in SUBSET Master!Rows,
           NEW ver, NEW ts, ts = Master!Touched(by, changed, ver)[q],
           ts.at \notin {"idle", "ended"}
    PROVE  /\ ts.target = pass[q].target /\ ts.at = pass[q].at
           /\ Master!Running(pass[q]) /\ "touched" \in DOMAIN pass[q]
<1>1. Master!Running(pass[q])
  <2> SUFFICES ASSUME ~ Master!Running(pass[q]) PROVE FALSE
    OBVIOUS
  <2>1. ts = pass[q] /\ pass[q] \in {Master!Idle, Master!Ended}
    BY DEF Master!Touched, Master!Running
  <2> QED BY <2>1 DEF Master!Idle, Master!Ended
<1>2. pass[q] \in PassShape /\ pass[q] \notin {Master!Idle, Master!Ended}
  BY <1>1 DEF MasterInv, PassesInv, Master!Running
<1>3. {"at", "target", "touched"} \subseteq DOMAIN pass[q]
  BY <1>2 DEF PassShape
<1>4. ts = pass[q] \/ ts = [pass[q] EXCEPT !.touched = @ \cup changed]
  BY DEF Master!Touched
<1>5. ts.target = pass[q].target /\ ts.at = pass[q].at
  BY <1>3, <1>4
<1> QED BY <1>1, <1>3, <1>5

(* A row stored below the target of a pass is one it is told of.            *)
LEMMA ScanStore == ASSUME Master!MasterKeysAssumption, MasterInv, ScanInv, NEW w \in Writers,
                          Master!Store(w)
                   PROVE  ScanInv'
<1> DEFINE r == writer[w].row  key == writer[w].key  v == key.ver  changed == {r}
<1>1. /\ rows' = [rows EXCEPT ![r] = [col |-> key.ver, key |-> key, secret |-> latest[r] + 1]]
      /\ pass' = Master!Touched(None, changed, v) /\ Master!Running(writer[w])
  BY DEF Master!Store
<1>2. r \in Master!Rows /\ key \in GenKeys
  BY <1>1 DEF MasterInv, WritersInv, WriterShape, Master!Running
<1>3. v \in Nat /\ changed \in SUBSET Master!Rows
  BY <1>2, KeyFacts DEF MasterInv
<1>4. rows'[r].key.ver = v
  BY <1>1, <1>2 DEF MasterInv, RowsInv
<1> HIDE DEF r, key, v, changed
<1> SUFFICES ASSUME NEW p \in Passes, NEW x \in Master!Rows,
                    pass'[p].at \in {"read", "write", "done"}, Owed(p, x)'
             PROVE  Ahead(pass[p], x)'
  BY DEF ScanInv
<1> DEFINE ps == Master!Touched(None, changed, v)[p]
<1>5. pass'[p] = ps
  BY <1>1
<1>6. CASE x = r
  <2>1. /\ ps.at \notin {"idle", "ended"}
        /\ v < ps.target /\ x \notin ps.touched
    BY <1>4, <1>5, <1>6 DEF Owed
  <2>2. p # None
    BY DEF Master!MasterKeysAssumption
  <2>3. ps.touched = pass[p].touched \cup changed
    BY <1>3, <2>1, <2>2, TouchedKeeps
  <2> QED BY <1>6, <2>1, <2>3 DEF changed
<1>7. CASE x # r
  <2>1. rows'[x] = rows[x]
    BY <1>1, <1>7 DEF MasterInv, RowsInv
  <2>2. rows[x].key.ver < ps.target /\ x \notin ps.failed \cup ps.touched
    BY <1>5, <2>1 DEF Owed
  <2>3. ps.at \in {"read", "write", "done"}
    BY <1>5
  <2>4. Ahead(ps, x)
    BY <1>3, <2>2, <2>3, ScanTold
  <2> HIDE DEF ps
  <2> QED BY <1>5, <2>1, <2>4 DEF Ahead
<1> QED BY <1>6, <1>7

(* A pass sets out to visit every version below its target.                 *)
LEMMA ScanVersions == ASSUME Master!MasterKeysAssumption, MasterInv, ScanInv, NEW p \in Passes,
                             Master!PassVersions(p)
                      PROVE  ScanInv'
<1> DEFINE qs == Master!AtVersions(pass[p], Master!InUse(pass[p].target))
<1>1. UNCHANGED rows /\ pass[p].at = "versions" /\ pass' = [pass EXCEPT ![p] = qs]
  BY DEF Master!PassVersions
<1>2. pass'[p] = qs /\ \A q \in Passes \ {p} : pass'[q] = pass[q]
  BY <1>1 DEF MasterInv, PassesInv
<1>3. qs.target = pass[p].target
  BY DEF Master!AtVersions
<1> SUFFICES ASSUME NEW x \in Master!Rows, Owed(p, x)' PROVE Ahead(pass[p], x)'
  BY <1>1, <1>2 DEF ScanInv, Owed, Ahead
<1>4. rows[x].key.ver < pass[p].target
  BY <1>1, <1>2, <1>3 DEF Owed
<1>5. pass[p].target \in Nat /\ NRows \in Nat
  BY <1>1, ScanFields, KeyFacts DEF MasterInv
<1>6. rows[x].col # pass[p].target
  BY <1>4, <1>5, RowNumbers
<1>7. rows[x].col \in Master!InUse(pass[p].target)
  BY <1>6 DEF Master!InUse
<1>8. Ahead(qs, x)
  BY <1>5, <1>7, AheadOf
<1> HIDE DEF qs
<1> QED BY <1>1, <1>2, <1>8 DEF Ahead

(* A page: what is under the version and not in it lies past the cursor.    *)
LEMMA ScanRead == ASSUME Master!MasterKeysAssumption, MasterInv, ScanInv, NEW p \in Passes,
                         Master!PassRead(p)
                  PROVE  ScanInv'
<1> DEFINE ps == pass[p]
           v == Master!Min(ps.versions)
           page == Master!PageOf(v, ps.after)
           left == {r \in Master!Rows : rows[r].col = v /\ r > ps.after}
           opened(nd) == {r \in page : Master!Opens(nd, rows[r].key)}
           found(nd) == [at |-> "write", node |-> ps.node, target |-> ps.target,
                         failed |-> ps.failed \cup (page \ opened(nd)), touched |-> ps.touched,
                         versions |-> ps.versions, version |-> v, after |-> Master!Max(page),
                         full |-> Master!Cardinality(page) = Batch,
                         sealed |-> [r \in opened(nd) |-> [key |-> Master!KeyOf(nd, nd.current),
                                                           secret |-> rows[r].secret]]]
<1>1. UNCHANGED rows /\ ps.at = "read"
  BY DEF Master!PassRead
<1>2. PICK nd : pass' = [pass EXCEPT ![p] =
                  IF page = {} THEN Master!AtVersions(ps, ps.versions \ {v}) ELSE found(nd)]
  BY DEF Master!PassRead
<1>3. \A q \in Passes \ {p} : pass'[q] = pass[q]
  BY <1>2 DEF MasterInv, PassesInv
<1>4. /\ page \subseteq left /\ (page = {} => left = {})
      /\ page # {} => \A r \in left \ page : r > Master!Max(page)
      /\ Master!Cardinality(page) # Batch => left \subseteq page
  <2> HIDE DEF v
  <2>1. page = Master!PageOf(v, ps.after)
    OBVIOUS
  <2>2. left = {r \in Master!Rows : rows[r].col = v /\ r > ps.after}
    OBVIOUS
  <2> HIDE DEF page, left
  <2> QED BY <2>1, <2>2, PageScan
<1> HIDE DEF page, v
<1> SUFFICES ASSUME NEW x \in Master!Rows, Owed(p, x)' PROVE Ahead(pass[p], x)'
  BY <1>1, <1>3 DEF ScanInv, Owed, Ahead
<1>5. CASE page = {}
  <2> DEFINE qs == Master!AtVersions(ps, ps.versions \ {v})
  <2>1. pass'[p] = qs
    BY <1>2, <1>5 DEF MasterInv, PassesInv
  <2>2. qs.target = ps.target /\ qs.failed = ps.failed /\ qs.touched = ps.touched
    BY DEF Master!AtVersions
  <2>3. Owed(p, x)
    BY <1>1, <2>1, <2>2 DEF Owed
  <2>4. Ahead(ps, x)
    BY <1>1, <2>3 DEF ScanInv
  <2>5. rows[x].col \in ps.versions \ {v}
    BY <1>1, <1>4, <1>5, <2>4 DEF Ahead, v
  <2>6. Ahead(qs, x)
    BY <2>5, AheadOf, KeyFacts DEF MasterInv
  <2> HIDE DEF qs
  <2> QED BY <1>1, <2>1, <2>6 DEF Ahead
<1>6. CASE page # {}
  <2> DEFINE qs == found(nd)
  <2>1. pass'[p] = qs
    BY <1>2, <1>6 DEF MasterInv, PassesInv
  <2>2. /\ qs.at = "write" /\ qs.target = ps.target /\ qs.touched = ps.touched
        /\ qs.failed = ps.failed \cup (page \ opened(nd)) /\ qs.versions = ps.versions
        /\ qs.version = v /\ qs.after = Master!Max(page) /\ DOMAIN qs.sealed = opened(nd)
        /\ qs.full = (Master!Cardinality(page) = Batch)
    OBVIOUS
  <2> HIDE DEF qs, found
  <2>3. Owed(p, x) /\ x \notin page \ opened(nd)
    BY <1>1, <2>1, <2>2 DEF Owed
  <2>4. Ahead(ps, x)
    BY <1>1, <2>3 DEF ScanInv
  <2>5. rows[x].col \in ps.versions /\ (rows[x].col = v => x \in left)
    BY <1>1, <2>4 DEF Ahead, v
  <2> HIDE DEF opened
  <2>6. rows[x].col = v => \/ x \in opened(nd)
                           \/ Master!Cardinality(page) = Batch /\ x > Master!Max(page)
    BY <1>4, <1>6, <2>3, <2>5
  <2>7. Ahead(qs, x)
    BY <2>2, <2>5, <2>6 DEF Ahead
  <2> QED BY <1>1, <2>1, <2>7 DEF Ahead
<1> QED BY <1>5, <1>6

(* A page written: what it held is at the target, or no longer under the    *)
(* version.                                                                 *)
LEMMA ScanWrite == ASSUME Master!MasterKeysAssumption, MasterInv, ScanInv, NEW p \in Passes,
                          Master!PassWrite(p)
                   PROVE  ScanInv'
<1> DEFINE ps == pass[p]
           moved == {r \in DOMAIN ps.sealed : Master!StillThere(r, ps.version)}
           told == Master!Touched(p, moved, ps.target)
           qs == IF ps.full THEN [at |-> "read", node |-> ps.node, target |-> ps.target,
                                  failed |-> ps.failed, touched |-> ps.touched,
                                  versions |-> ps.versions, after |-> ps.after]
                 ELSE Master!AtVersions(ps, ps.versions \ {ps.version})
<1>1. /\ ps.at = "write" /\ pass' = [told EXCEPT ![p] = qs]
      /\ rows' = [r \in Master!Rows |-> IF r \in moved
                                        THEN [col |-> ps.target, key |-> ps.sealed[r].key,
                                              secret |-> ps.sealed[r].secret]
                                        ELSE rows[r]]
  BY DEF Master!PassWrite
<1>2. DOMAIN told = Passes
  BY DEF Master!Touched
<1>3. pass'[p] = qs /\ \A q \in Passes \ {p} : pass'[q] = told[q]
  BY <1>1, <1>2
<1>4. /\ moved \in SUBSET Master!Rows /\ moved \subseteq DOMAIN ps.sealed
      /\ ps.target \in Nat /\ \A r \in DOMAIN ps.sealed : ps.target <= ps.sealed[r].key.ver
  BY <1>1, CopiesOf
<1>5. \A r \in DOMAIN ps.sealed : ps.sealed[r].key.ver \in Nat
  <2>1. ps.sealed \in Sealed
    BY <1>1 DEF MasterInv, PassesInv, PassShape, Master!Idle, Master!Ended
  <2>2. \A r \in DOMAIN ps.sealed : ps.sealed[r].key \in KmsKeys
    BY <2>1 DEF Sealed
  <2> QED BY <2>2, KeyFacts DEF MasterInv
<1>6. /\ \A r \in moved : rows'[r].key.ver \in Nat /\ ps.target <= rows'[r].key.ver
      /\ \A r \in Master!Rows \ moved : rows'[r] = rows[r]
  BY <1>1, <1>4, <1>5
<1>7. \A r \in DOMAIN ps.sealed : rows[r].col = ps.version => r \in moved
  BY DEF Master!StillThere
<1> HIDE DEF moved
<1> SUFFICES ASSUME NEW q \in Passes, NEW x \in Master!Rows,
                    pass'[q].at \in {"read", "write", "done"}, Owed(q, x)'
             PROVE  Ahead(pass[q], x)'
  BY DEF ScanInv
<1>8. CASE q # p
  <2> DEFINE ts == told[q]
  <2>1. pass'[q] = ts
    BY <1>3, <1>8
  <2>2. ts.at \notin {"idle", "ended"}
    BY <2>1
  <2>3. ts.target = pass[q].target /\ ts.at = pass[q].at
        /\ (ps.target < ts.target => ts.touched = pass[q].touched \cup moved)
    <3>1. ts = Master!Touched(p, moved, ps.target)[q]
      OBVIOUS
    <3> HIDE DEF ts, told
    <3>0. moved \in SUBSET Master!Rows
      BY <1>4
    <3>2. /\ ts.target = pass[q].target /\ ts.at = pass[q].at
          /\ Master!Running(pass[q]) /\ "touched" \in DOMAIN pass[q]
      BY <2>2, <3>0, <3>1, ToldAt
    <3>3. ASSUME ps.target < ts.target PROVE ts.touched = pass[q].touched \cup moved
      <4>1. ps.target < pass[q].target
        BY <3>2, <3>3
      <4> HIDE DEF ps
      <4>2. ts = [pass[q] EXCEPT !.touched = @ \cup moved]
        BY <1>8, <3>1, <3>2, <4>1 DEF Master!Touched
      <4> QED BY <3>2, <4>2
    <3> QED BY <3>2, <3>3
  <2>4. ts.target \in Nat
    BY <2>2, <2>3, ScanFields
  <2>5. x \notin moved
    <3> HIDE DEF ts, told
    <3> QED BY <1>4, <1>6, <2>1, <2>3, <2>4 DEF Owed
  <2>6. rows'[x] = rows[x]
    BY <1>6, <2>5
  <2>7. /\ rows[x].key.ver < ts.target /\ x \notin ts.failed \cup ts.touched
        /\ ts.at \in {"read", "write", "done"}
    BY <2>1, <2>6 DEF Owed
  <2>8. Ahead(ts, x)
    BY <1>4, <2>7, ScanTold
  <2> HIDE DEF ts
  <2> QED BY <2>1, <2>6, <2>8 DEF Ahead
<1>9. CASE q = p
  <2>1. qs.target = ps.target /\ qs.failed = ps.failed /\ qs.touched = ps.touched
    BY DEF Master!AtVersions
  <2>2. pass'[p] = qs
    BY <1>3
  <2>3. x \notin moved
    <3> HIDE DEF qs
    <3> QED BY <1>4, <1>6, <1>9, <2>1, <2>2 DEF Owed
  <2>4. rows'[x] = rows[x]
    BY <1>6, <2>3
  <2>5. Owed(p, x)
    <3> HIDE DEF qs
    <3> QED BY <1>9, <2>1, <2>2, <2>4 DEF Owed
  <2>6. Ahead(ps, x)
    BY <1>1, <2>5 DEF ScanInv
  <2>7. /\ rows[x].col \in ps.versions
        /\ rows[x].col = ps.version => ps.full /\ x > ps.after
    BY <1>1, <1>7, <2>3, <2>6 DEF Ahead
  <2>8. ps.version = Master!Min(ps.versions)
    BY <1>1, ScanFields
  <2>9. Ahead(qs, x)
    <3>1. CASE ps.full
      BY <2>7, <2>8, <3>1 DEF Ahead
    <3>2. CASE ~ ps.full
      <4>1. qs = Master!AtVersions(ps, ps.versions \ {ps.version})
        BY <3>2
      <4>2. rows[x].col \in ps.versions \ {ps.version} /\ NRows \in Nat
        BY <2>7, <3>2, KeyFacts DEF MasterInv
      <4> HIDE DEF qs
      <4> QED BY <4>1, <4>2, AheadOf
    <3> QED BY <3>1, <3>2
  <2> HIDE DEF qs
  <2> QED BY <1>9, <2>2, <2>4, <2>9 DEF Ahead
<1> QED BY <1>8, <1>9

(* Every step.                                                              *)
LEMMA NextScan == ASSUME Master!MasterKeysAssumption, MasterInv, ScanInv, Master!Next
                  PROVE  ScanInv'
<1> USE DEF MasterInv, PassesInv
<1>1. ASSUME NEW n \in Nodes, Master!Stop(n) PROVE ScanInv'
  <2>1. \A p \in Passes : pass'[p].at \in {"read", "write", "done"} => pass'[p] = pass[p]
    BY <1>1 DEF Master!Stop, Master!Ended
  <2> QED BY <1>1, <2>1, ScanKept DEF Master!Stop
<1>2. ASSUME NEW n \in Nodes, NEW p \in Passes, Master!PassStart(p, n) PROVE ScanInv'
  <2>1. \A q \in Passes : pass'[q].at \in {"read", "write", "done"} => pass'[q] = pass[q]
    BY <1>2 DEF Master!PassStart
  <2> QED BY <1>2, <2>1, ScanKept DEF Master!PassStart
<1>3. ASSUME NEW p \in Passes, Master!PassEnd(p) PROVE ScanInv'
  <2>1. \A q \in Passes : pass'[q].at \in {"read", "write", "done"} => pass'[q] = pass[q]
    BY <1>3 DEF Master!PassEnd, Master!Ended
  <2> QED BY <1>3, <2>1, ScanKept DEF Master!PassEnd
<1>4. CASE UNCHANGED <<rows, pass>>
  BY <1>4, ScanKept
<1>5. CASE \E w \in Writers : Master!Store(w)
  BY <1>5, ScanStore
<1>6. ASSUME NEW p \in Passes,
             Master!PassVersions(p) \/ Master!PassRead(p) \/ Master!PassWrite(p)
      PROVE  ScanInv'
  BY <1>6, ScanVersions, ScanRead, ScanWrite
<1> QED
  BY <1>1, <1>2, <1>3, <1>4, <1>5, <1>6
  DEF Master!Next, Master!Refresh, Master!Read, Master!Attach, Master!Check, Master!Retire,
      Master!Make, Master!MadeElsewhere, Master!Insert, Master!Seal

(* A finished pass has left nothing below its target but what it reports as *)
(* failed and what someone who was behind wrote meanwhile.                  *)
THEOREM PassesFinish == ASSUME Master!MasterKeysAssumption
                        PROVE  Master!Spec => []Master!PassLeavesNothing
<1> DEFINE Inv == MasterInv /\ LatestInv /\ ScanInv
<1>1. Master!Init => Inv
  <2>1. Master!Init => ScanInv
    BY DEF Master!Init, ScanInv, Master!Idle
  <2> QED BY <2>1, InitLatest
<1>2. Inv /\ [Master!Next]_Master!vars => Inv'
  <2>1. ASSUME Inv, Master!Next PROVE Inv'
    BY <2>1, NextMaster, NextScan
  <2>2. ASSUME Inv, UNCHANGED Master!vars PROVE Inv'
    BY <2>2, StutterMaster, ScanKept DEF Master!vars
  <2> QED BY <2>1, <2>2
<1>3. Inv => Master!PassLeavesNothing
  BY DEF ScanInv, Owed, Ahead, Master!PassLeavesNothing
<1> QED BY <1>1, <1>2, <1>3, PTL DEF Master!Spec

(* Processes, rows and passes keep their types, and a key_version column is *)
(* never ahead of the key its secret is sealed with.                        *)
THEOREM MasterTypeCorrect == ASSUME Master!MasterKeysAssumption PROVE Master!Spec => []Master!TypeOK
<1>1. Master!Init => MasterInv /\ LatestInv
  BY InitLatest
<1>2. MasterInv /\ LatestInv /\ [Master!Next]_Master!vars => (MasterInv /\ LatestInv)'
  BY NextMaster, StutterMaster
<1>3. MasterInv => Master!TypeOK
  <2> SUFFICES ASSUME MasterInv PROVE Master!TypeOK
    OBVIOUS
  <2>1. table \subseteq 1..MaxVersion
    BY DEF MasterInv, TableInv, Master!MasterKeysAssumption
  <2>2. ASSUME NEW n \in Nodes
        PROVE  /\ node[n].at \in {"down", "first", "check", "up"}
               /\ node[n].at = "up" => node[n].current \in Master!Versions(node[n])
    BY DEF MasterInv, NodesInv, NodeOK, NodeShape, Master!Versions
  <2>3. ASSUME NEW n \in Nodes, NEW k \in node[n].known, NEW j \in node[n].known, k.ver = j.ver
        PROVE  k = j
    <3>1. k \in GenKeys /\ j \in GenKeys
      BY DEF MasterInv, NodesInv, NodeShape
    <3>2. EnvVersion \notin table
      BY DEF MasterInv, TableInv, Master!MasterKeysAssumption
    <3> QED BY <2>3, <3>1, <3>2 DEF GenKeys, KmsKeys, Master!EnvKey, Master!KmsKey
  <2>4. \A r \in Master!Rows : rows[r].col <= rows[r].key.ver
    BY DEF MasterInv, RowsInv
  <2>5. \A p \in Passes : pass[p].at \in {"idle", "versions", "read", "write", "done", "ended"}
    BY DEF MasterInv, PassesInv, PassShape, Master!Idle, Master!Ended
  <2> QED BY <2>1, <2>2, <2>3, <2>4, <2>5 DEF Master!TypeOK
<1> QED BY <1>1, <1>2, <1>3, PTL DEF Master!Spec
=============================================================================
