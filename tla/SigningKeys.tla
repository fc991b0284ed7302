---------------------------- MODULE SigningKeys ----------------------------
(***************************************************************************)
(* The JWT signing keys of one tenant and one algorithm (services/keys.rs  *)
(* over repos/signing_keys.rs), the keys version token every cached view   *)
(* of them hangs off (cache/layer.rs), and two of those views: the active  *)
(* key a node signs with, and the JWKS document every node serves.         *)
(*                                                                         *)
(* Each node runs one change at a time (an administrator's request, the    *)
(* housekeeping job, or the first request that finds no key) beside one    *)
(* read of the keys.  A change reads rows, commits, and only then replaces *)
(* the token.  The rows it read are not locked, so the changes of two      *)
(* nodes interleave between the read and the write.                        *)
(***************************************************************************)
EXTENDS Naturals, FiniteSets, LeaderLock

CONSTANTS
    Keys,         \* key ids, each generated at most once
    Readers,      \* the nodes whose reads of the keys are followed
    MaxRevisions, \* bound: commits that change a key
    MaxFaults     \* bound: failed bumps, lost locks, waits that ran out

ASSUME KeysAssumption ==
    /\ MaxRevisions \in Nat /\ MaxFaults \in Nat /\ IsFiniteSet(Keys)
    /\ Readers \subseteq Nodes
    /\ None \notin Keys /\ None \notin Nat /\ None \notin Nodes

VARIABLES
    status,     \* status[k] of the row; "absent" before it is inserted
    early,      \* keys whose not_before is still to come
    reading,    \* reading[n]: node n's read of the keys, and its token
    signing,    \* signing[n]: the active key node n has under the current token
    jwks,       \* the document cached under the current token
    task,       \* task[n]: where node n's change stands
    faults,
    revision,   \* history: commits so far
    announced,  \* history: the latest commit that was followed by its bump
    revokedAt,  \* history: the commit that last revoked k
    hushed      \* history: keys nobody announced, for a reason that
                \* PublishedBeforeSigning names

cacheVars == <<reading, signing, jwks>>
historyVars == <<revision, announced, revokedAt, hushed>>
vars == <<status, early, cacheVars, task, faults, historyVars, lock>>

Published == {k \in Keys : status[k] \in {"pending", "active", "retiring"}}
ActiveIn(rows) == {k \in Keys : rows[k] = "active"}
(* find_active: the row must be active and its time have come.              *)
Found == ActiveIn(status) \ early

(* A change: what it does next, the key it is about, the active keys it     *)
(* read, the keys the job has still to revoke, the rotations it has left,   *)
(* the commit it has seen or must announce, and what follows that.          *)
Idle == [at |-> "idle", key |-> None, others |-> {}, todo |-> {}, turns |-> 0,
         rev |-> 0, next |-> "idle"]

Init ==
    /\ LockInit
    /\ \E old \in SUBSET Keys :   \* a new tenant, or one with a key in use
         /\ Cardinality(old) <= 1
         /\ status = [k \in Keys |-> IF k \in old THEN "active" ELSE "absent"]
    /\ early = {}
    /\ reading = [n \in Readers |-> None] /\ signing = [n \in Readers |-> None]
    /\ jwks = None
    /\ task = [n \in Nodes |-> Idle] /\ faults = 0
    /\ revision = 0 /\ announced = 0 /\ hushed = {}
    /\ revokedAt = [k \in Keys |-> 0]

Fault == faults < MaxFaults /\ faults' = faults + 1

-----------------------------------------------------------------------------
(* Transactions.  A commit is followed by the bump of its task.  The keys   *)
(* it lets sign without having been announced as pending are those it       *)
(* inserts active, and revoked ones it brings back.                         *)

Commit(n, rows, rest) ==
    /\ revision < MaxRevisions
    /\ status' = rows /\ revision' = revision + 1
    /\ task' = [task EXCEPT ![n] = [rest EXCEPT !.at = "bump", !.rev = revision + 1]]
    /\ hushed' = hushed \cup {k \in Keys :
         \/ status[k] = "absent" /\ rows[k] = "active"
         \/ status[k] = "revoked" /\ rows[k] # "revoked"}
    /\ revokedAt' = [k \in Keys |->
         IF rows[k] = "revoked" /\ status[k] # "revoked" THEN revision + 1 ELSE revokedAt[k]]
    /\ UNCHANGED <<announced, cacheVars, faults, lock>>

(* Mutant of Create: no bump before the key that was made is activated.     *)
CreateUnannounced(n, k, as, next) ==
    /\ status[k] = "absent" /\ revision < MaxRevisions
    /\ status' = [status EXCEPT ![k] = as] /\ revision' = revision + 1
    /\ task' = [task EXCEPT ![n].at = IF next = "activate" THEN next ELSE "bump",
                            ![n].key = k, ![n].rev = revision + 1, ![n].next = next]
    /\ hushed' = IF as = "active" THEN hushed \cup {k} ELSE hushed
    /\ UNCHANGED <<announced, revokedAt, cacheVars, faults, lock>>

(* create: the generated key is inserted with the status asked for.         *)
Create(n, k, as, next) ==
    /\ status[k] = "absent"
    /\ Commit(n, [status EXCEPT ![k] = as], [task[n] EXCEPT !.key = k, !.next = next])

(* The admin route: a key that is published only, or activated right after. *)
AdminCreate(n, k) ==
    /\ task[n].at = "idle"
    /\ \E next \in {"idle", "activate"} : Create(n, k, "pending", next)
    /\ early' \in {early, early \cup {k}}

(* rotate: a pending key, then activate.                                    *)
Rotate(n, k) ==
    task[n].at = "idle" /\ Create(n, k, "pending", "activate") /\ UNCHANGED early

(* Mutant of ActivateRead: a revoked key is not refused.                    *)
ActivateReadAny(n) ==
    /\ task[n].at = "activate"
    /\ task' = [task EXCEPT ![n].at = "write", ![n].rev = revision,
                            ![n].others = ActiveIn(status) \ {task[n].key}]
    /\ UNCHANGED <<status, early, cacheVars, faults, historyVars, lock>>

(* activate, its reads: a revoked key is refused, the other active keys are *)
(* listed.                                                                  *)
ActivateRead(n) ==
    /\ task[n].at = "activate"
    /\ task' = [task EXCEPT ![n] =
                  IF status[task[n].key] = "revoked" THEN Idle
                  ELSE [@ EXCEPT !.at = "write", !.rev = revision,
                                 !.others = ActiveIn(status) \ {task[n].key}]]
    /\ UNCHANGED <<status, early, cacheVars, faults, historyVars, lock>>

(* activate, its writes: every row is set by its id, whatever its status is *)
(* by now; the unique index aborts the transaction when a key that was not  *)
(* listed has become active meanwhile.                                      *)
ActivateWrite(n) ==
    LET rows == [k \in Keys |-> IF k = task[n].key THEN "active"
                                ELSE IF k \in task[n].others THEN "retiring" ELSE status[k]]
    IN  /\ task[n].at = "write"
        /\ UNCHANGED early
        /\ IF Cardinality(ActiveIn(rows)) = 1
           THEN Commit(n, rows, [task[n] EXCEPT !.next =
                                   IF task[n].turns > 0 THEN "rotate" ELSE "idle"])
           ELSE /\ task' = [task EXCEPT ![n] = Idle]
                /\ UNCHANGED <<status, cacheVars, faults, historyVars, lock>>

(* The admin route: any key, also one whose maker has not moved the token   *)
(* yet.                                                                     *)
AdminActivate(n, k) ==
    /\ task[n].at = "idle" /\ status[k] # "absent"
    /\ task' = [task EXCEPT ![n].at = "activate", ![n].key = k]
    /\ hushed' = IF \E m \in Nodes : task[m].at = "bump" /\ task[m].key = k
                 THEN hushed \cup {k} ELSE hushed
    /\ UNCHANGED <<status, early, cacheVars, faults, revision, announced, revokedAt, lock>>

(* retire: a revoked key is refused; the row is then set by its id.         *)
RetireRead(n, k) ==
    /\ task[n].at = "idle" /\ status[k] \notin {"absent", "revoked"}
    /\ task' = [task EXCEPT ![n].at = "retire", ![n].key = k, ![n].rev = revision]
    /\ UNCHANGED <<status, early, cacheVars, faults, historyVars, lock>>

RetireWrite(n) ==
    /\ task[n].at = "retire"
    /\ Commit(n, [status EXCEPT ![task[n].key] = "retiring"], task[n])
    /\ UNCHANGED early

(* revoke: one update, and the key leaves the published list.               *)
Revoke(n, k, rest) == Commit(n, [status EXCEPT ![k] = "revoked"], rest)

AdminRevoke(n, k) ==
    task[n].at = "idle" /\ status[k] # "absent" /\ Revoke(n, k, task[n]) /\ UNCHANGED early

-----------------------------------------------------------------------------
(* maintain, for the housekeeping job: it lists the retiring keys past      *)
(* their overlap, revokes them one by one, then lists the active keys past  *)
(* the rotation interval and rotates each.  Either time may have come for a *)
(* key or not; the lists come from a replica, and a list that lags is one   *)
(* taken earlier.  The leader lock is never renewed, so passes may overlap: *)
(* any node may start one at any time.                                      *)

MaintainList(n) ==
    /\ task[n].at = "idle"
    /\ \E due \in SUBSET {k \in Keys : status[k] = "retiring"} :
         task' = [task EXCEPT ![n].at = "maintain", ![n].todo = due]
    /\ UNCHANGED <<status, early, cacheVars, faults, historyVars, lock>>

MaintainRevoke(n) ==
    /\ task[n].at = "maintain"
    /\ \E k \in task[n].todo :
         Revoke(n, k, [task[n] EXCEPT !.todo = @ \ {k}, !.next = "maintain"])
    /\ UNCHANGED early

MaintainRotations(n) ==
    /\ task[n].at = "maintain" /\ task[n].todo = {}
    /\ \E due \in SUBSET Found :
         task' = [task EXCEPT ![n] =
                    IF due = {} THEN Idle
                    ELSE [@ EXCEPT !.at = "rotate", !.turns = Cardinality(due)]]
    /\ UNCHANGED <<status, early, cacheVars, faults, historyVars, lock>>

MaintainRotate(n, k) ==
    /\ task[n].at = "rotate" /\ status[k] = "absent"
    /\ Commit(n, [status EXCEPT ![k] = "pending"],
              [task[n] EXCEPT !.key = k, !.turns = @ - 1, !.next = "activate"])
    /\ UNCHANGED early

-----------------------------------------------------------------------------
(* ensure_active_alg, for a request that found no active key.               *)

EnsureStart(n) ==
    /\ task[n].at = "idle" /\ Found = {}
    /\ task' = [task EXCEPT ![n].at = "wait"]
    /\ UNCHANGED <<status, early, cacheVars, faults, historyVars, lock>>

(* The lock is ours: make the key, unless another holder has.               *)
EnsureLocked(n) ==
    /\ task[n].at = "wait"
    /\ IF Found = {}
       THEN Acquire(n) /\ task' = [task EXCEPT ![n].at = "make"]
       ELSE lock = None /\ task' = [task EXCEPT ![n] = Idle] /\ UNCHANGED lock
    /\ UNCHANGED <<status, early, cacheVars, faults, historyVars>>

(* Someone else has it: the key appears, or the wait runs out.              *)
EnsureFound(n) ==
    /\ task[n].at = "wait" /\ lock # None /\ Found # {}
    /\ task' = [task EXCEPT ![n] = Idle]
    /\ UNCHANGED <<status, early, cacheVars, faults, historyVars, lock>>

EnsureWaitedOut(n) ==
    /\ task[n].at = "wait" /\ lock # None /\ Fault
    /\ task' = [task EXCEPT ![n].at = "make"]
    /\ UNCHANGED <<status, early, cacheVars, historyVars, lock>>

(* first_key: the key is inserted active, or the index refuses it and the   *)
(* other node's is adopted (or, if its time has not come, the request       *)
(* fails).  The lock is released after the bump.                            *)
FirstKey(n, k) ==
    /\ task[n].at = "make" /\ ActiveIn(status) = {}
    /\ Create(n, k, "active", "release")
    /\ UNCHANGED early

FirstKeyLost(n) ==
    /\ task[n].at = "make" /\ ActiveIn(status) # {}
    /\ task' = [task EXCEPT ![n].at = "release"]
    /\ UNCHANGED <<status, early, cacheVars, faults, historyVars, lock>>

EnsureDone(n) ==
    /\ task[n].at = "release" /\ Release(n)
    /\ task' = [task EXCEPT ![n] = Idle]
    /\ UNCHANGED <<status, early, cacheVars, faults, historyVars>>

LockLapses == Lapse /\ Fault /\ UNCHANGED <<status, early, cacheVars, task, historyVars>>

(* A key's not_before passes.                                               *)
TimeComes(k) ==
    /\ k \in early
    /\ early' = early \ {k}
    /\ UNCHANGED <<status, cacheVars, task, faults, historyVars, lock>>

-----------------------------------------------------------------------------
(* bump_keys_version and keys_version.                                      *)

(* The token is overwritten: what was cached under the one before is not    *)
(* looked up again, by a reader that has the new one.                       *)
Orphan ==
    /\ signing' = [n \in Readers |-> None] /\ jwks' = None
    /\ reading' = [n \in Readers |->
         IF reading[n] = None THEN None ELSE [reading[n] EXCEPT !.token = "old"]]

(* After the commit; then the rest of the task follows.                     *)
Bump(n) ==
    /\ task[n].at = "bump" /\ Orphan
    /\ announced' = IF task[n].rev > announced THEN task[n].rev ELSE announced
    /\ hushed' = {}
    /\ task' = [task EXCEPT ![n] =
                  IF task[n].next = "idle" THEN Idle ELSE [@ EXCEPT !.at = task[n].next]]
    /\ UNCHANGED <<status, early, faults, revision, revokedAt, lock>>

(* Valkey cannot be reached: the change is committed and fails all the same *)
(* (and a lock it holds is left to lapse).                                  *)
BumpFails(n) ==
    /\ task[n].at = "bump" /\ Fault
    /\ task' = [task EXCEPT ![n] = Idle]
    /\ hushed' = hushed \cup {k \in Keys : k = task[n].key /\ status[k] \in {"pending", "retiring"}}
    /\ UNCHANGED <<status, early, cacheVars, revision, announced, revokedAt, lock>>

(* The token's TTL passes in Valkey: the next reader sets a new one.        *)
VersionExpires ==
    /\ Fault /\ Orphan
    /\ hushed' = {}
    /\ UNCHANGED <<status, early, task, revision, announced, revokedAt, lock>>

(* A read of the keys begins with the token: the one in Valkey (set there   *)
(* if there is none), or one that L1 has held on to since before a bump.    *)
ReadVersion(n) ==
    /\ reading[n] = None
    /\ \E t \in {"current", "old"} :
         reading' = [reading EXCEPT ![n] = [token |-> t, view |-> None]]
    /\ UNCHANGED <<status, early, signing, jwks, task, faults, historyVars, lock>>

(* Nothing is cached under that token: the rows are read from the primary.  *)
ReadRows(n) ==
    /\ reading[n] # None /\ reading[n].view = None
    /\ reading' = [reading EXCEPT ![n].view =
         [active |-> Found, keys |-> Published, rev |-> revision]]
    /\ UNCHANGED <<status, early, signing, jwks, task, faults, historyVars, lock>>

(* Mutant of FileActive: filed under whatever token is there by now.        *)
FileActiveNow(n) ==
    /\ reading[n] # None /\ reading[n].view # None
    /\ signing' = [signing EXCEPT ![n] =
         IF reading[n].view.active # {} THEN reading[n].view ELSE @]
    /\ reading' = [reading EXCEPT ![n] = None]
    /\ UNCHANGED <<status, early, jwks, task, faults, historyVars, lock>>

(* active: a key that was found is cached under the token read before it.   *)
FileActive(n) ==
    /\ reading[n] # None /\ reading[n].view # None
    /\ signing' = [signing EXCEPT ![n] =
         IF reading[n].token = "current" /\ reading[n].view.active # {}
         THEN reading[n].view ELSE @]
    /\ reading' = [reading EXCEPT ![n] = None]
    /\ UNCHANGED <<status, early, jwks, task, faults, historyVars, lock>>

(* load_jwks, and verification_keys with it: the published keys, which for  *)
(* a tenant without any means that the first key is made first.             *)
FileJwks(n) ==
    /\ reading[n] # None /\ reading[n].view # None /\ reading[n].view.keys # {}
    /\ jwks' = IF reading[n].token = "current" THEN reading[n].view ELSE jwks
    /\ reading' = [reading EXCEPT ![n] = None]
    /\ UNCHANGED <<status, early, signing, task, faults, historyVars, lock>>

Next ==
    \/ \E n \in Nodes, k \in Keys :
         \/ AdminCreate(n, k) \/ Rotate(n, k) \/ AdminActivate(n, k) \/ RetireRead(n, k)
         \/ AdminRevoke(n, k) \/ MaintainRotate(n, k) \/ FirstKey(n, k)
    \/ \E n \in Nodes :
         \/ ActivateRead(n) \/ ActivateWrite(n) \/ RetireWrite(n)
         \/ MaintainList(n) \/ MaintainRevoke(n) \/ MaintainRotations(n)
         \/ EnsureStart(n) \/ EnsureLocked(n) \/ EnsureFound(n) \/ EnsureWaitedOut(n)
         \/ FirstKeyLost(n) \/ EnsureDone(n)
         \/ Bump(n) \/ BumpFails(n)
    \/ \E n \in Readers : ReadVersion(n) \/ ReadRows(n) \/ FileActive(n) \/ FileJwks(n)
    \/ LockLapses \/ VersionExpires \/ \E k \in Keys : TimeComes(k)

Spec == Init /\ [][Next]_vars

-----------------------------------------------------------------------------
Statuses == {"absent", "pending", "active", "retiring", "revoked"}
Task ==
    [at: {"idle", "activate", "write", "retire", "maintain", "rotate", "wait", "make", "release",
          "bump"},
     key: Keys \cup {None}, others: SUBSET Keys, todo: SUBSET Keys, turns: Nat, rev: Nat,
     next: {"idle", "activate", "maintain", "rotate", "release"}]
View == [active: SUBSET Keys, keys: SUBSET Keys, rev: Nat]
Reading == [token: {"current", "old"}, view: View \cup {None}]

ASSUME ViewsAssumption == None \notin View /\ None \notin Reading

(* The variables' types; among them, that neither an absent active key nor   *)
(* an empty document is ever cached.                                        *)
TypeOK ==
    /\ status \in [Keys -> Statuses] /\ early \subseteq Keys
    /\ reading \in [Readers -> Reading \cup {None}]
    /\ signing \in [Readers -> {v \in View : v.active # {}} \cup {None}]
    /\ jwks \in {v \in View : v.keys # {}} \cup {None}
    /\ task \in [Nodes -> Task]
    /\ faults \in 0..MaxFaults
    /\ revision \in 0..MaxRevisions /\ announced \in 0..revision
    /\ revokedAt \in [Keys -> Nat] /\ hushed \subseteq Keys
    /\ lock \in Nodes \cup {None}

(* A change that has returned is seen by every read that comes after it:    *)
(* what any node has cached under the token now in Valkey was read from the *)
(* rows after every change whose bump is done.  This is what lets           *)
(* bump_keys_version replace the token instead of deleting the entries.     *)
AnnouncedIsSeen ==
    \A view \in ({signing[n] : n \in Readers} \cup {jwks}) \ {None} : view.rev >= announced

(* A relying party that fetches the document now in force finds the key a   *)
(* node signs with under the same token: rotation publishes the pending key *)
(* and moves the token before the key signs.  Not so for a key that was     *)
(* revoked since, and, until the token moves, for the keys in hushed: a     *)
(* first key, inserted active; a revoked key brought back; a key whose      *)
(* maker failed to move the token; and one that another change activates    *)
(* while its maker has still to move it.                                    *)
PublishedBeforeSigning ==
    \A n \in Readers : signing[n] # None /\ jwks # None =>
      \A k \in signing[n].active :
        k \in jwks.keys \/ status[k] = "revoked" \/ k \in hushed

(* A revoked key comes back only at the hand of a change that read the      *)
(* key's row before it was revoked: activate, retire or the retirement of   *)
(* the key activate found active.  A change that starts after the           *)
(* revocation refuses it.                                                   *)
RevokedStaysUnlessOverlapped ==
    [][\A k \in Keys : status[k] = "revoked" /\ status'[k] # "revoked" =>
         \E n \in Nodes : /\ task[n].at \in {"write", "retire"}
                          /\ k \in {task[n].key} \cup task[n].others
                          /\ task[n].rev < revokedAt[k]]_vars
=============================================================================
