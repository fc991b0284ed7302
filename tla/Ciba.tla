-------------------------------- MODULE Ciba --------------------------------
(***************************************************************************)
(* Backchannel authentication (services/ciba.rs over                       *)
(* repos/ciba_requests.rs and a Valkey record).  A client opens a request  *)
(* for one user, the user answers it in the account console, and the       *)
(* client's polls collect the answer.                                      *)
(*                                                                         *)
(* The row and the record are two stores with no transaction over both.    *)
(* The user's answers exclude each other by the row's lock; a poll takes   *)
(* no lock: it reads the record and writes back, deletes or takes it       *)
(* later.  Interval and time of the last poll are data a poll writes back  *)
(* and decides nothing else by; they are left out.                         *)
(***************************************************************************)
EXTENDS Naturals, FiniteSets

CONSTANTS
    Requests,    \* requests for one user
    Deciders,    \* requests of the account console that answer one
    Polls,       \* token requests of the client that opened them
    MaxPending,  \* bound of the code: MAX_PENDING_PER_USER
    MaxFaults,   \* bound: stores that fail
    None

Answers == {"approved", "denied"}

ASSUME CibaAssumption ==
    /\ MaxPending \in Nat \ {0} /\ MaxFaults \in Nat
    /\ None \notin {"pending", "consumed"} \cup Answers

VARIABLES
    start,       \* start[r]: "new", "counted", "inserted", "open", "failed"
    row,         \* row[r]: status of the row, None before there is one
    record,      \* record[r]: status in Valkey, None when there is no record
    keepsTtl,    \* keepsTtl[r]: the record has a time to live
    expired,     \* requests past expires_at
    decide,      \* decide[d]: the answer being given
    poll,        \* poll[p]: the token request being answered
    faults,
    issued,      \* history: issued[r], the polls that were answered with tokens
    told,        \* history: requests whose decision a poll has taken
    torn,        \* history: requests whose answer was stored and not committed
    clobbered,   \* history: requests whose decided record a late poll overwrote
    crowded      \* history: two starts counted before either inserted

historyVars == <<issued, told, torn, clobbered, crowded>>
vars == <<start, row, record, keepsTtl, expired, decide, poll, faults, historyVars>>

Idle == [at |-> "idle"]
Pending == {r \in Requests : row[r] = "pending" /\ r \notin expired}
Fault == faults < MaxFaults /\ faults' = faults + 1

(* The record goes, and its time to live with it.                           *)
Delete(r) ==
    /\ record' = [record EXCEPT ![r] = None]
    /\ keepsTtl' = [keepsTtl EXCEPT ![r] = FALSE]

Init ==
    /\ start = [r \in Requests |-> "new"]
    /\ row = [r \in Requests |-> None] /\ record = row
    /\ keepsTtl = [r \in Requests |-> FALSE] /\ expired = {}
    /\ decide = [d \in Deciders |-> Idle] /\ poll = [p \in Polls |-> Idle]
    /\ faults = 0
    /\ issued = [r \in Requests |-> 0]
    /\ told = {} /\ torn = {} /\ clobbered = {} /\ crowded = FALSE

-----------------------------------------------------------------------------
(* The backchannel endpoint.                                                *)

(* Mutant of StartCount: one more than the cap is let in.                   *)
StartCountPast(r) ==
    /\ start[r] = "new" /\ Cardinality(Pending) <= MaxPending
    /\ start' = [start EXCEPT ![r] = "counted"]
    /\ crowded' = (crowded \/ \E q \in Requests : start[q] = "counted")
    /\ UNCHANGED <<row, record, keepsTtl, expired, decide, poll, faults, issued, told, torn,
                   clobbered>>

(* pending_count, in a transaction of its own.                              *)
StartCount(r) ==
    /\ start[r] = "new" /\ Cardinality(Pending) < MaxPending
    /\ start' = [start EXCEPT ![r] = "counted"]
    /\ crowded' = (crowded \/ \E q \in Requests : start[q] = "counted")
    /\ UNCHANGED <<row, record, keepsTtl, expired, decide, poll, faults, issued, told, torn,
                   clobbered>>

StartInsert(r) ==
    /\ start[r] = "counted"
    /\ start' = [start EXCEPT ![r] = "inserted"]
    /\ row' = [row EXCEPT ![r] = "pending"]
    /\ UNCHANGED <<record, keepsTtl, expired, decide, poll, faults, historyVars>>

(* The record follows the row; without it the row waits until it expires.   *)
StartStore(r) ==
    /\ start[r] = "inserted"
    /\ \/ /\ start' = [start EXCEPT ![r] = "open"]
          /\ record' = [record EXCEPT ![r] = "pending"]
          /\ keepsTtl' = [keepsTtl EXCEPT ![r] = TRUE]
          /\ UNCHANGED faults
       \/ Fault /\ start' = [start EXCEPT ![r] = "failed"] /\ UNCHANGED <<record, keepsTtl>>
    /\ UNCHANGED <<row, expired, decide, poll, historyVars>>

(* Time passes; Valkey drops the record when its own time is over.          *)
Expire(r) ==
    /\ row[r] # None /\ r \notin expired /\ expired' = expired \cup {r}
    /\ UNCHANGED <<start, row, record, keepsTtl, decide, poll, faults, historyVars>>

Drop(r) ==
    /\ r \in expired /\ record[r] # None /\ keepsTtl[r]
    /\ Delete(r)
    /\ UNCHANGED <<start, row, expired, decide, poll, faults, historyVars>>

-----------------------------------------------------------------------------
(* The user's answer.                                                       *)

(* store with KEEPTTL: over a record that is gone it makes one for good.    *)
Store(r, status) ==
    /\ record' = [record EXCEPT ![r] = status]
    /\ UNCHANGED keepsTtl

(* The pending row is locked and the record read: it must be pending too.   *)
DecideRead(d, r, answer) ==
    /\ decide[d] = Idle /\ r \in Pending
    /\ \A e \in Deciders : decide[e] # Idle => decide[e].r # r
    /\ record[r] = "pending"
    /\ decide' = [decide EXCEPT ![d] = [at |-> "read", r |-> r, answer |-> answer]]
    /\ UNCHANGED <<start, row, record, keepsTtl, expired, poll, faults, historyVars>>

DecideStore(d) ==
    /\ decide[d].at = "read"
    /\ \/ /\ Store(decide[d].r, decide[d].answer)
          /\ decide' = [decide EXCEPT ![d].at = "stored"]
          /\ UNCHANGED faults
       \/ Fault /\ decide' = [decide EXCEPT ![d] = Idle] /\ UNCHANGED <<record, keepsTtl>>
    /\ UNCHANGED <<start, row, expired, poll, historyVars>>

(* The commit, after the record was stored; a failed one undoes only the    *)
(* row.  The client is pinged after it, or polls anyway.                    *)
DecideCommit(d) ==
    /\ decide[d].at = "stored"
    /\ LET committed == row' = [row EXCEPT ![decide[d].r] = decide[d].answer]
       IN  \/ committed /\ UNCHANGED <<torn, faults>>
           \/ Fault /\ committed /\ UNCHANGED torn
           \/ Fault /\ UNCHANGED row /\ torn' = torn \cup {decide[d].r}
    /\ decide' = [decide EXCEPT ![d] = Idle]
    /\ UNCHANGED <<start, record, keepsTtl, expired, poll, issued, told, clobbered, crowded>>

-----------------------------------------------------------------------------
(* The client's polls.                                                      *)

(* load, and a look at the clock: without a record the poll is answered at  *)
(* once, and what a record past its time says is not looked at.             *)
PollLoad(p, r) ==
    /\ poll[p] = Idle /\ start[r] = "open" /\ record[r] # None
    /\ poll' = [poll EXCEPT ![p] = IF r \in expired
                                   THEN [at |-> "late", r |-> r, status |-> None]
                                   ELSE [at |-> "loaded", r |-> r, status |-> record[r]]]
    /\ UNCHANGED <<start, row, record, keepsTtl, expired, decide, faults, historyVars>>

(* An expired record is deleted.                                            *)
PollExpired(p) ==
    /\ poll[p].at = "late"
    /\ Delete(poll[p].r)
    /\ poll' = [poll EXCEPT ![p] = Idle]
    /\ UNCHANGED <<start, row, expired, decide, faults, historyVars>>

(* Mutant of PollPending: a poll may be the one that writes "pending" over  *)
(* any record it has seen.                                                  *)
PollWritesBack(p) ==
    /\ poll[p].at = "loaded"
    /\ Store(poll[p].r, "pending")
    /\ poll' = [poll EXCEPT ![p] = Idle]
    /\ clobbered' = IF poll[p].status = "pending" /\ record[poll[p].r] # "pending"
                    THEN clobbered \cup {poll[p].r} ELSE clobbered
    /\ UNCHANGED <<start, row, expired, decide, faults, issued, told, torn, crowded>>

(* A pending record is written back with the time of this poll.             *)
PollPending(p) ==
    /\ poll[p].at = "loaded" /\ poll[p].status = "pending"
    /\ Store(poll[p].r, "pending")
    /\ poll' = [poll EXCEPT ![p] = Idle]
    /\ clobbered' = IF record[poll[p].r] # "pending" THEN clobbered \cup {poll[p].r} ELSE clobbered
    /\ UNCHANGED <<start, row, expired, decide, faults, issued, told, torn, crowded>>

PollDenied(p) ==
    /\ poll[p].at = "loaded" /\ poll[p].status = "denied"
    /\ Delete(poll[p].r)
    /\ poll' = [poll EXCEPT ![p] = Idle]
    /\ told' = told \cup {poll[p].r}
    /\ UNCHANGED <<start, row, expired, decide, faults, issued, torn, clobbered, crowded>>

(* Mutant of PollTake: the record is deleted without asking what was there. *)
PollTakeAnyway(p) ==
    /\ poll[p].at = "loaded" /\ poll[p].status = "approved"
    /\ Delete(poll[p].r)
    /\ poll' = [poll EXCEPT ![p].at = "taken"]
    /\ told' = told \cup {poll[p].r}
    /\ UNCHANGED <<start, row, expired, decide, faults, issued, torn, clobbered, crowded>>

(* GETDEL: whoever finds a record there takes it, whatever it says by now.  *)
PollTake(p) ==
    /\ poll[p].at = "loaded" /\ poll[p].status = "approved"
    /\ Delete(poll[p].r)
    /\ IF record[poll[p].r] = None
       THEN poll' = [poll EXCEPT ![p] = Idle] /\ UNCHANGED told
       ELSE poll' = [poll EXCEPT ![p].at = "taken"] /\ told' = told \cup {poll[p].r}
    /\ UNCHANGED <<start, row, expired, decide, faults, issued, torn, clobbered, crowded>>

(* The row is consumed and tokens are issued; a failure here has spent the  *)
(* approval.                                                                *)
PollConsume(p) ==
    /\ poll[p].at = "taken"
    /\ \/ /\ row' = [row EXCEPT ![poll[p].r] = IF @ = "approved" THEN "consumed" ELSE @]
          /\ issued' = [issued EXCEPT ![poll[p].r] = @ + 1]
          /\ UNCHANGED faults
       \/ Fault /\ UNCHANGED <<row, issued>>
    /\ poll' = [poll EXCEPT ![p] = Idle]
    /\ UNCHANGED <<start, record, keepsTtl, expired, decide, told, torn, clobbered, crowded>>

Next ==
    \/ \E r \in Requests :
         StartCount(r) \/ StartInsert(r) \/ StartStore(r) \/ Expire(r) \/ Drop(r)
    \/ \E d \in Deciders :
         \/ \E r \in Requests, answer \in Answers : DecideRead(d, r, answer)
         \/ DecideStore(d) \/ DecideCommit(d)
    \/ \E p \in Polls :
         \/ \E r \in Requests : PollLoad(p, r)
         \/ PollExpired(p) \/ PollPending(p) \/ PollDenied(p) \/ PollTake(p) \/ PollConsume(p)

Spec == Init /\ [][Next]_vars

-----------------------------------------------------------------------------
Decision == [at : {"read", "stored"}, r : Requests, answer : Answers]
TokenRequest ==
    [at : {"late", "loaded", "taken"}, r : Requests, status : {None, "pending"} \cup Answers]

(* What the rows, the records, the decisions and the token requests are.    *)
TypeOK ==
    /\ start \in [Requests -> {"new", "counted", "inserted", "open", "failed"}]
    /\ row \in [Requests -> {None, "pending", "consumed"} \cup Answers]
    /\ record \in [Requests -> {None, "pending"} \cup Answers]
    /\ keepsTtl \in [Requests -> BOOLEAN] /\ expired \subseteq Requests
    /\ decide \in [Deciders -> Decision \cup {Idle}]
    /\ poll \in [Polls -> TokenRequest \cup {Idle}]
    /\ faults \in 0..MaxFaults
    /\ issued \in [Requests -> Nat]
    /\ told \subseteq Requests /\ torn \subseteq Requests /\ clobbered \subseteq Requests
    /\ crowded \in BOOLEAN

(* Tokens are issued once and on the user's approval, through polls that    *)
(* overlap each other and the answer.  The approval is committed or about   *)
(* to be (the record is there to collect before the commit): not a denial,  *)
(* nor an answer that a poll, a decision or an expiry has since replaced.   *)
(* An answer that was stored and then not committed can be given, and       *)
(* collected, a second time; and a poll that puts a pending record back in  *)
(* the place of a collected one lets another poll that saw the approval     *)
(* collect it again.                                                        *)
CollectedOnce ==
    \A r \in Requests \ torn :
        /\ issued[r] <= 1 \/ r \in clobbered
        /\ issued[r] > 0 =>
             \/ row[r] \in {"approved", "consumed"}
             \/ \E d \in Deciders : decide[d] = [at |-> "stored", r |-> r, answer |-> "approved"]

(* A committed answer reaches the client: the record says the same, or a    *)
(* poll took it, or it ran out; unless a poll that had read the request     *)
(* before the answer wrote it back after.                                   *)
AnswerReachesClient ==
    \A r \in Requests : row[r] \in Answers =>
        record[r] = row[r] \/ r \in told \cup expired \cup clobbered \cup torn

(* The cap on what waits for a user holds but for starts that overlap.      *)
CapUnlessCrowded == crowded \/ Cardinality(Pending) <= MaxPending
=============================================================================
