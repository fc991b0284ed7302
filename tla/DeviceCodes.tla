---------------------------- MODULE DeviceCodes ----------------------------
(***************************************************************************)
(* The device authorization grant (services/device_codes.rs, the audit row *)
(* of repos/device_codes.rs, the token endpoint's device_code).            *)
(*                                                                         *)
(* The record of a device code is one Valkey value.  poll, approve and     *)
(* deny read it, decide, and write the whole value back with SET KEEPTTL:  *)
(* each is a read and a later write, with anything in between.  Time       *)
(* enters as two facts: the record's expires_at has passed, and, once a    *)
(* poll has been noted, that the next one may come too soon.               *)
(***************************************************************************)
EXTENDS Naturals

CONSTANTS
    Devices,     \* device codes (one per authorization request)
    Polling,     \* bound: the devices that poll
    UserCodes,
    Polls,       \* poll handlers; each may run any number of times
    Deciders,    \* answers of a user, each given once
    MaxAnswers,  \* bound: token responses counted per approval
    None

ASSUME DeviceAssumption ==
    /\ Polling \subseteq Devices /\ MaxAnswers \in Nat \ {0}
    /\ None \notin Devices \cup UserCodes \cup Deciders

VARIABLES
    rec,      \* rec[d]: the record in Valkey, None if there is none
    mortal,   \* devices whose record has a TTL
    expired,  \* devices whose expires_at has passed
    shown,    \* shown[d]: the user code d displays, None before it is issued
    pointer,  \* pointer[u]: the device the user code u leads to
    row,      \* row[d]: status of the audit row
    poll,     \* poll[p]: step, device and the record it read
    decider,  \* decider[a]: the same for a decision, and what it decides
    answers,  \* answers[a]: token responses given on approval a
    hasty,    \* history: devices that polled again before the last poll returned
    crossed   \* history: devices decided while a poll held the pending record

vars == <<rec, mortal, expired, shown, pointer, row, poll, decider, answers,
          hasty, crossed>>
issueVars == <<expired, shown>>
historyVars == <<hasty, crossed>>

Statuses == {"pending", "approved", "denied"}
Records == [status : Statuses, by : Deciders \cup {None}, polled : BOOLEAN]
Fresh == [status |-> "pending", by |-> None, polled |-> FALSE]
IdlePoll == [pc |-> "idle", dev |-> None, got |-> Fresh]

Init ==
    /\ rec = [d \in Devices |-> None] /\ mortal = {} /\ expired = {}
    /\ shown = [d \in Devices |-> None] /\ pointer = [u \in UserCodes |-> None]
    /\ row = [d \in Devices |-> "none"]
    /\ poll = [p \in Polls |-> IdlePoll]
    /\ decider = [a \in Deciders |-> [pc |-> "idle", dev |-> None, got |-> Fresh]]
    /\ answers = [a \in Deciders |-> 0]
    /\ hasty = {} /\ crossed = {}

(* store with KEEPTTL: over a key that is gone, the new one has no TTL.     *)
Store(d, r) ==
    /\ rec' = [rec EXCEPT ![d] = r]
    /\ mortal' = IF rec[d] = None THEN mortal \ {d} ELSE mortal
Delete(d) == rec' = [rec EXCEPT ![d] = None]
DropPointer(d) == pointer' = [pointer EXCEPT ![shown[d]] = None]

-----------------------------------------------------------------------------
(* issue: eight tries at a user code nobody claims; the ninth is used as it *)
(* is, claimed by someone else or not.  Nobody knows the codes before issue *)
(* returns, so its writes to Valkey and Postgres are one step.              *)
IssueAs(d, u) ==
    /\ shown[d] = None
    /\ shown' = [shown EXCEPT ![d] = u]
    /\ rec' = [rec EXCEPT ![d] = Fresh]
    /\ mortal' = mortal \cup {d}
    /\ row' = [row EXCEPT ![d] = "pending"]
    /\ UNCHANGED <<expired, poll, decider, answers, historyVars>>

Issue(d, u) ==
    /\ pointer[u] = None
    /\ pointer' = [pointer EXCEPT ![u] = d]
    /\ IssueAs(d, u)

IssueUnclaimed(d, u) ==
    /\ \E v \in UserCodes : pointer[v] # None    \* all eight tries collided
    /\ IssueAs(d, u)
    /\ UNCHANGED pointer

(* It fails after its claim: the user code leads nowhere until its TTL.     *)
IssueFails(d, u) ==
    /\ shown[d] = None /\ pointer[u] = None
    /\ shown' = [shown EXCEPT ![d] = u]
    /\ pointer' = [pointer EXCEPT ![u] = d]
    /\ UNCHANGED <<rec, mortal, expired, row, poll, decider, answers, historyVars>>

-----------------------------------------------------------------------------
(* One poll: it reads the record, then the clock, and goes on with both.    *)
PollLoad(p, d) ==
    /\ poll[p].pc = "idle" /\ rec[d] # None
    /\ poll' = [poll EXCEPT ![p] = [pc |-> IF d \in expired THEN "expired" ELSE "loaded",
                                    dev |-> d, got |-> rec[d]]]
    /\ hasty' = IF \E q \in Polls : poll[q].dev = d THEN hasty \cup {d} ELSE hasty
    /\ UNCHANGED <<rec, mortal, issueVars, pointer, row, decider, answers, crossed>>

Return(p) == poll' = [poll EXCEPT ![p] = IdlePoll]
Loaded(p) == poll[p].pc = "loaded"

PollExpired(p) == LET d == poll[p].dev IN
    /\ poll[p].pc = "expired"
    /\ Delete(d) /\ DropPointer(d) /\ Return(p)
    /\ UNCHANGED <<mortal, issueVars, row, decider, answers, historyVars>>

(* Too soon after the last noted poll, whatever the status; or pending: the *)
(* poll is noted in the record it read, and that is written back.           *)
PollNoted(p) ==
    /\ Loaded(p)
    /\ poll[p].got.polled \/ poll[p].got.status = "pending"
    /\ Store(poll[p].dev, [poll[p].got EXCEPT !.polled = TRUE])
    /\ Return(p)
    /\ UNCHANGED <<issueVars, pointer, row, decider, answers, historyVars>>

PollDenied(p) == LET d == poll[p].dev IN
    /\ Loaded(p) /\ poll[p].got.status = "denied"
    /\ Delete(d) /\ DropPointer(d) /\ Return(p)
    /\ UNCHANGED <<mortal, issueVars, row, decider, answers, historyVars>>

(* Mutant of PollTake: the record is read once more instead of taken.       *)
PollTakeGet(p) == LET d == poll[p].dev IN
    /\ Loaded(p) /\ poll[p].got.status = "approved"
    /\ IF rec[d] = None THEN Return(p) ELSE poll' = [poll EXCEPT ![p].pc = "taken"]
    /\ UNCHANGED <<rec, mortal, issueVars, pointer, row, decider, answers, historyVars>>

(* GETDEL; only whether there was a record matters, not what it held.       *)
PollTake(p) == LET d == poll[p].dev IN
    /\ Loaded(p) /\ poll[p].got.status = "approved"
    /\ IF rec[d] = None THEN Return(p) ELSE poll' = [poll EXCEPT ![p].pc = "taken"]
    /\ Delete(d)
    /\ UNCHANGED <<mortal, issueVars, pointer, row, decider, answers, historyVars>>

(* What follows it: the user code in Valkey, then the row in Postgres.      *)
PollDropCode(p) ==
    /\ poll[p].pc = "taken"
    /\ DropPointer(poll[p].dev)
    /\ poll' = [poll EXCEPT ![p].pc = "consume"]
    /\ UNCHANGED <<rec, mortal, issueVars, row, decider, answers, historyVars>>

PollConsume(p) == LET d == poll[p].dev IN
    /\ poll[p].pc = "consume"
    /\ row' = [row EXCEPT ![d] = IF @ = "approved" THEN "consumed" ELSE @]
    /\ poll' = [poll EXCEPT ![p].pc = "answer"]
    /\ UNCHANGED <<rec, mortal, issueVars, pointer, decider, answers, historyVars>>

PollAnswer(p) == LET a == poll[p].got.by IN
    /\ poll[p].pc = "answer" /\ answers[a] < MaxAnswers
    /\ answers' = [answers EXCEPT ![a] = @ + 1]
    /\ Return(p)
    /\ UNCHANGED <<rec, mortal, issueVars, pointer, row, decider, historyVars>>

(* Valkey, Postgres or the issuing of the tokens fails.                     *)
PollFail(p) ==
    /\ poll[p].pc # "idle"
    /\ Return(p)
    /\ UNCHANGED <<rec, mortal, issueVars, pointer, row, decider, answers, historyVars>>

-----------------------------------------------------------------------------
(* The user enters a code and sees the pending request behind it.           *)
Pending(d) == rec[d] # None /\ rec[d].status = "pending"

FindByUserCode(a, u) == LET d == pointer[u] IN
    /\ decider[a].pc = "idle" /\ d # None /\ Pending(d) /\ d \notin expired
    /\ decider' = [decider EXCEPT ![a].pc = "page", ![a].dev = d]
    /\ UNCHANGED <<rec, mortal, issueVars, pointer, row, poll, answers, historyVars>>

(* Mutant of DecideLoad: who decided is noted, the status is not set.       *)
DecideLoadUnset(a, verdict) == LET d == decider[a].dev IN
    /\ decider[a].pc = "page" /\ Pending(d)
    /\ decider' = [decider EXCEPT ![a].pc = "store", ![a].got = [rec[d] EXCEPT !.by = a]]
    /\ UNCHANGED <<rec, mortal, issueVars, pointer, row, poll, answers, historyVars>>

(* approve (deny) reads the record again; one that is decided, gone or      *)
(* (approve) expired ends it.                                               *)
DecideLoad(a, verdict) == LET d == decider[a].dev IN
    /\ decider[a].pc = "page"
    /\ decider' =
         IF Pending(d) /\ (verdict = "approved" => d \notin expired)
         THEN [decider EXCEPT ![a].pc = "store",
                 ![a].got = [status |-> verdict, by |-> a, polled |-> rec[d].polled]]
         ELSE [decider EXCEPT ![a].pc = "refused"]
    /\ UNCHANGED <<rec, mortal, issueVars, pointer, row, poll, answers, historyVars>>

DecideStore(a) ==
    /\ decider[a].pc = "store"
    /\ Store(decider[a].dev, decider[a].got)
    /\ decider' = [decider EXCEPT ![a].pc = "row"]
    /\ crossed' = IF \E p \in Polls : poll[p].dev = decider[a].dev
                  THEN crossed \cup {decider[a].dev} ELSE crossed
    /\ UNCHANGED <<issueVars, pointer, row, poll, answers, hasty>>

DecideRow(a) == LET d == decider[a].dev IN
    /\ decider[a].pc = "row"
    /\ row' = [row EXCEPT ![d] = IF @ = "pending" THEN decider[a].got.status ELSE @]
    /\ decider' = [decider EXCEPT ![a].pc = "done"]
    /\ UNCHANGED <<rec, mortal, issueVars, pointer, poll, answers, historyVars>>

DecideFail(a) ==
    /\ decider[a].pc \in {"store", "row"}
    /\ decider' = [decider EXCEPT ![a].pc = "refused"]
    /\ UNCHANGED <<rec, mortal, issueVars, pointer, row, poll, answers, historyVars>>

-----------------------------------------------------------------------------
(* DEVICE_CODE_TTL_SECS passes: by the record's own date, then by the keys' *)
(* TTLs, which were set later.                                              *)
PassDeadline(d) ==
    /\ shown[d] # None /\ d \notin expired
    /\ expired' = expired \cup {d}
    /\ UNCHANGED <<rec, mortal, shown, pointer, row, poll, decider, answers, historyVars>>

TtlRecord(d) ==
    /\ d \in expired \cap mortal /\ rec[d] # None
    /\ Delete(d)
    /\ UNCHANGED <<mortal, issueVars, pointer, row, poll, decider, answers, historyVars>>

TtlPointer(u) ==
    /\ pointer[u] \in expired
    /\ pointer' = [pointer EXCEPT ![u] = None]
    /\ UNCHANGED <<rec, mortal, issueVars, row, poll, decider, answers, historyVars>>

Next ==
    \/ \E d \in Devices, u \in UserCodes : Issue(d, u) \/ IssueUnclaimed(d, u)
                                             \/ IssueFails(d, u)
    \/ \E p \in Polls, d \in Polling : PollLoad(p, d)
    \/ \E p \in Polls : \/ PollExpired(p) \/ PollNoted(p) \/ PollDenied(p)
                        \/ PollTake(p) \/ PollDropCode(p) \/ PollConsume(p)
                        \/ PollAnswer(p) \/ PollFail(p)
    \/ \E a \in Deciders, u \in UserCodes : FindByUserCode(a, u)
    \/ \E a \in Deciders, v \in {"approved", "denied"} : DecideLoad(a, v)
    \/ \E a \in Deciders : DecideStore(a) \/ DecideRow(a) \/ DecideFail(a)
    \/ \E d \in Devices : PassDeadline(d) \/ TtlRecord(d)
    \/ \E u \in UserCodes : TtlPointer(u)

Spec == Init /\ [][Next]_vars

-----------------------------------------------------------------------------
(* What the record, its pointer and row, polls and decisions are.           *)
TypeOK ==
    /\ rec \in [Devices -> Records \cup {None}]
    /\ mortal \subseteq Devices /\ expired \subseteq Devices
    /\ shown \in [Devices -> UserCodes \cup {None}]
    /\ pointer \in [UserCodes -> Devices \cup {None}]
    /\ row \in [Devices -> Statuses \cup {"none", "consumed"}]
    /\ poll \in [Polls -> [pc : {"idle", "expired", "loaded", "taken", "consume", "answer"},
                           dev : Devices \cup {None}, got : Records]]
    /\ decider \in [Deciders -> [pc : {"idle", "page", "store", "row", "done", "refused"},
                                 dev : Devices \cup {None}, got : Records]]
    /\ answers \in [Deciders -> 0 .. MaxAnswers]
    /\ hasty \subseteq Devices /\ crossed \subseteq Devices

(* poll: "Spent by the first poll that sees the approval".  One approval    *)
(* yields tokens once, with decisions, failures and expiry in any order,    *)
(* for a device that waits for each answer before it polls again.  One      *)
(* that does not may be answered twice: a poll that came too soon writes    *)
(* the approved record back after another has spent it.                     *)
ApprovalSpentOnce ==
    \A a \in Deciders : decider[a].dev \notin hasty => answers[a] <= 1

(* The module's header, "Approval or denial rewrites the record in place;   *)
(* the device's next poll takes it": a decision that went through is not    *)
(* found pending again, unless a poll had read the pending record before    *)
(* it and notes itself in that copy afterwards.                             *)
DecisionSticks ==
    \A a \in Deciders :
        decider[a].pc = "done" /\ decider[a].dev \notin crossed => ~Pending(decider[a].dev)
=============================================================================
