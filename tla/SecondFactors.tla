--------------------------- MODULE SecondFactors ---------------------------
(***************************************************************************)
(* The second factors of one user and what proves them: authenticator      *)
(* codes and recovery codes (services/totp.rs), codes by message           *)
(* (services/otp_factors.rs, check_code of services/passwordless.rs), and  *)
(* their enrolment and removal from a sign-in or the account console       *)
(* (services/flows.rs, routes/account/mfa.rs).                             *)
(*                                                                         *)
(* Credentials are rows; everything pending is a key in Valkey that ends   *)
(* on its own.  Only the mark of a used time step and the pause between    *)
(* two messages are claimed atomically: the rest is read, and later        *)
(* written or deleted, by requests that interleave.                        *)
(*                                                                         *)
(* An authenticator code is known by its secret and its time step, a       *)
(* recovery code by its set and its place, a message by its number.        *)
(***************************************************************************)
EXTENDS Naturals, FiniteSets

CONSTANTS
    Requests,
    Scopes,          \* login flows and console sessions, which hold what is pending
    Destinations,    \* addresses and numbers
    InitiallyHeld,   \* what factors the user may hold to begin with
    Codes,           \* the places in a set of recovery codes
    Skew,            \* SKEW
    MaxOtpAttempts,  \* OTP_MAX_ATTEMPTS
    MaxClock,        \* bound: time steps
    MaxStarts,       \* bound: requests that are made
    MaxFaults,       \* bound: requests that die half-way
    None

ASSUME SecondFactorsAssumption ==
    /\ {Skew, MaxClock, MaxStarts, MaxFaults} \subseteq Nat /\ MaxOtpAttempts \in Nat \ {0}
    /\ InitiallyHeld \subseteq SUBSET {"totp", "sms"} /\ None \notin Destinations

VARIABLES
    creds,      \* credentials: the second factors
    sets,       \* credentials: the sets of recovery codes and what is left of each
    phone,      \* users.phone, once verified
    secretAt,   \* totp_enrolment keys: the secret each scope is to prove
    pending,    \* otp_factor_enrolment keys: the destination each scope is to prove
    codeAt,     \* flow_otp keys of the two purposes
    cooldown,   \* otp_factor_cooldown keys
    marks,      \* totp_used_step keys
    clock,      \* the time step it is
    req,        \* the requests in flight
    made,       \* how many secrets, messages, sets and credentials were made
    starts, faults,
    spent,      \* history: the one-time codes that were accepted
    twice,      \* history: those accepted a second time
    tries,      \* history: wrong codes checked against each message
    shared,     \* history: secrets, sets and messages two requests had in hand at once
    crossed,    \* history: scopes in which an enrolment began beside another request's,
                \*   or ended, done or run out, before its code or such a request
    tangled     \* history: a factor was removed beside another change

rows == <<creds, sets, phone>>
keys == <<secretAt, pending, codeAt, cooldown, marks>>
history == <<spent, twice, tries, shared, crossed, tangled>>
vars == <<rows, keys, clock, req, made, starts, faults, history>>

Purposes == {"enrol", "verify"}
Idle == [pc |-> "idle"]
Busy(r) == req[r].pc # "idle"
Others(r) == {p \in Requests \ {r} : Busy(p)}

Totp(id, secret) == [kind |-> "totp", id |-> id, secret |-> secret]
Sms(id, s, d, sentTo) ==
    [kind |-> "sms", id |-> id, scope |-> s, proven |-> d, sentTo |-> sentTo]

Init ==
    /\ \E d \in Destinations, held \in InitiallyHeld :
         /\ creds = {c \in {Totp(1, 1), Sms(2, None, d, d)} : c.kind \in held}
         /\ sets = [k \in IF held = {} THEN {} ELSE {3} |-> Codes]
         /\ phone = IF "sms" \in held THEN d ELSE None
    /\ secretAt = [s \in Scopes |-> None] /\ pending = [s \in Scopes |-> None]
    /\ codeAt = [s \in Scopes |-> [p \in Purposes |-> None]]
    /\ cooldown = [s \in Scopes |-> [p \in Purposes |-> FALSE]]
    /\ marks = {} /\ clock = 0
    /\ req = [r \in Requests |-> Idle]
    /\ made = 3 /\ starts = 0 /\ faults = 0
    /\ spent = {} /\ twice = {} /\ tries = [n \in {} |-> 0]
    /\ shared = {} /\ crossed = {} /\ tangled = FALSE

-----------------------------------------------------------------------------
(* What the requests share.                                                 *)

Start(r, q) ==
    /\ ~ Busy(r) /\ starts < MaxStarts /\ starts' = starts + 1
    /\ req' = [req EXCEPT ![r] = q]
Goto(r, pc) == req' = [req EXCEPT ![r].pc = pc]
Finished(r) == req' = [req EXCEPT ![r] = Idle]

(* A one-time code is good for what it is asked for.                        *)
Accept(code) ==
    /\ spent' = spent \cup {code}
    /\ twice' = IF code \in spent THEN twice \cup {code} ELSE twice

(* Requests that hold what `store` names: a secret to be enrolled or marked,*)
(* a set of recovery codes or a message.                                    *)
Holders(store) == {p \in Requests : Busy(p) /\ store \in req[p].holds}

(* Changes of what factors there are.                                       *)
Changing(r) == {p \in Others(r) : req[p].op \in {"totp", "sms", "regenerate", "remove"}}
Tangle(r, op) ==
    tangled' = (tangled \/ \E p \in Changing(r) : "remove" \in {op, req[p].op})

Kind(k) == {c \in creds : c.kind = k}
InWindow(step) == clock <= step + Skew /\ step <= clock + Skew

-----------------------------------------------------------------------------
(* Recovery codes.                                                          *)

(* regenerate_recovery_codes: one transaction, which deletes the sets it    *)
(* sees and inserts one it has made.                                        *)
RegenDelete(r) ==
    /\ req[r].pc = "regen"
    /\ req' = [req EXCEPT ![r].pc = "insertSet", ![r].seen = DOMAIN sets]
    /\ UNCHANGED <<rows, keys, clock, made, starts, faults, history>>

RegenInsert(r) ==
    LET kept == DOMAIN sets \ req[r].seen
        new == made + 1
    IN  /\ req[r].pc = "insertSet"
        /\ made' = new
        /\ sets' = [k \in kept \cup {new} |-> IF k = new THEN Codes ELSE sets[k]]
        /\ Finished(r)
        /\ UNCHANGED <<creds, phone, keys, clock, starts, faults, history>>

(* first_recovery_codes: only a user without an unused one gets a set.      *)
FirstCodes(r) ==
    /\ req[r].pc = "first"
    /\ IF \A k \in DOMAIN sets : sets[k] = {} THEN Goto(r, "regen") ELSE Finished(r)
    /\ UNCHANGED <<rows, keys, clock, made, starts, faults, history>>

(* The console's recovery-codes, which has_second_factor guards.            *)
Regenerate(r) ==
    /\ creds # {}
    /\ Start(r, [op |-> "regenerate", pc |-> "regen", seen |-> {}, holds |-> {}])
    /\ Tangle(r, "regenerate")
    /\ UNCHANGED <<rows, keys, clock, made, faults, spent, twice, tries, shared, crossed>>

(* verify_recovery: the set is read, and written back without the code.     *)
VerifyRecovery(r, k, code) ==
    LET store == <<"set", k>> IN
    /\ k \in DOMAIN sets /\ code \in sets[k]
    /\ Start(r, [op |-> "recovery", pc |-> "use", set |-> k, code |-> code,
                 left |-> sets[k] \ {code}, holds |-> {store}])
    /\ shared' = IF Holders(store) = {} THEN shared ELSE shared \cup {store}
    /\ UNCHANGED <<rows, keys, clock, made, faults, spent, twice, tries, crossed, tangled>>

UseRecovery(r) ==
    LET q == req[r] IN
    /\ q.pc = "use"
    /\ sets' = [k \in DOMAIN sets |-> IF k = q.set THEN q.left ELSE sets[k]]
    /\ Accept(<<"set", q.set, q.code>>)
    /\ Finished(r)
    /\ UNCHANGED <<creds, phone, keys, clock, made, starts, faults, tries, shared, crossed,
                   tangled>>

(* remove_credential: one transaction; with the last factor it sees it      *)
(* deletes the recovery codes.                                              *)
Remove(r, c) ==
    /\ c \in creds
    /\ Start(r, [op |-> "remove", pc |-> "remove", cred |-> c, others |-> creds \ {c},
                 holds |-> {}])
    /\ Tangle(r, "remove")
    /\ UNCHANGED <<rows, keys, clock, made, faults, spent, twice, tries, shared, crossed>>

(* Mutant of RemoveCommit: the recovery codes stay.                         *)
RemoveCommitOnly(r) ==
    /\ req[r].pc = "remove"
    /\ creds' = creds \ {req[r].cred}
    /\ Finished(r)
    /\ UNCHANGED <<sets, phone, keys, clock, made, starts, faults, history>>

RemoveCommit(r) ==
    /\ req[r].pc = "remove"
    /\ creds' = creds \ {req[r].cred}
    /\ sets' = IF req[r].others = {} THEN [k \in {} |-> {}] ELSE sets
    /\ Finished(r)
    /\ UNCHANGED <<phone, keys, clock, made, starts, faults, history>>

-----------------------------------------------------------------------------
(* Authenticator apps.                                                      *)

(* mfa_enrol_begin and totp_enroll: for a user who has no app yet.          *)
TotpBegin(r, s) ==
    /\ Kind("totp") = {}
    /\ Start(r, [op |-> "begin", pc |-> "claimSecret", scope |-> s, holds |-> {}])
    /\ UNCHANGED <<rows, keys, clock, made, faults, history>>

(* begin_enrolment: SET NX, so that all who ask see the secret that won.    *)
ClaimSecret(r) ==
    LET s == req[r].scope IN
    /\ req[r].pc = "claimSecret"
    /\ IF secretAt[s] = None
       THEN secretAt' = [secretAt EXCEPT ![s] = made + 1] /\ made' = made + 1
       ELSE UNCHANGED <<secretAt, made>>
    /\ Finished(r)
    /\ UNCHANGED <<rows, pending, codeAt, cooldown, marks, clock, starts, faults, history>>

(* confirm_enrolment, with a right code: the secret is read, ...            *)
TotpConfirm(r, s, step) ==
    LET store == <<"secret", secretAt[s]>> IN
    /\ secretAt[s] # None /\ InWindow(step)
    /\ Start(r, [op |-> "totp", pc |-> "insertTotp", scope |-> s, secret |-> secretAt[s],
                 step |-> step, cred |-> None, seen |-> {}, holds |-> {store}])
    /\ shared' = IF Holders(store) = {} THEN shared ELSE shared \cup {store}
    /\ Tangle(r, "totp")
    /\ UNCHANGED <<rows, keys, clock, made, faults, spent, twice, tries, crossed>>

(* ... the factor inserted, ...                                             *)
InsertTotp(r) ==
    LET q == req[r]
        new == Totp(made + 1, q.secret)
    IN  /\ q.pc = "insertTotp"
        /\ creds' = creds \cup {new} /\ made' = made + 1
        /\ Accept(<<"secret", q.secret, q.step>>)
        /\ req' = [req EXCEPT ![r].pc = "mark", ![r].cred = new]
        /\ UNCHANGED <<sets, phone, keys, clock, starts, faults, tries, shared, crossed, tangled>>

(* Mutant of MarkEnds: the skew is counted on one side only.                *)
MarkEndsEarly(mark) == clock >= mark.at + Skew + 1

(* The time to live of a mark, PERIOD_SECS * (2 * SKEW + 1).                *)
MarkEnds(mark) == clock >= mark.at + 2 * Skew + 1

Marked(c, step) == \E mark \in marks : mark.cred = c.id /\ mark.step = step
MarkUsed(c, step) ==
    marks' = IF Marked(c, step) THEN marks
             ELSE marks \cup {[cred |-> c.id, step |-> step, at |-> clock]}

(* ... the step that proved it marked, and the secret deleted, before the   *)
(* recovery codes are made.                                                 *)
MarkProof(r) ==
    /\ req[r].pc = "mark"
    /\ MarkUsed(req[r].cred, req[r].step)
    /\ Goto(r, "deleteSecret")
    /\ UNCHANGED <<rows, secretAt, pending, codeAt, cooldown, clock, made, starts, faults, history>>

DeleteSecret(r) ==
    /\ req[r].pc = "deleteSecret"
    /\ secretAt' = [secretAt EXCEPT ![req[r].scope] = None]
    /\ Goto(r, "regen")
    /\ UNCHANGED <<rows, pending, codeAt, cooldown, marks, clock, made, starts, faults, history>>

(* verify_totp: the first row the code is right for, ...                    *)
VerifyTotp(r, secret, step) ==
    LET mine == {c \in Kind("totp") : c.secret = secret}
        enrolling == {p \in Holders(<<"secret", secret>>) : req[p].op = "totp"}
    IN  /\ mine # {} /\ InWindow(step)
        /\ Start(r, [op |-> "verify", pc |-> "claimStep", secret |-> secret, step |-> step,
                     cred |-> CHOOSE c \in mine : \A d \in mine : c.id <= d.id, at |-> clock,
                     holds |-> {<<"secret", secret>>}])
        /\ shared' = IF enrolling = {} THEN shared ELSE shared \cup {<<"secret", secret>>}
        /\ UNCHANGED <<rows, keys, clock, made, faults, spent, twice, tries, crossed, tangled>>

(* ... and its step, claimed with SET NX.  (In a later time step than the   *)
(* check, the mark of an earlier use may have ended.)                       *)
ClaimStep(r) ==
    LET q == req[r] IN
    /\ q.pc = "claimStep"
    /\ MarkUsed(q.cred, q.step)
    /\ IF Marked(q.cred, q.step) THEN UNCHANGED <<spent, twice>>
       ELSE Accept(<<"secret", q.secret, q.step>>)
    /\ shared' = IF q.at = clock THEN shared ELSE shared \cup q.holds
    /\ Finished(r)
    /\ UNCHANGED <<rows, secretAt, pending, codeAt, cooldown, clock, made, starts, faults, tries,
                   crossed, tangled>>

-----------------------------------------------------------------------------
(* Codes by message.                                                        *)

Beginning(p, s) == Busy(p) /\ req[p].op = "smsBegin" /\ req[p].scope = s
Underway(s, others) ==
    \E p \in others : Busy(p) /\ req[p].op \in {"smsBegin", "sms"} /\ req[p].scope = s

(* An enrolment ends: what it leaves behind would meet the next one.        *)
Cross(s, others) ==
    crossed' = IF codeAt[s].enrol = None /\ ~ Underway(s, others) THEN crossed
               ELSE crossed \cup {s}

(* begin_enrolment of a channel that is not enrolled, for the account's     *)
(* destination or another: what is pending is read first.                   *)
SmsBegin(r, s, d) ==
    /\ Kind("sms") = {}
    /\ Start(r, [op |-> "smsBegin", pc |-> "switch", scope |-> s, purpose |-> "enrol",
                 to |-> d, previous |-> pending[s], holds |-> {}])
    /\ crossed' = IF Underway(s, Requests) THEN crossed \cup {s} ELSE crossed
    /\ UNCHANGED <<rows, keys, clock, made, faults, spent, twice, tries, shared, tangled>>

(* Mutant of Switch: the code for the other destination is kept.            *)
SwitchKeepsCode(r) ==
    /\ req[r].pc = "switch"
    /\ Goto(r, "note")
    /\ UNCHANGED <<rows, keys, clock, made, starts, faults, history>>

(* Another destination discards the code that is out, and its pause.        *)
Switch(r) ==
    LET q == req[r]
        switches == q.previous \notin {None, q.to}
    IN  /\ q.pc = "switch"
        /\ codeAt' = IF switches THEN [codeAt EXCEPT ![q.scope].enrol = None] ELSE codeAt
        /\ cooldown' = IF switches THEN [cooldown EXCEPT ![q.scope].enrol = FALSE] ELSE cooldown
        /\ Goto(r, "note")
        /\ UNCHANGED <<rows, secretAt, pending, marks, clock, made, starts, faults, history>>

NotePending(r) ==
    /\ req[r].pc = "note"
    /\ pending' = [pending EXCEPT ![req[r].scope] = req[r].to]
    /\ Goto(r, "pause")
    /\ UNCHANGED <<rows, secretAt, codeAt, cooldown, marks, clock, made, starts, faults, history>>

(* send_code, to the account's verified number.                             *)
SendCode(r, s) ==
    /\ Kind("sms") # {} /\ phone # None
    /\ Start(r, [op |-> "send", pc |-> "pause", scope |-> s, purpose |-> "verify", to |-> phone,
                 holds |-> {}])
    /\ UNCHANGED <<rows, keys, clock, made, faults, history>>

(* issue: nothing more is sent while the pause lasts.                       *)
ClaimPause(r) ==
    LET q == req[r] IN
    /\ q.pc = "pause"
    /\ cooldown' = [cooldown EXCEPT ![q.scope][q.purpose] = TRUE]
    /\ IF cooldown[q.scope][q.purpose] THEN Finished(r) ELSE Goto(r, "send")
    /\ UNCHANGED <<rows, secretAt, pending, codeAt, marks, clock, made, starts, faults, history>>

(* check_send_limit refuses, or store_code replaces what was there.         *)
StoreCode(r) ==
    LET q == req[r] IN
    /\ q.pc = "send" /\ Finished(r)
    /\ \/ UNCHANGED <<codeAt, made, tries>>
       \/ /\ made' = made + 1
          /\ codeAt' = [codeAt EXCEPT ![q.scope][q.purpose] =
                          [n |-> made + 1, to |-> q.to, attempts |-> 0]]
          /\ tries' = [n \in DOMAIN tries \cup {made + 1} |->
                         IF n = made + 1 THEN 0 ELSE tries[n]]
    /\ UNCHANGED <<rows, secretAt, pending, cooldown, marks, clock, starts, faults, spent, twice,
                   shared, crossed, tangled>>

(* confirm_enrolment with the code of a message (0: a wrong one) reads the  *)
(* pending destination; verify reads nothing more than the code.            *)
SmsConfirm(r, s, n) ==
    /\ pending[s] # None
    /\ Start(r, [op |-> "sms", pc |-> "check", scope |-> s, purpose |-> "enrol", n |-> n,
                 to |-> pending[s], copy |-> None, seen |-> {}, holds |-> {}])
    /\ crossed' = IF \E p \in Requests : Beginning(p, s) THEN crossed \cup {s} ELSE crossed
    /\ Tangle(r, "sms")
    /\ UNCHANGED <<rows, keys, clock, made, faults, spent, twice, tries, shared>>

SmsVerify(r, s, n) ==
    /\ codeAt[s].verify # None
    /\ Start(r, [op |-> "verify", pc |-> "check", scope |-> s, purpose |-> "verify", n |-> n,
                 to |-> None, copy |-> None, holds |-> {}])
    /\ UNCHANGED <<rows, keys, clock, made, faults, history>>

(* check_code: GET, ...                                                     *)
CheckGet(r) ==
    LET q == req[r]
        found == codeAt[q.scope][q.purpose]
        store == <<"message", found.n>>
    IN  /\ q.pc = "check"
        /\ IF found = None THEN Finished(r) /\ UNCHANGED shared
           ELSE /\ req' = [req EXCEPT ![r].pc = "judge", ![r].copy = found, ![r].holds = {store}]
                /\ shared' = IF Holders(store) = {} THEN shared ELSE shared \cup {store}
        /\ UNCHANGED <<rows, keys, clock, made, starts, faults, spent, twice, tries, crossed,
                       tangled>>

(* ... then DEL when the code is right, or at the last attempt, or SET with *)
(* one attempt more.                                                        *)
Judge(r) ==
    LET q == req[r]
        right == q.n = q.copy.n
        counted == [q.copy EXCEPT !.attempts = @ + 1]
        after == IF right \/ counted.attempts >= MaxOtpAttempts THEN None ELSE counted
    IN  /\ q.pc = "judge"
        /\ codeAt' = [codeAt EXCEPT ![q.scope][q.purpose] = after]
        /\ IF right
           THEN /\ Accept(<<"message", q.n>>) /\ UNCHANGED tries
                /\ IF q.op = "sms" THEN Goto(r, "insertSms") ELSE Finished(r)
           ELSE /\ tries' = [tries EXCEPT ![q.copy.n] = @ + 1]
                /\ Finished(r) /\ UNCHANGED <<spent, twice>>
        /\ UNCHANGED <<rows, secretAt, pending, cooldown, marks, clock, made, starts, faults,
                       shared, crossed, tangled>>

(* The factor is inserted, what was pending deleted, and the number the     *)
(* account's.                                                               *)
InsertSms(r) ==
    LET q == req[r] IN
    /\ q.pc = "insertSms"
    /\ creds' = creds \cup {Sms(made + 1, q.scope, q.to, q.copy.to)}
    /\ made' = made + 1
    /\ Goto(r, "deletePending")
    /\ UNCHANGED <<sets, phone, keys, clock, starts, faults, history>>

DeletePending(r) ==
    /\ req[r].pc = "deletePending"
    /\ pending' = [pending EXCEPT ![req[r].scope] = None]
    /\ Cross(req[r].scope, Requests \ {r})
    /\ Goto(r, "verified")
    /\ UNCHANGED <<rows, secretAt, codeAt, cooldown, marks, clock, made, starts, faults, spent,
                   twice, tries, shared, tangled>>

MarkVerified(r) ==
    /\ req[r].pc = "verified"
    /\ phone' = req[r].to
    /\ Goto(r, "first")
    /\ UNCHANGED <<creds, sets, keys, clock, made, starts, faults, history>>

-----------------------------------------------------------------------------
(* Time, and requests that die.                                             *)

(* Only differences of time count: steps are counted from the first code.   *)
Tick ==
    /\ clock < MaxClock /\ clock' = clock + 1
    /\ marks # {} \/ \E r \in Requests : req[r].pc \in {"insertTotp", "mark", "claimStep"}
    /\ marks' = {mark \in marks : ~ MarkEnds(mark)'}
    /\ UNCHANGED <<rows, secretAt, pending, codeAt, cooldown, req, made, starts, faults, history>>

(* A pause is over long before the code it came before.  A code is stored   *)
(* after the enrolment it is for, for as long: it may end a little later.   *)
Lapse(s) ==
    /\ \/ \E p \in Purposes :
            \/ /\ cooldown[s][p] /\ cooldown' = [cooldown EXCEPT ![s][p] = FALSE]
               /\ UNCHANGED <<secretAt, pending, codeAt, crossed>>
            \/ /\ codeAt[s][p] # None /\ ~ cooldown[s][p]
               /\ codeAt' = [codeAt EXCEPT ![s][p] = None]
               /\ UNCHANGED <<secretAt, pending, cooldown, crossed>>
       \/ /\ pending[s] # None /\ pending' = [pending EXCEPT ![s] = None]
          /\ Cross(s, Requests)
          /\ UNCHANGED <<secretAt, codeAt, cooldown>>
       \/ /\ secretAt[s] # None /\ secretAt' = [secretAt EXCEPT ![s] = None]
          /\ UNCHANGED <<pending, codeAt, cooldown, crossed>>
    /\ UNCHANGED <<rows, marks, clock, req, made, starts, faults, spent, twice, tries, shared,
                   tangled>>

(* An enrolment that dies leaves its secret, or its first step, to be used  *)
(* again.                                                                   *)
Die(r) ==
    /\ Busy(r) /\ faults < MaxFaults /\ faults' = faults + 1
    /\ Finished(r)
    /\ shared' = IF req[r].op = "totp" THEN shared \cup req[r].holds ELSE shared
    /\ UNCHANGED <<rows, keys, clock, made, starts, spent, twice, tries, crossed, tangled>>

Typed == {0} \cup DOMAIN tries

Next ==
    \/ \E r \in Requests :
         \/ RegenDelete(r) \/ RegenInsert(r) \/ FirstCodes(r) \/ Regenerate(r) \/ UseRecovery(r)
         \/ RemoveCommit(r) \/ ClaimSecret(r) \/ InsertTotp(r) \/ MarkProof(r) \/ DeleteSecret(r)
         \/ ClaimStep(r) \/ Switch(r) \/ NotePending(r) \/ ClaimPause(r) \/ StoreCode(r)
         \/ CheckGet(r) \/ Judge(r) \/ InsertSms(r) \/ DeletePending(r) \/ MarkVerified(r)
         \/ Die(r)
         \/ \E k \in DOMAIN sets, code \in Codes : VerifyRecovery(r, k, code)
         \/ \E c \in creds : Remove(r, c)
         \/ \E c \in Kind("totp"), step \in 0..(MaxClock + Skew) : VerifyTotp(r, c.secret, step)
         \/ \E s \in Scopes :
              \/ TotpBegin(r, s) \/ SendCode(r, s)
              \/ \E step \in 0..(MaxClock + Skew) : TotpConfirm(r, s, step)
              \/ \E d \in Destinations : SmsBegin(r, s, d)
              \/ \E n \in Typed : SmsConfirm(r, s, n) \/ SmsVerify(r, s, n)
    \/ \E s \in Scopes : Lapse(s)
    \/ Tick

Spec == Init /\ [][Next]_vars

-----------------------------------------------------------------------------
(* A one-time code is accepted once: an authenticator code of a time step,  *)
(* a recovery code, a message; and a message takes no more wrong codes than *)
(* OTP_MAX_ATTEMPTS.  Not so for what two requests had in hand at once, nor *)
(* for an authenticator's code across an enrolment that died or a check     *)
(* that outlasted its time step.                                            *)
AcceptedOnce ==
    /\ \A code \in twice : <<code[1], code[2]>> \in shared
    /\ \A n \in DOMAIN tries : tries[n] <= MaxOtpAttempts \/ <<"message", n>> \in shared

(* A code sent to one destination never proves another, however often the   *)
(* user changes it, unless an enrolment began beside another request of the *)
(* same scope, or left one behind, or its code (which a wrong code, checked *)
(* beside the right one, brings back), when it was done or ran out.         *)
ProvenWhereSent ==
    \A c \in Kind("sms") : c.proven = c.sentTo \/ c.scope \in crossed

(* Recovery codes go with the last factor: there are none without a factor, *)
(* unless a factor was removed beside another change.                       *)
CodesNeedAFactor ==
    DOMAIN sets # {} => creds # {} \/ tangled
=============================================================================
