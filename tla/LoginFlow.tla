------------------------------ MODULE LoginFlow ------------------------------
(***************************************************************************)
(* Signing in.  /authorize decides what a browser still owes and opens a   *)
(* login flow (oidc/authorize.rs); the steps of the flow API load the flow *)
(* record from Valkey, act, and write the record back whole                *)
(* (routes/flows.rs, services/flows.rs, services/login_flows.rs); the      *)
(* first factor opens an SSO session, which every later step reads and     *)
(* writes back whole too (services/sessions.rs); finish turns a flow that  *)
(* is Done into an authorization code.  Neither record has a version: a    *)
(* step that loaded early and saves late overwrites what happened between. *)
(*                                                                         *)
(* A request is a process that keeps the copies it read.  One browser, one *)
(* tenant, one client; an `amr` list is whether it holds "mfa".            *)
(***************************************************************************)
EXTENDS Naturals, Sequences, FiniteSets

CONSTANTS
    Users, Flows, Requests,
    MaxSessions,     \* bound: sessions that are ever opened
    MfaUsers,        \* the users policy_requires_mfa holds for
    Unregistered,    \* the users who have no account yet
    InitiallyOwes,   \* the debts each user has at the start
    Orgs,            \* how many organizations each user may choose from
    NamesOrg,        \* authorization requests whose organization the user belongs to
    RiskOf,          \* the verdicts the risk policy may reach in each flow
    AcrMfa,          \* authorization requests whose acr_values demand an MFA class
    ForceConsent,    \* ... with prompt=consent
    SkipConsent,     \* ... of a client exempt from the consent screen
    Remember,        \* flows whose user ticks "remember this device"
    MaxAttempts,     \* MFA_MAX_ATTEMPTS
    MaxTries,        \* bound: attempts counted by one flow
    MaxFailures,     \* lockout.max_failures
    MaxConcurrent,   \* session.max_concurrent (0: unlimited)
    MaxDisturbances, \* bound: disturbances of the sign-ins
    None

ASSUME BoundsAssumption ==
    /\ {MaxSessions, MaxAttempts, MaxTries, MaxFailures, MaxConcurrent, MaxDisturbances}
         \subseteq Nat
    /\ MaxAttempts > 0 /\ MaxFailures > 0
    /\ RiskOf \in [Flows -> SUBSET {"allow", "step_up", "block"}]
    /\ None \notin Users \cup Flows \cup (1..MaxSessions)

VARIABLES
    flows,      \* login_flow keys: the record of each flow, or None
    sess,       \* sso_session keys: the record of each session, or None
    rows,       \* sso_sessions: unused, live or revoked
    tracked,    \* user_sessions keys: the sessions a user's set lists
    acct,       \* users: status, failed_attempts, locked_until, what is owed
    consents,   \* the users who granted the client its scopes
    links,      \* verification links mailed and not opened: <<flow, user>>
    cookie,     \* the browser's session cookie
    device,     \* the user the browser's trusted-device cookie is good for
    req,        \* the requests in flight
    codes,      \* the authorization codes issued
    used,       \* authorization requests that were made
    ended,      \* history: flows that were deleted
    crowded,    \* history: flows that two requests had loaded at once
    raced,      \* history: sessions ended while another request held a copy
    rushed,     \* history: users two of whose sign-ins opened a session at once
    earned,     \* history: <<session, user>> whose second factor passed
    approved,   \* history: flows whose consent was given
    guesses,    \* history: wrong second-factor codes checked for a flow
    lingering,  \* history: flows whose deletion failed unnoticed, or that had a
                \* wrong second-factor code whose count was not saved
    halfway,    \* history: sessions whose opening or whose end stopped half-way
    unaware,    \* history: <<flow, user>> under way when a change was forced
    disturbances \* what went wrong or came between so far: requests that overlap
                \* another or are not a step towards a code (a touch, a cancel,
                \* the end of a session), failures, passwords that expire or
                \* must be changed

stored == <<flows, sess, rows, tracked, acct, consents, links>>
slips == <<lingering, halfway, unaware>>
past == <<ended, crowded, raced, rushed, earned, approved, guesses, slips>>
history == <<past, disturbances>>
vars == <<stored, cookie, device, req, codes, used, history>>

Sessions == 1..MaxSessions
AnswerStages == {"PasswordChange", "Profile", "Terms"}
FlowStage == AnswerStages \cup {"Authenticate", "Register", "VerifyEmail", "Mfa",
                                "Organization", "Consent", "Done"}
Methods == {"pwd", "otp", "passkey"}

\* What an account may owe: the answers of a flow, must_change_password among
\* them, and a password past its age.
Debts == AnswerStages \cup {"Expired"}

\* LoginFlow, without the request it carries (which its id stands for).
LoginFlowRecord ==
    [stage: FlowStage, sid: Sessions \cup {None}, user: Users \cup {None}, attempts: Nat,
     mfa: BOOLEAN, trusted: BOOLEAN, stepUp: BOOLEAN, remember: BOOLEAN, pending: BOOLEAN,
     org: BOOLEAN]

SsoSession == [user: Users, mfa: BOOLEAN, org: BOOLEAN]

Account == [status: {"absent", "pending", "active", "disabled"},
            failures: Nat, locked: BOOLEAN, owes: SUBSET Debts]

\* None is no record, and registration creates accounts without must_change.
ASSUME RecordsAssumption ==
    /\ None \notin LoginFlowRecord \cup SsoSession
    /\ Unregistered \subseteq Users /\ Orgs \in [Users -> Nat]
    /\ InitiallyOwes \in [Users -> SUBSET Debts]
    /\ \A u \in Unregistered : "PasswordChange" \notin InitiallyOwes[u]

Idle == [pc |-> "idle"]
Busy(r) == req[r].pc # "idle"

NewFlow == [stage |-> "Authenticate", sid |-> None, user |-> None, attempts |-> 0,
            mfa |-> FALSE, trusted |-> FALSE, stepUp |-> FALSE, remember |-> FALSE,
            pending |-> FALSE, org |-> FALSE]

Init ==
    /\ flows = [f \in Flows |-> None]
    /\ sess = [s \in Sessions |-> None]
    /\ rows = [s \in Sessions |-> "none"]
    /\ tracked = {}
    /\ acct = [u \in Users |->
                 [status |-> IF u \in Unregistered THEN "absent" ELSE "active",
                  failures |-> 0, locked |-> FALSE, owes |-> InitiallyOwes[u]]]
    /\ consents = {} /\ links = {} /\ cookie = None /\ device = None
    /\ req = [r \in Requests |-> Idle]
    /\ codes = {} /\ used = {}
    /\ ended = {} /\ crowded = {} /\ raced = {} /\ rushed = {}
    /\ earned = {} /\ approved = {}
    /\ guesses = [f \in Flows |-> 0]
    /\ lingering = {} /\ halfway = {} /\ unaware = {}
    /\ disturbances = 0

-----------------------------------------------------------------------------
(* What the steps share. *)

\* One request: what it does, where it is, the flow and the session it works
\* on as it read them, and the sign-in it is checking.
Request(op, pc, f, c) ==
    [op |-> op, pc |-> pc, f |-> f, c |-> c, sid |-> None, s |-> None, u |-> c.user,
     method |-> None, must |-> FALSE, stepUp |-> FALSE, trusted |-> FALSE]

Goto(r, pc) == req' = [req EXCEPT ![r].pc = pc]
Finished(r) == req' = [req EXCEPT ![r] = Idle]

\* The session the browser's cookie names, if it is live.
Current == IF cookie # None /\ sess[cookie] # None THEN cookie ELSE None
RecordOf(s) == IF s = None THEN None ELSE sess[s]

Holders(f) == {r \in Requests : Busy(r) /\ req[r].f = f /\ req[r].pc # "resume"}
SessionHolders(s) == {r \in Requests : Busy(r) /\ req[r].sid = s}

\* One more disturbance, within the bound.
Disturbed == disturbances < MaxDisturbances /\ disturbances' = disturbances + 1

Interruptions == {"touch", "cancel", "revoke", "disable"}

\* A request arrives.
Begin(r, q) ==
    /\ ~Busy(r)
    /\ disturbances' = disturbances
          + (IF q.op \in Interruptions \/ \E p \in Requests : Busy(p) THEN 1 ELSE 0)
    /\ disturbances' <= MaxDisturbances
    /\ req' = [req EXCEPT ![r] = q]

\* load, then check_csrf: every flow step starts by reading the record.
Load(r, f, q) ==
    /\ Begin(r, q)
    /\ crowded' = IF Holders(f) = {} THEN crowded ELSE crowded \cup {f}
    /\ UNCHANGED <<stored, cookie, device, codes, used, ended, raced, rushed, earned,
                   approved, guesses, slips>>

At(f, stages) == flows[f] # None /\ flows[f].stage \in stages

\* Sessions that are removed from Valkey and revoked in the database.
RacedBy(r, gone) ==
    raced \cup {s \in gone : SessionHolders(s) \ {r} # {}}

\* mfa_required.
MfaRequired(f, c) ==
    /\ ~c.mfa
    /\ \/ f \in AcrMfa
       \/ c.stepUp
       \/ ~c.trusted /\ c.user \in MfaUsers

\* Mutant: with prompt=consent, an earlier consent does.
ConsentPendingOrdinary(f, c) ==
    f \notin SkipConsent \ ForceConsent /\ c.user \notin consents

\* The consent advance finds missing.
ConsentPending(f, c) ==
    /\ f \notin SkipConsent \ ForceConsent
    /\ IF f \in ForceConsent /\ ~c.pending /\ c.stage # "Consent"
       THEN TRUE ELSE c.user \notin consents

\* organization_pending: a session that already acts in an organization settles
\* it, and so does a single membership, or the one the request names.
OrgSettled(f, c) ==
    \/ c.org
    \/ sess[c.sid] # None /\ sess[c.sid].org
    \/ Orgs[c.user] = 1
    \/ Orgs[c.user] > 1 /\ f \in NamesOrg
OrgPending(f, c) == ~OrgSettled(f, c) /\ Orgs[c.user] > 1

\* The first stage that is owed, in the order advance asks.
StageDue(f, c, must) ==
    IF must THEN "PasswordChange"
    ELSE IF MfaRequired(f, c) THEN "Mfa"
    ELSE IF "Profile" \in acct[c.user].owes THEN "Profile"
    ELSE IF "Terms" \in acct[c.user].owes THEN "Terms"
    ELSE IF OrgPending(f, c) THEN "Organization"
    ELSE IF ConsentPending(f, c) /\ c.stage # "Done" THEN "Consent"
    ELSE "Done"

\* advance: the record at the stage that is due.
Advance(f, c, must) ==
    LET stage == StageDue(f, c, must)
    IN  IF c.sid = None \/ c.user = None
        THEN [c EXCEPT !.stage = "Authenticate"]
        ELSE [c EXCEPT !.stage = stage,
                       !.pending = IF stage \in {"Consent", "Done"}
                                   THEN stage = "Consent" ELSE @,
                       !.org = IF stage \in {"Organization", "Consent", "Done"}
                               THEN OrgSettled(f, c) ELSE @]

\* advance has an organization to record on a session that acts in none.
BindingDue(f, c, must) ==
    /\ c.sid # None /\ c.user # None
    /\ StageDue(f, c, must) \in {"Organization", "Consent", "Done"}
    /\ OrgSettled(f, c) /\ ~c.org
    /\ sess[c.sid] # None /\ ~sess[c.sid].org

-----------------------------------------------------------------------------
(* /authorize. *)

\* sessions::from_request, the first read of decide.
Authorize(r, f) ==
    /\ f \notin used
    /\ used' = used \cup {f}
    /\ Begin(r, [Request("authorize", "decide", f, NewFlow) EXCEPT
                   !.sid = Current, !.s = RecordOf(Current)])
    /\ UNCHANGED <<stored, cookie, device, codes, past>>

\* Mutant: a live session is not asked for the forced password change.
UnfinishedStageNoPassword(s, risk) ==
    IF acct[s.user].status \notin {"active", "pending"} THEN "Authenticate"
    ELSE IF risk = "block" THEN "Blocked"
    ELSE IF \/ risk = "step_up" /\ ~s.mfa
            \/ ~s.mfa /\ s.user \in MfaUsers /\ device # s.user
         THEN "Mfa"
    ELSE "Nothing"

\* unfinished_stage: what a live session owes, from the account as it is now.
UnfinishedStage(s, risk) ==
    IF acct[s.user].status \notin {"active", "pending"} THEN "Authenticate"
    ELSE IF "PasswordChange" \in acct[s.user].owes THEN "PasswordChange"
    ELSE IF risk = "block" THEN "Blocked"
    ELSE IF \/ risk = "step_up" /\ ~s.mfa
            \/ ~s.mfa /\ s.user \in MfaUsers /\ device # s.user
         THEN "Mfa"
    ELSE "Nothing"

\* issue_code: the code says of the session what the request read of it.
Issue(q, waived, stepUp) ==
    codes' = codes \cup {[f |-> q.f, sid |-> q.sid, user |-> q.s.user,
                          waived |-> waived, stepUp |-> stepUp,
                          left |-> acct[q.s.user].owes]}

Decide(r) ==
    LET q == req[r]
        s == q.s
        Open(c) == /\ flows' = [flows EXCEPT ![q.f] = c]
                   /\ UNCHANGED codes
        resumed == [NewFlow EXCEPT !.sid = q.sid, !.user = s.user, !.org = s.org]
    IN  /\ q.pc = "decide"
        /\ \E risk \in RiskOf[q.f], prompt \in {"", "login", "create"} :
             LET forced == prompt # ""
                 owed == IF s = None \/ forced THEN "Nothing" ELSE UnfinishedStage(s, risk)
             IN  \/ /\ s = None \/ forced \/ owed = "Authenticate"
                    /\ Open([NewFlow EXCEPT !.stage =
                                IF prompt = "create" THEN "Register" ELSE "Authenticate"])
                 \/ /\ s # None /\ ~forced /\ owed = "Blocked"
                    /\ UNCHANGED <<flows, codes>>
                 \/ /\ s # None /\ ~forced
                    /\ \/ owed \in {"PasswordChange", "Mfa"}
                       \/ owed = "Nothing" /\ q.f \in AcrMfa /\ ~s.mfa
                    /\ LET stage == IF owed = "Nothing" THEN "Mfa" ELSE owed
                       IN  Open([resumed EXCEPT !.stage = stage, !.mfa = s.mfa,
                                                !.stepUp = (stage = "Mfa")])
                 \/ /\ s # None /\ ~forced /\ owed = "Nothing"
                    /\ q.f \in AcrMfa => s.mfa
                    /\ IF \/ q.f \in ForceConsent
                          \/ q.f \notin SkipConsent /\ s.user \notin consents
                       THEN Open([resumed EXCEPT !.stage = "Consent", !.pending = TRUE])
                       ELSE /\ Issue(q, device = s.user, risk = "step_up")
                            /\ UNCHANGED flows
        /\ Finished(r)
        /\ UNCHANGED <<sess, rows, tracked, acct, consents, links, cookie, device, used, history>>

-----------------------------------------------------------------------------
(* The first factor. *)

\* password, passkey/finish and the passwordless verify routes: the flow, and
\* the session the browser already has.
StartFirstFactor(r, f, u, m) ==
    /\ At(f, {"Authenticate"}) /\ flows[f].attempts < MaxTries
    /\ Load(r, f, [Request("first", "check", f, flows[f]) EXCEPT
                     !.u = u, !.method = m, !.sid = Current, !.s = RecordOf(Current)])

\* assess, after the credentials were right: a blocked sign-in is refused,
\* which discards the flow before anything is written.
Verdict(q, risk, must) ==
    [q EXCEPT !.pc = IF risk = "block" THEN "delete" ELSE "record",
              !.must = must, !.stepUp = (risk = "step_up"),
              !.trusted = (q.op = "first" /\ device = q.u)]

Assessed(r, must) ==
    \E risk \in RiskOf[req[r].f] : req' = [req EXCEPT ![r] = Verdict(req[r], risk, must)]

\* password_step up to its verdict.
CheckPassword(r) ==
    LET q == req[r]
        a == acct[q.u]
        closed == a.status \in {"absent", "disabled"} \/ a.locked
    IN  /\ q.pc = "check" /\ q.method = "pwd"
        /\ \/ closed /\ Goto(r, "attempts")
           \/ ~closed /\ Goto(r, "reject")
           \/ ~closed /\ Assessed(r, a.owes \cap {"PasswordChange", "Expired"} # {})
        /\ UNCHANGED <<stored, cookie, device, codes, used, history>>

\* passkey_finish and passwordless_verify_step up to complete_authentication.
CheckCode(r) ==
    LET q == req[r]
        open == acct[q.u].status \in {"active", "pending"}
    IN  /\ q.pc = "check" /\ q.method # "pwd"
        /\ \/ Goto(r, "attempts")
           \/ ~open /\ Finished(r)
           \/ open /\ Assessed(r, "PasswordChange" \in acct[q.u].owes)
        /\ UNCHANGED <<stored, cookie, device, codes, used, history>>

\* record_login_failure: one UPDATE that counts and locks.
CountFailure(u) ==
    LET n == IF acct[u].failures >= MaxFailures THEN MaxFailures
             ELSE acct[u].failures + 1
    IN  acct' = [acct EXCEPT ![u].failures = n, ![u].locked = @ \/ n >= MaxFailures]

RecordFailure(r) ==
    LET u == req[r].u
    IN  /\ req[r].pc = "reject"
        /\ CountFailure(u)
        /\ Goto(r, "attempts")
        /\ UNCHANGED <<flows, sess, rows, tracked, consents, links, cookie, device, codes, used,
                       history>>

\* The flow's own counter, saved with the copy the step loaded.
SaveAttempts(r) ==
    LET q == req[r]
    IN  /\ q.pc = "attempts"
        /\ flows' = [flows EXCEPT ![q.f] = [q.c EXCEPT !.attempts = @ + 1]]
        /\ Finished(r)
        /\ UNCHANGED <<sess, rows, tracked, acct, consents, links, cookie, device, codes, used,
                       history>>

\* record_login_success clears the counter and the lock.
RecordSuccess(r) ==
    LET u == req[r].u
    IN  /\ req[r].pc = "record"
        /\ acct' = [acct EXCEPT ![u].failures = 0, ![u].locked = FALSE]
        /\ Goto(r, "open")
        /\ UNCHANGED <<flows, sess, rows, tracked, consents, links, cookie, device, codes, used,
                       history>>

\* What open_session records on the flow.
SignedIn(q, sid) ==
    [q EXCEPT !.pc = "save", !.sid = sid,
              !.c = [@ EXCEPT !.sid = sid, !.user = q.u, !.mfa = (q.method = "passkey"),
                              !.trusted = q.trusted, !.stepUp = q.stepUp,
                              !.remember = q.op = "first" /\ q.f \in Remember
                                           /\ ~q.trusted]]

Earn(q, sid) == earned' = IF q.method = "passkey" THEN earned \cup {<<sid, q.u>>} ELSE earned

\* Mutant: the browser's session is reused whoever signs in.
ReusesAnySession(q) == q.s # None

\* open_session on the session the browser has: refresh_auth, when it is the
\* same user's.
ReusesSession(q) == q.s # None /\ q.s.user = q.u

ReauthSession(r) ==
    LET q == req[r]
    IN  /\ q.pc = "open" /\ ReusesSession(q)
        /\ sess' = [sess EXCEPT ![q.sid] = [q.s EXCEPT !.mfa = (q.method = "passkey")]]
        /\ Earn(q, q.sid)
        /\ req' = [req EXCEPT ![r] = SignedIn(q, q.sid)]
        /\ UNCHANGED <<flows, rows, tracked, acct, consents, links, cookie, device, codes, used,
                       ended, crowded, raced, rushed, approved, guesses, slips, disturbances>>

\* list_live_for_user.
LiveOf(u) == {s \in tracked : sess[s] # None /\ sess[s].user = u}

\* Mutant: the session about to be opened is not counted.
ExcessTooLate(u) ==
    {s \in LiveOf(u) : Cardinality({t \in LiveOf(u) : t >= s}) > MaxConcurrent}

\* The oldest sessions that sessions::create ends so that one more fits.
Excess(u) ==
    IF MaxConcurrent = 0 THEN {}
    ELSE {s \in LiveOf(u) :
            Cardinality({t \in LiveOf(u) : t >= s}) + 1 > MaxConcurrent}

\* Mutant: only the database hears of it.
EndAllRowsOnly(r, gone) ==
    /\ rows' = [s \in Sessions |-> IF s \in gone THEN "revoked" ELSE rows[s]]
    /\ tracked' = tracked \ gone
    /\ UNCHANGED <<sess, raced>>

\* end_session for a set of sessions: the keys, the rows and the user's set.
EndAll(r, gone) ==
    /\ sess' = [s \in Sessions |-> IF s \in gone THEN None ELSE sess[s]]
    /\ rows' = [s \in Sessions |-> IF s \in gone THEN "revoked" ELSE rows[s]]
    /\ tracked' = tracked \ gone
    /\ raced' = RacedBy(r, gone)

EvictOldest(r) ==
    LET q == req[r]
        opening == {p \in Requests \ {r} : req[p].pc = "create" /\ req[p].u = q.u}
    IN  /\ q.pc = "open" /\ ~ReusesSession(q)
        /\ EndAll(r, Excess(q.u))
        /\ rushed' = IF opening = {} THEN rushed ELSE rushed \cup {q.u}
        /\ req' = [req EXCEPT ![r] = [@ EXCEPT !.pc = "create", !.sid = None, !.s = None]]
        /\ UNCHANGED <<flows, acct, consents, links, cookie, device, codes, used, ended, crowded,
                       earned, approved, guesses, slips, disturbances>>

\* The rest of sessions::create, under a new id: the row, the key, the user's
\* set.  The row, or the row and the key, may be all that is written.
CreateSession(r) ==
    LET q == req[r]
        sid == Cardinality({s \in Sessions : rows[s] # "none"}) + 1
        opened == [sess EXCEPT ![sid] = [user |-> q.u, mfa |-> q.method = "passkey",
                                         org |-> FALSE]]
    IN  /\ q.pc = "create" /\ sid \in Sessions
        /\ rows' = [rows EXCEPT ![sid] = "live"]
        /\ Earn(q, sid)
        /\ \/ /\ sess' = opened
              /\ tracked' = tracked \cup {sid}
              /\ req' = [req EXCEPT ![r] = SignedIn(q, sid)]
              /\ UNCHANGED <<halfway, disturbances>>
           \/ /\ Disturbed
              /\ sess' \in {sess, opened}
              /\ halfway' = halfway \cup {sid}
              /\ Finished(r) /\ UNCHANGED tracked
        /\ UNCHANGED <<flows, acct, consents, links, cookie, device, codes, used, ended, crowded,
                       raced, rushed, approved, guesses, lingering, unaware>>

\* bind_organization inside advance: the session is read, then stored with
\* what advance found.
BindOnTheWay(r) ==
    LET q == req[r]
    IN  /\ q.pc = "save" /\ BindingDue(q.f, q.c, q.must)
        /\ req' = [req EXCEPT ![r] = [q EXCEPT !.pc = "bind", !.sid = q.c.sid,
                                               !.s = sess[q.c.sid]]]
        /\ UNCHANGED <<stored, cookie, device, codes, used, history>>

StoreBinding(r) ==
    LET q == req[r]
    IN  /\ q.pc = "bind"
        /\ sess' = [sess EXCEPT ![q.sid] = [q.s EXCEPT !.org = TRUE]]
        /\ req' = [req EXCEPT ![r] = [q EXCEPT !.pc = "save", !.c.org = TRUE]]
        /\ UNCHANGED <<flows, rows, tracked, acct, consents, links, cookie, device, codes, used,
                       history>>

\* The end of every step that moves the flow on: advance, save, and for a first
\* factor the session cookie in the response.
SaveFlow(r) ==
    LET q == req[r]
    IN  /\ q.pc = "save" /\ ~BindingDue(q.f, q.c, q.must)
        /\ flows' = [flows EXCEPT ![q.f] = Advance(q.f, q.c, q.must)]
        /\ cookie' = IF q.op \in {"first", "signup"} THEN q.sid ELSE cookie
        /\ Finished(r)
        /\ UNCHANGED <<sess, rows, tracked, acct, consents, links, device, codes, used, history>>

\* login_flows::delete.
Deletes(f) ==
    /\ flows' = [flows EXCEPT ![f] = None]
    /\ ended' = ended \cup {f}
    /\ UNCHANGED <<lingering, disturbances>>

\* Its failure, where it is only logged: the answer says the flow is over.
FailsToDelete(f) ==
    /\ Disturbed
    /\ ended' = ended \cup {f}
    /\ lingering' = lingering \cup {f}
    /\ UNCHANGED flows

\* The end of cancel, a denied consent and a refusal.
DeleteFlow(r) ==
    LET q == req[r]
    IN  /\ q.pc = "delete"
        /\ Deletes(q.f) \/ (q.op = "consent" /\ FailsToDelete(q.f))
        /\ Finished(r)
        /\ UNCHANGED <<sess, rows, tracked, acct, consents, links, cookie, device, codes, used,
                       crowded, raced, rushed, earned, approved, guesses, halfway, unaware>>

-----------------------------------------------------------------------------
(* Registration: neither the browser's session nor its device is looked at. *)

StartRegister(r, f, u) ==
    /\ At(f, {"Authenticate", "Register"})
    /\ Load(r, f, [Request("signup", "register", f, flows[f]) EXCEPT
                     !.u = u, !.method = "pwd"])

\* registration::register and what register_step makes of it: the account waits
\* for its verification link, or the sign-in completes.
RegisterUser(r) ==
    LET u == req[r].u
    IN  /\ req[r].pc = "register"
        /\ \/ /\ acct[u].status # "absent"
              /\ Finished(r) /\ UNCHANGED <<acct, links>>
           \/ /\ acct[u].status = "absent"
              /\ acct' = [acct EXCEPT ![u].status = "active"]
              /\ Assessed(r, FALSE) /\ UNCHANGED links
           \/ /\ acct[u].status = "absent"
              /\ acct' = [acct EXCEPT ![u].status = "pending"]
              /\ links' = links \cup {<<req[r].f, u>>}
              /\ Goto(r, "pending")
        /\ UNCHANGED <<flows, sess, rows, tracked, consents, cookie, device, codes, used,
                       history>>

SavePending(r) ==
    LET q == req[r]
    IN  /\ q.pc = "pending"
        /\ flows' = [flows EXCEPT ![q.f] = [q.c EXCEPT !.user = q.u,
                                                      !.stage = "VerifyEmail"]]
        /\ Finished(r)
        /\ UNCHANGED <<sess, rows, tracked, acct, consents, links, cookie, device, codes, used,
                       history>>

\* registration::confirm: the link is taken once (GETDEL) and a pending account
\* becomes active.
ConfirmEmail(r, f, u) ==
    /\ <<f, u>> \in links
    /\ links' = links \ {<<f, u>>}
    /\ acct' = [acct EXCEPT ![u].status = IF @ = "pending" THEN "active" ELSE @]
    /\ Begin(r, [Request("signup", "resume", f, NewFlow) EXCEPT !.u = u, !.method = "otp"])
    /\ UNCHANGED <<flows, sess, rows, tracked, consents, cookie, device, codes, used, past>>

\* resume_after_verification: the flow that waits for this user signs them in.
ResumeAfterVerification(r) ==
    LET q == req[r]
        waiting == At(q.f, {"VerifyEmail"}) /\ flows[q.f].user = q.u
    IN  /\ q.pc = "resume"
        /\ \/ ~waiting /\ Finished(r) /\ UNCHANGED crowded
           \/ /\ waiting
              /\ \E risk \in RiskOf[q.f] :
                   req' = [req EXCEPT ![r] = [Verdict(q, risk, FALSE) EXCEPT !.c = flows[q.f]]]
              /\ crowded' = IF Holders(q.f) = {} THEN crowded ELSE crowded \cup {q.f}
        /\ UNCHANGED <<stored, cookie, device, codes, used, ended, raced, rushed, earned,
                       approved, guesses, slips, disturbances>>

-----------------------------------------------------------------------------
(* The second factor. *)

StartMfa(r, f) ==
    /\ At(f, {"Mfa"})
    /\ Load(r, f, Request("mfa", "factor", f, flows[f]))

\* mfa_user, then the check of the code or the assertion.
CheckFactor(r) ==
    LET q == req[r]
        open == acct[q.u].status \in {"active", "pending"}
    IN  /\ q.pc = "factor"
        /\ \/ ~open /\ Finished(r) /\ UNCHANGED guesses
           \/ open /\ Goto(r, "get") /\ UNCHANGED guesses
           \/ /\ open /\ Goto(r, "mfaReject")
              /\ guesses' = [guesses EXCEPT ![q.f] = @ + 1]
        /\ UNCHANGED <<stored, cookie, device, codes, used, ended, crowded, raced, rushed,
                       earned, approved, slips, disturbances>>

\* Mutant: one attempt too many.
LastAttemptOffByOne(c) == c.attempts + 1 > MaxAttempts

LastAttempt(c) == c.attempts + 1 >= MaxAttempts

\* mfa_reject: the flow is discarded at the last attempt.
MfaReject(r) ==
    LET q == req[r]
        last == LastAttempt(q.c)
    IN  /\ q.pc = "mfaReject"
        /\ flows' = [flows EXCEPT ![q.f] = IF last THEN None
                                           ELSE [q.c EXCEPT !.attempts = @ + 1]]
        /\ ended' = IF last THEN ended \cup {q.f} ELSE ended
        /\ Finished(r)
        /\ UNCHANGED <<sess, rows, tracked, acct, consents, links, cookie, device, codes, used,
                       crowded, raced, rushed, earned, approved, guesses, slips, disturbances>>

\* sessions::get of the flow's session, in pass_second_factor and
\* bind_organization.  Without it a second factor is refused, and an
\* organization is recorded on the flow alone.
GetSession(r) ==
    LET q == req[r]
        s == sess[q.c.sid]
        found == s # None /\ (q.op = "mfa" => s.user = q.u)
    IN  /\ q.pc = "get"
        /\ \/ /\ found
              /\ req' = [req EXCEPT ![r] = [q EXCEPT !.pc = "store", !.sid = q.c.sid, !.s = s]]
           \/ /\ ~found /\ q.op = "mfa"
              /\ Finished(r)
           \/ /\ ~found /\ q.op = "organization"
              /\ req' = [req EXCEPT ![r] = [q EXCEPT !.pc = "save", !.c.org = TRUE]]
        /\ UNCHANGED <<stored, cookie, device, codes, used, history>>

\* sessions::store: the whole record, as it was read, with what the step adds
\* (refresh_auth, bind_organization, bind_device, or the idle window of get).
StoreSession(r) ==
    LET q == req[r]
        Write(s) == sess' = [sess EXCEPT ![q.sid] = s]
    IN  /\ q.pc = "store"
        /\ \/ /\ q.op = "mfa"
              /\ Write([q.s EXCEPT !.mfa = TRUE])
              /\ earned' = earned \cup {<<q.sid, q.u>>}
              /\ req' = [req EXCEPT ![r] = [q EXCEPT !.pc = "save",
                            !.c = [@ EXCEPT !.mfa = TRUE, !.attempts = 0,
                                            !.remember = (q.c.remember \/ q.f \in Remember)
                                                         /\ ~q.c.trusted]]]
              /\ UNCHANGED device
           \/ /\ q.op = "organization"
              /\ Write([q.s EXCEPT !.org = TRUE])
              /\ req' = [req EXCEPT ![r] = [q EXCEPT !.pc = "save", !.c.org = TRUE]]
              /\ UNCHANGED <<device, earned, disturbances>>
           \/ /\ q.op = "finish"
              /\ Write(q.s) /\ device' = q.s.user
              /\ Goto(r, "finish") /\ UNCHANGED earned
           \/ /\ q.op = "touch"
              /\ Write(q.s) /\ Finished(r)
              /\ UNCHANGED <<device, earned, disturbances>>
        /\ UNCHANGED <<flows, rows, tracked, acct, consents, links, cookie, codes, used, ended,
                       crowded, raced, rushed, approved, guesses, slips, disturbances>>

\* sessions::get by any other request of the browser: it slides the idle window
\* and stores what it read.
Touch(r) ==
    /\ Current # None
    /\ Begin(r, [Request("touch", "store", None, NewFlow) EXCEPT
                   !.sid = Current, !.s = RecordOf(Current)])
    /\ UNCHANGED <<stored, cookie, device, codes, used, past>>

-----------------------------------------------------------------------------
(* The other steps. *)

\* password-change, profile and terms: each writes the account's row.
StartAnswer(r, f) ==
    /\ At(f, AnswerStages)
    /\ Load(r, f, Request("answer", "answer", f, flows[f]))

WriteAnswer(r) ==
    LET q == req[r]
    IN  /\ q.pc = "answer"
        /\ acct' = [acct EXCEPT ![q.u].owes =
              @ \ (IF q.c.stage = "PasswordChange" THEN {"PasswordChange", "Expired"}
                   ELSE {q.c.stage})]
        /\ Goto(r, "save")
        /\ UNCHANGED <<flows, sess, rows, tracked, consents, links, cookie, device, codes, used,
                       history>>

StartOrganization(r, f) ==
    /\ At(f, {"Organization"})
    /\ Load(r, f, Request("organization", "get", f, flows[f]))

\* consent: approve, or deny and delete.
StartConsent(r, f) ==
    /\ At(f, {"Consent"})
    /\ \E pc \in {"consent", "delete"} : Load(r, f, Request("consent", pc, f, flows[f]))

GrantConsent(r) ==
    LET q == req[r]
    IN  /\ q.pc = "consent"
        /\ consents' = consents \cup {q.u}
        /\ approved' = approved \cup {q.f}
        /\ req' = [req EXCEPT ![r] = [q EXCEPT !.pc = "save",
                        !.c = [@ EXCEPT !.stage = "Done", !.pending = FALSE]]]
        /\ UNCHANGED <<flows, sess, rows, tracked, acct, links, cookie, device, codes, used,
                       ended, crowded, raced, rushed, earned, guesses, slips, disturbances>>

StartCancel(r, f) ==
    /\ flows[f] # None
    /\ Load(r, f, Request("cancel", "delete", f, flows[f]))

\* finish: the flow is Done and the browser holds its session.
StartFinish(r, f) ==
    /\ At(f, {"Done"})
    /\ Current # None /\ Current = flows[f].sid /\ sess[Current].user = flows[f].user
    /\ Load(r, f, [Request("finish",
                           IF flows[f].remember /\ ~flows[f].trusted
                           THEN "store" ELSE "finish", f, flows[f]) EXCEPT
                     !.sid = Current, !.s = RecordOf(Current)])

FinishFlow(r) ==
    LET q == req[r]
    IN  /\ q.pc = "finish"
        /\ Deletes(q.f) \/ FailsToDelete(q.f)
        /\ Issue(q, q.c.trusted, q.c.stepUp)
        /\ Finished(r)
        /\ UNCHANGED <<sess, rows, tracked, acct, consents, links, cookie, device, used, crowded,
                       raced, rushed, earned, approved, guesses, halfway, unaware>>

-----------------------------------------------------------------------------
(* Ending sessions, from outside the flow. *)

\* sessions::revoke, of a session somebody names: GETDEL first.
Revoke(r, s) ==
    /\ rows[s] = "live"
    /\ sess' = [sess EXCEPT ![s] = None]
    /\ raced' = RacedBy(r, {s})
    /\ Begin(r, [Request("revoke", "mark", None, NewFlow) EXCEPT !.sid = s, !.s = sess[s]])
    /\ UNCHANGED <<flows, rows, tracked, acct, consents, links, cookie, device, codes, used, ended,
                   crowded, rushed, earned, approved, guesses, slips>>

\* ... then the row, and the user's set when the key was there.
MarkRevoked(r) ==
    LET q == req[r]
    IN  /\ q.pc = "mark"
        /\ rows' = [rows EXCEPT ![q.sid] = "revoked"]
        /\ tracked' = IF q.s = None THEN tracked ELSE tracked \ {q.sid}
        /\ Finished(r)
        /\ UNCHANGED <<flows, sess, acct, consents, links, cookie, device, codes, used, history>>

\* users::update to disabled; then end_sessions_for_user.
Disable(r, u) ==
    /\ acct[u].status \in {"active", "pending"}
    /\ acct' = [acct EXCEPT ![u].status = "disabled"]
    /\ Begin(r, [Request("disable", "endAll", None, NewFlow) EXCEPT !.u = u])
    /\ UNCHANGED <<flows, sess, rows, tracked, consents, links, cookie, device, codes, used, past>>

EndSessionsForUser(r) ==
    /\ req[r].pc = "endAll"
    /\ EndAll(r, LiveOf(req[r].u))
    /\ Finished(r)
    /\ UNCHANGED <<flows, acct, consents, links, cookie, device, codes, used, ended, crowded,
                   rushed, earned, approved, guesses, slips, disturbances>>

-----------------------------------------------------------------------------
(* What comes between. *)

\* locked_until passes; failed_attempts stays.
LockExpires(u) ==
    /\ acct[u].locked
    /\ acct' = [acct EXCEPT ![u].locked = FALSE]
    /\ UNCHANGED <<flows, sess, rows, tracked, consents, links, cookie, device, req, codes, used,
                   history>>

\* The password passes its age; nothing is written.
PasswordExpires(u) ==
    /\ acct[u].status # "absent" /\ "Expired" \notin acct[u].owes
    /\ Disturbed
    /\ acct' = [acct EXCEPT ![u].owes = @ \cup {"Expired"}]
    /\ UNCHANGED <<flows, sess, rows, tracked, consents, links, cookie, device, req, codes, used,
                   past>>

\* The flows that have already asked whether this user must change the password.
Underway(u) ==
    {f \in Flows : \/ flows[f] # None /\ flows[f].user = u
                   \/ \E r \in Requests : /\ Busy(r) /\ req[r].pc # "check"
                                           /\ req[r].f = f /\ req[r].u = u}

\* force_password_change: an administrator flags the account.
ForcePasswordChange(u) ==
    /\ acct[u].status # "absent" /\ "PasswordChange" \notin acct[u].owes
    /\ Disturbed
    /\ acct' = [acct EXCEPT ![u].owes = @ \cup {"PasswordChange"}]
    /\ unaware' = unaware \cup (Underway(u) \X {u})
    /\ UNCHANGED <<flows, sess, rows, tracked, consents, links, cookie, device, req, codes, used,
                   ended, crowded, raced, rushed, earned, approved, guesses, lingering, halfway>>

\* A call to the database or to Valkey fails, or the node stops: the request
\* ends where it is and what it has written stays.
Fail(r) ==
    LET q == req[r]
    IN  /\ Busy(r)
        /\ Disturbed
        /\ Finished(r)
        /\ lingering' = IF q.pc = "mfaReject" THEN lingering \cup {q.f} ELSE lingering
        /\ halfway' = IF q.pc = "mark" THEN halfway \cup {q.sid} ELSE halfway
        /\ UNCHANGED <<stored, cookie, device, codes, used, ended, crowded, raced, rushed, earned,
                       approved, guesses, unaware>>

Next ==
    \/ \E r \in Requests, f \in Flows :
          \/ Authorize(r, f) \/ StartMfa(r, f) \/ StartAnswer(r, f)
          \/ StartOrganization(r, f) \/ StartConsent(r, f) \/ StartCancel(r, f)
          \/ StartFinish(r, f)
          \/ \E u \in Users : \/ StartRegister(r, f, u) \/ ConfirmEmail(r, f, u)
                              \/ \E m \in Methods : StartFirstFactor(r, f, u, m)
    \/ \E r \in Requests :
          \/ CheckPassword(r) \/ CheckCode(r) \/ RecordFailure(r) \/ SaveAttempts(r)
          \/ RecordSuccess(r) \/ ReauthSession(r) \/ EvictOldest(r) \/ CreateSession(r)
          \/ BindOnTheWay(r) \/ StoreBinding(r) \/ SaveFlow(r) \/ DeleteFlow(r)
          \/ RegisterUser(r) \/ SavePending(r)
          \/ ResumeAfterVerification(r) \/ CheckFactor(r) \/ MfaReject(r) \/ GetSession(r)
          \/ StoreSession(r) \/ Touch(r) \/ WriteAnswer(r) \/ GrantConsent(r)
          \/ FinishFlow(r) \/ MarkRevoked(r) \/ EndSessionsForUser(r) \/ Decide(r) \/ Fail(r)
          \/ \E s \in Sessions : Revoke(r, s)
          \/ \E u \in Users : Disable(r, u)
    \/ \E u \in Users : LockExpires(u) \/ PasswordExpires(u) \/ ForcePasswordChange(u)

Spec == Init /\ [][Next]_vars

-----------------------------------------------------------------------------
(* Properties. *)

\* A request under way: the operation, its next step and what it has read.
RequestRecord ==
    [op: {"authorize", "first", "signup", "mfa", "answer", "organization", "consent", "cancel",
          "finish", "touch", "revoke", "disable"},
     pc: {"decide", "check", "reject", "attempts", "record", "open", "create", "bind", "save",
          "delete", "register", "pending", "resume", "factor", "mfaReject", "get", "store",
          "answer", "consent", "finish", "mark", "endAll"},
     f: Flows \cup {None}, c: LoginFlowRecord, sid: Sessions \cup {None},
     s: SsoSession \cup {None}, u: Users \cup {None}, method: Methods \cup {None},
     must: BOOLEAN, stepUp: BOOLEAN, trusted: BOOLEAN]

CodeRecord ==
    [f: Flows, sid: Sessions, user: Users, waived: BOOLEAN, stepUp: BOOLEAN,
     left: SUBSET Debts]

\* The records, the accounts, the requests and the histories have their types.
TypeOK ==
    /\ flows \in [Flows -> LoginFlowRecord \cup {None}]
    /\ sess \in [Sessions -> SsoSession \cup {None}]
    /\ rows \in [Sessions -> {"none", "live", "revoked"}]
    /\ tracked \subseteq Sessions
    /\ acct \in [Users -> Account]
    /\ consents \subseteq Users /\ links \subseteq Flows \X Users
    /\ cookie \in Sessions \cup {None} /\ device \in Users \cup {None}
    /\ req \in [Requests -> RequestRecord \cup {Idle}]
    /\ codes \subseteq CodeRecord
    /\ used \subseteq Flows /\ ended \subseteq Flows /\ crowded \subseteq Flows
    /\ approved \subseteq Flows /\ raced \subseteq Sessions /\ rushed \subseteq Users
    /\ earned \subseteq Sessions \X Users /\ guesses \in [Flows -> Nat]
    /\ lingering \subseteq Flows /\ halfway \subseteq Sessions
    /\ unaware \subseteq Flows \X Users

\* A session says "mfa" only if its own user passed a second factor on it.
MfaIsEarned ==
    \A s \in Sessions : sess[s] # None /\ sess[s].mfa => <<s, sess[s].user>> \in earned

\* No code is issued before the password change an administrator forced, unless
\* it was forced while the flow was under way, nor before the second factor
\* that the client's acr_values, the risk policy or the tenant's policy asks for
\* (which a trusted device waives), whichever flow the browser left and wherever
\* it came back (flows.rs unfinished_stage, advance).  An expired password is
\* not in it: password_step alone asks for that one, and a browser that leaves
\* the flow there is not asked again.
GrantOwesNothing ==
    \A c \in codes :
        /\ "PasswordChange" \in c.left => <<c.f, c.user>> \in unaware
        /\ \/ c.f \in AcrMfa \/ c.stepUp
           \/ c.user \in MfaUsers /\ ~c.waived
           => <<c.sid, c.user>> \in earned

\* No code is issued before the user gave the consent it needs; with
\* prompt=consent, gave it in this flow, whatever was consented to before.
ConsentBeforeGrant ==
    \A c \in codes : IF c.f \in ForceConsent THEN c.f \in approved
                     ELSE c.f \in SkipConsent \/ c.user \in consents

\* A flow that was cancelled, denied, refused, discarded or finished does not
\* come back, and takes no more wrong second-factor codes than MFA_MAX_ATTEMPTS,
\* unless two requests held copies of its record at once, the deletion of a
\* denied or finished flow failed (which is logged and the answer given all the
\* same), or the count of a wrong code could not be saved.
EndedFlowStaysEnded ==
    \A f \in Flows \ (crowded \cup lingering) :
        /\ f \in ended => flows[f] = None
        /\ guesses[f] <= MaxAttempts

\* A session that was ended is gone from Valkey for good, unless a request that
\* had read it before was still under way (sessions::store writes it back).
RevokedStaysGone ==
    \A s \in Sessions \ raced : rows[s] = "revoked" => sess[s] = None

\* max_concurrent holds whenever a sign-in is complete, unless two sign-ins of
\* the user counted at once or an ended session was written back.  A session
\* that was stored and never listed, as the sign-in failed in between, is not
\* counted by the code, nor here; nor one whose end failed half-way.
CapHolds ==
    MaxConcurrent > 0 =>
        \A u \in Users \ rushed :
            Cardinality({s \in Sessions \ (raced \cup halfway) :
                            sess[s] # None /\ sess[s].user = u}) <= MaxConcurrent
=============================================================================
