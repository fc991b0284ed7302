--------------------------- MODULE LoginFlowProofs ---------------------------
(* Machine-checked proofs about LoginFlow, for every set of users, flows,     *)
(* requests and sessions, every policy, and any number of disturbances.       *)
EXTENDS LoginFlow, FiniteSetTheorems, TLAPS

USE DEF stored, past, history, slips

-----------------------------------------------------------------------------
(* The shape of the records.                                                 *)

Early == {"Authenticate", "Register", "VerifyEmail"}

(* A flow has a session and a user once it is past the first factor; the     *)
(* scopes it waits for are those of the consent page it is at.               *)
Placed(c) ==
    /\ c.stage \in Early => c.sid = None /\ ~ c.mfa
    /\ c.stage \notin Early => c.sid \in Sessions /\ c.user \in Users
    /\ c.stage = "Mfa" => ~ c.mfa
    /\ c.pending => c.stage = "Consent"

(* The end of a step that moves the flow on.                                 *)
Last == {"bind", "save"}

(* What a request has in hand at each of its steps.                          *)
Shape(q) ==
    /\ q.s # None => q.sid \in Sessions
    /\ q.op = "authorize" => q.pc = "decide" /\ q.f \in Flows
    /\ q.op = "first" => q.pc \in {"check", "reject", "attempts", "record", "open", "create",
                                   "bind", "save", "delete"}
    /\ q.op = "signup" => q.pc \in {"register", "pending", "resume", "record", "open", "create",
                                    "bind", "save", "delete"}
    /\ q.op \in {"first", "signup"} =>
         /\ q.f \in Flows /\ q.u \in Users /\ q.method \in Methods
         /\ q.c.stage \in Early /\ ~ q.c.pending
         /\ q.pc \in Last => q.c.sid \in Sessions /\ q.c.user = q.u /\ q.sid = q.c.sid
         /\ q.pc \notin Last => q.c.sid = None /\ ~ q.c.mfa
    /\ q.op \in {"mfa", "answer", "organization", "consent", "finish"} =>
         q.f \in Flows /\ q.u \in Users /\ q.c.user = q.u /\ q.c.sid \in Sessions
    /\ q.op = "mfa" =>
         /\ q.pc \in {"factor", "mfaReject", "get", "store"} \cup Last
         /\ q.c.stage = "Mfa" /\ ~ q.c.pending
         /\ q.pc \notin Last => ~ q.c.mfa
         /\ q.pc = "store" => q.s.user = q.u
    /\ q.op = "answer" =>
         q.pc \in {"answer"} \cup Last /\ q.c.stage \in AnswerStages /\ ~ q.c.pending
    /\ q.op = "organization" =>
         q.pc \in {"get", "store"} \cup Last /\ q.c.stage = "Organization" /\ ~ q.c.pending
    /\ q.op = "consent" =>
         \/ q.pc \in {"consent", "delete"} /\ q.c.stage = "Consent"
         \/ q.pc \in Last /\ q.c.stage = "Done" /\ ~ q.c.pending
    /\ q.op = "cancel" => q.pc = "delete" /\ q.f \in Flows
    /\ q.op = "finish" =>
         /\ q.pc \in {"store", "finish"} /\ q.c.stage = "Done"
         /\ q.sid = q.c.sid /\ q.s \in SsoSession /\ q.s.user = q.u
    /\ q.op = "touch" => q.pc = "store" /\ q.f = None
    /\ q.op = "revoke" => q.pc = "mark" /\ q.f = None /\ q.sid \in Sessions
    /\ q.op = "disable" => q.pc = "endAll" /\ q.f = None /\ q.u \in Users
    /\ q.pc = "store" =>
         /\ q.s \in SsoSession /\ q.sid \in Sessions
         /\ q.op \in {"mfa", "organization"} => q.sid = q.c.sid
    /\ q.pc = "bind" => q.s \in SsoSession /\ q.sid \in Sessions /\ q.sid = q.c.sid

FlowsPlaced == \A f \in Flows : flows[f] # None => Placed(flows[f])
RequestsShaped == \A r \in Requests : Busy(r) => Shape(req[r])
ShapeInv == TypeOK /\ FlowsPlaced /\ RequestsShaped

Pcs == {"decide", "check", "reject", "attempts", "record", "open", "create", "bind", "save", "delete",
        "register", "pending", "resume", "factor", "mfaReject", "get", "store", "answer",
        "consent", "finish", "mark", "endAll"}

(* A request that is not idle is a record.                                   *)
LEMMA BusyRecord == ASSUME TypeOK, NEW r \in Requests, req[r].pc # "idle"
                    PROVE req[r] \in RequestRecord
BY DEF TypeOK, Idle

MovedTo(q, pc) == [q EXCEPT !.pc = pc]

(* A step of a request to its next step leaves the rest of it.               *)
LEMMA Moved == ASSUME NEW q \in RequestRecord, NEW pc \in Pcs
               PROVE LET n == MovedTo(q, pc)
                     IN  /\ n \in RequestRecord /\ n.pc = pc
                         /\ n.op = q.op /\ n.f = q.f /\ n.c = q.c /\ n.sid = q.sid
                         /\ n.s = q.s /\ n.u = q.u /\ n.method = q.method
                         /\ n.must = q.must /\ n.stepUp = q.stepUp /\ n.trusted = q.trusted
BY DEF RequestRecord, Pcs, MovedTo

(* What one request does leaves the shape of the others.                     *)
LEMMA ReqStep == ASSUME TypeOK, RequestsShaped, NEW r \in Requests,
                        NEW q \in RequestRecord, Shape(q), req' = [req EXCEPT ![r] = q]
                 PROVE  req' \in [Requests -> RequestRecord \cup {Idle}] /\ RequestsShaped'
<1>1. req \in [Requests -> RequestRecord \cup {Idle}]
  BY DEF TypeOK
<1>2. req' \in [Requests -> RequestRecord \cup {Idle}]
  BY <1>1
<1>3. ASSUME NEW p \in Requests, Busy(p)' PROVE Shape(req[p])'
  <2>1. CASE p = r
    BY <1>1, <2>1
  <2>2. CASE p # r
    <3>1. req'[p] = req[p]
      BY <1>1, <2>2
    <3>2. Shape(req[p])
      BY <1>3, <3>1 DEF RequestsShaped, Busy
    <3> QED BY <3>1, <3>2
  <2> QED BY <2>1, <2>2
<1> QED BY <1>2, <1>3 DEF RequestsShaped

(* So does a request that ends.                                              *)
LEMMA ReqEnd == ASSUME TypeOK, RequestsShaped, NEW r \in Requests, Finished(r)
                PROVE  req' \in [Requests -> RequestRecord \cup {Idle}] /\ RequestsShaped'
<1>1. req \in [Requests -> RequestRecord \cup {Idle}]
  BY DEF TypeOK
<1>2. req' \in [Requests -> RequestRecord \cup {Idle}]
  BY <1>1 DEF Finished
<1>3. ASSUME NEW p \in Requests, Busy(p)' PROVE Shape(req[p])'
  <2>1. p # r /\ req'[p] = req[p]
    BY <1>1, <1>3 DEF Finished, Busy, Idle
  <2>2. Shape(req[p])
    BY <1>3, <2>1 DEF RequestsShaped, Busy
  <2> QED BY <2>1, <2>2
<1> QED BY <1>2, <1>3 DEF RequestsShaped

(* A flow that is written is in its place.                                   *)
LEMMA FlowStep == ASSUME TypeOK, FlowsPlaced, NEW f \in Flows, NEW c \in LoginFlowRecord \cup {None},
                         c # None => Placed(c), flows' = [flows EXCEPT ![f] = c]
                  PROVE  flows' \in [Flows -> LoginFlowRecord \cup {None}] /\ FlowsPlaced'
BY DEF TypeOK, FlowsPlaced, Placed

(* A flow that is deleted, or was to be.                                     *)
LEMMA DiscardShape == ASSUME ShapeInv, NEW f \in Flows, Deletes(f) \/ FailsToDelete(f)
                      PROVE  /\ flows' \in [Flows -> LoginFlowRecord \cup {None}] /\ FlowsPlaced'
                             /\ ended' \subseteq Flows /\ lingering' \subseteq Flows
<1>1. CASE Deletes(f)
  BY <1>1, FlowStep DEF Deletes, ShapeInv, TypeOK
<1>2. CASE FailsToDelete(f)
  BY <1>2 DEF FailsToDelete, ShapeInv, TypeOK, FlowsPlaced
<1> QED BY <1>1, <1>2

(* The browser's session, when it has one, is in the store.                  *)
LEMMA CurrentRecord == ASSUME TypeOK
                       PROVE  /\ Current \in Sessions \cup {None}
                              /\ RecordOf(Current) \in SsoSession \cup {None}
                              /\ RecordOf(Current) # None => Current \in Sessions
                              /\ Current # None => /\ Current \in Sessions
                                                   /\ RecordOf(Current) = sess[Current]
                                                   /\ sess[Current] \in SsoSession
BY BoundsAssumption DEF TypeOK, Current, RecordOf, Sessions

(* A request that arrives.                                                   *)
LEMMA BeginShape == ASSUME TypeOK, RequestsShaped, NEW r \in Requests,
                           NEW q \in RequestRecord, Shape(q), Begin(r, q)
                    PROVE  req' \in [Requests -> RequestRecord \cup {Idle}] /\ RequestsShaped'
BY ReqStep DEF Begin

(* A step of the flow API that loads a flow.                                 *)
LEMMA LoadShape == ASSUME ShapeInv, NEW r \in Requests, NEW f \in Flows,
                          NEW q \in RequestRecord, Shape(q), Load(r, f, q)
                   PROVE  ShapeInv'
<1>1. req' \in [Requests -> RequestRecord \cup {Idle}] /\ RequestsShaped'
  BY BeginShape DEF Load, ShapeInv
<1>2. UNCHANGED <<flows, sess, rows, tracked, acct, consents, links, cookie, device, codes,
                  used, ended, raced, rushed, earned, approved, guesses, slips>>
  BY DEF Load
<1>3. crowded' \subseteq Flows
  BY DEF Load, ShapeInv, TypeOK
<1>4. FlowsPlaced'
  BY <1>2 DEF FlowsPlaced, ShapeInv
<1> QED BY <1>1, <1>2, <1>3, <1>4 DEF ShapeInv, TypeOK

(* A request that loads a flow past the first factor.                        *)
LEMMA LoadedShape == ASSUME TypeOK, FlowsPlaced, NEW f \in Flows, flows[f] # None,
                            NEW op, NEW pc,
                            \/ op = "cancel" /\ pc = "delete"
                            \/ op = "mfa" /\ pc = "factor" /\ flows[f].stage = "Mfa"
                            \/ op = "answer" /\ pc = "answer" /\ flows[f].stage \in AnswerStages
                            \/ op = "organization" /\ pc = "get" /\ flows[f].stage = "Organization"
                            \/ op = "consent" /\ pc \in {"consent", "delete"}
                               /\ flows[f].stage = "Consent"
                     PROVE  /\ Request(op, pc, f, flows[f]) \in RequestRecord
                            /\ Shape(Request(op, pc, f, flows[f]))
<1> DEFINE n == Request(op, pc, f, flows[f])
<1>1. Placed(flows[f]) /\ flows[f] \in LoginFlowRecord
  BY DEF FlowsPlaced, TypeOK
<1>2. /\ n.op = op /\ n.pc = pc /\ n.f = f /\ n.c = flows[f] /\ n.sid = None
      /\ n.s = None /\ n.u = flows[f].user
  BY DEF Request
<1>8. n \in RequestRecord
  BY <1>1 DEF Request, RequestRecord, LoginFlowRecord
<1> SUFFICES Shape(n)
  BY <1>8
<1> HIDE DEF n
<1>3. CASE op = "cancel" /\ pc = "delete"
  BY <1>2, <1>3 DEF Shape, Last
<1>4. CASE op = "mfa" /\ pc = "factor" /\ flows[f].stage = "Mfa"
  BY <1>1, <1>2, <1>4 DEF Shape, Last, Placed, Early
<1>5. CASE op = "answer" /\ pc = "answer" /\ flows[f].stage \in AnswerStages
  BY <1>1, <1>2, <1>5 DEF Shape, Last, Placed, Early, AnswerStages
<1>6. CASE op = "organization" /\ pc = "get" /\ flows[f].stage = "Organization"
  BY <1>1, <1>2, <1>6 DEF Shape, Last, Placed, Early
<1>7. CASE op = "consent" /\ pc \in {"consent", "delete"} /\ flows[f].stage = "Consent"
  BY <1>1, <1>2, <1>7 DEF Shape, Last, Placed, Early
<1> QED BY <1>3, <1>4, <1>5, <1>6, <1>7

(* The operation a step belongs to.                                          *)
LEMMA OpOf == ASSUME NEW q \in RequestRecord, Shape(q)
              PROVE  /\ q.pc = "decide" => q.op = "authorize"
                     /\ q.pc \in {"check", "reject", "attempts"} => q.op = "first"
                     /\ q.pc \in {"record", "open", "create"} => q.op \in {"first", "signup"}
                     /\ q.pc \in {"register", "pending", "resume"} => q.op = "signup"
                     /\ q.pc \in {"factor", "mfaReject"} => q.op = "mfa"
                     /\ q.pc = "get" => q.op \in {"mfa", "organization"}
                     /\ q.pc = "store" => q.op \in {"mfa", "organization", "finish", "touch"}
                     /\ q.pc \in Last => q.op \in {"first", "signup", "mfa", "answer",
                                                    "organization", "consent"}
                     /\ q.pc = "delete" => q.op \in {"first", "signup", "consent", "cancel"}
                     /\ q.pc = "answer" => q.op = "answer"
                     /\ q.pc = "consent" => q.op = "consent"
                     /\ q.pc = "finish" => q.op = "finish"
                     /\ q.pc = "mark" => q.op = "revoke"
                     /\ q.pc = "endAll" => q.op = "disable"
<1>1. q.op \in {"authorize", "first", "signup", "mfa", "answer", "organization", "consent",
                "cancel", "finish", "touch", "revoke", "disable"}
  BY DEF RequestRecord
<1> QED BY <1>1 DEF Shape, Last

(* A request that goes on to another step.                                   *)
LEMMA GotoShape == ASSUME TypeOK, RequestsShaped, NEW r \in Requests, req[r].pc # "idle",
                          NEW pc \in Pcs, Goto(r, pc), Shape(MovedTo(req[r], pc))
                   PROVE  req' \in [Requests -> RequestRecord \cup {Idle}] /\ RequestsShaped'
<1> DEFINE n == MovedTo(req[r], pc)
<1>1. n \in RequestRecord
  BY BusyRecord, Moved
<1>2. req' = [req EXCEPT ![r] = n]
  BY DEF Goto, MovedTo
<1> HIDE DEF n
<1>3. Shape(n)
  BY DEF n
<1> QED BY <1>1, <1>2, <1>3, ReqStep

(* A first factor that was right, or a registration.                         *)
LEMMA VerdictShape == ASSUME NEW q \in RequestRecord, Shape(q), q.op \in {"first", "signup"},
                             q.pc \notin Last, NEW risk, NEW must \in BOOLEAN
                      PROVE  LET n == Verdict(q, risk, must)
                             IN  /\ n \in RequestRecord /\ Shape(n)
                                 /\ n.pc \in {"delete", "record"} /\ n.must = must
                                 /\ n.op = q.op /\ n.f = q.f /\ n.c = q.c /\ n.sid = q.sid
                                 /\ n.s = q.s /\ n.u = q.u /\ n.method = q.method
<1> DEFINE n == Verdict(q, risk, must)
           t == q.op = "first" /\ device = q.u
           k == risk = "step_up"
           p == IF risk = "block" THEN "delete" ELSE "record"
<1>1. t \in BOOLEAN /\ k \in BOOLEAN /\ p \in {"delete", "record"}
  OBVIOUS
<1>2. n = [q EXCEPT !.pc = p, !.must = must, !.stepUp = k, !.trusted = t]
  BY DEF Verdict
<1> HIDE DEF n, t, k, p
<1>3. /\ n \in RequestRecord
      /\ n.pc \in {"delete", "record"} /\ n.must = must
      /\ n.op = q.op /\ n.f = q.f /\ n.c = q.c /\ n.sid = q.sid
      /\ n.s = q.s /\ n.u = q.u /\ n.method = q.method
  <2>1. n \in RequestRecord
    <3> DEFINE n1 == [q EXCEPT !.pc = p]
               n2 == [n1 EXCEPT !.must = must]
               n3 == [n2 EXCEPT !.stepUp = k]
    <3>1. n = [n3 EXCEPT !.trusted = t]
      BY <1>2
    <3>2. n1 \in RequestRecord
      BY <1>1 DEF RequestRecord
    <3> HIDE DEF n1
    <3>3. n2 \in RequestRecord
      BY <3>2 DEF RequestRecord
    <3> HIDE DEF n2
    <3>4. n3 \in RequestRecord
      BY <1>1, <3>3 DEF RequestRecord
    <3> HIDE DEF n3
    <3> QED BY <1>1, <3>1, <3>4 DEF RequestRecord
  <2>2. /\ n.pc \in {"delete", "record"}
        /\ n.op = q.op /\ n.f = q.f /\ n.c = q.c /\ n.sid = q.sid
        /\ n.s = q.s /\ n.u = q.u /\ n.method = q.method
    BY <1>1, <1>2 DEF RequestRecord
  <2>3. n.must = must
    BY <1>1, <1>2 DEF RequestRecord
  <2> QED BY <2>1, <2>2, <2>3
<1>4. Shape(n)
  BY <1>3 DEF Shape, Last
<1> QED BY <1>3, <1>4 DEF n

(* What a first factor records on the flow and the request.                  *)
LEMMA SignedInShape == ASSUME NEW q \in RequestRecord, Shape(q), q.op \in {"first", "signup"},
                              q.pc # "save", NEW sid \in Sessions
                       PROVE  LET n == SignedIn(q, sid)
                              IN  /\ n \in RequestRecord /\ Shape(n)
                                  /\ n.pc = "save" /\ n.sid = sid
                                  /\ n.op = q.op /\ n.f = q.f /\ n.s = q.s /\ n.u = q.u
                                  /\ n.method = q.method /\ n.must = q.must
                                  /\ n.c.sid = sid /\ n.c.user = q.u /\ n.c.stage = q.c.stage
                                  /\ n.c.mfa = (q.method = "passkey")
                                  /\ n.c.pending = q.c.pending /\ n.c.attempts = q.c.attempts
<1> DEFINE n == SignedIn(q, sid)
           m == q.method = "passkey"
           b == q.op = "first" /\ q.f \in Remember /\ ~ q.trusted
           c1 == [q.c EXCEPT !.sid = sid]
           c2 == [c1 EXCEPT !.user = q.u]
           c3 == [c2 EXCEPT !.mfa = m]
           c4 == [c3 EXCEPT !.trusted = q.trusted]
           c5 == [c4 EXCEPT !.stepUp = q.stepUp]
           c6 == [c5 EXCEPT !.remember = b]
           n1 == [q EXCEPT !.pc = "save"]
           n2 == [n1 EXCEPT !.sid = sid]
<1>1. n = [n2 EXCEPT !.c = c6]
  BY DEF SignedIn
<1>2. q.u \in Users /\ q.c \in LoginFlowRecord /\ q.trusted \in BOOLEAN /\ q.stepUp \in BOOLEAN
  BY DEF Shape, Last, RequestRecord
<1>3. m \in BOOLEAN /\ b \in BOOLEAN
  OBVIOUS
<1> HIDE DEF n, m, b
<1>4. c1 \in LoginFlowRecord
  BY <1>2 DEF LoginFlowRecord
<1>5. c2 \in LoginFlowRecord
  <2> HIDE DEF c1
  <2> QED BY <1>2, <1>4 DEF LoginFlowRecord
<1>6. c3 \in LoginFlowRecord
  <2> HIDE DEF c2
  <2> QED BY <1>3, <1>5 DEF LoginFlowRecord
<1>7. c4 \in LoginFlowRecord
  <2> HIDE DEF c3
  <2> QED BY <1>2, <1>6 DEF LoginFlowRecord
<1>8. c5 \in LoginFlowRecord
  <2> HIDE DEF c4
  <2> QED BY <1>2, <1>7 DEF LoginFlowRecord
<1>9. c6 \in LoginFlowRecord
  <2> HIDE DEF c5
  <2> QED BY <1>3, <1>8 DEF LoginFlowRecord
<1>10. /\ c6.sid = sid /\ c6.user = q.u /\ c6.stage = q.c.stage
       /\ c6.pending = q.c.pending /\ c6.attempts = q.c.attempts
  BY <1>2 DEF LoginFlowRecord
<1>11. c6.mfa = m
  BY <1>2 DEF LoginFlowRecord
<1> HIDE DEF c6
<1>12. n1 \in RequestRecord
  BY DEF RequestRecord
<1>13. n2 \in RequestRecord
  <2> HIDE DEF n1
  <2> QED BY <1>12 DEF RequestRecord
<1>14. n \in RequestRecord
  <2> HIDE DEF n2
  <2> QED BY <1>1, <1>9, <1>13 DEF RequestRecord
<1>15. /\ n.pc = "save" /\ n.sid = sid /\ n.c = c6
       /\ n.op = q.op /\ n.f = q.f /\ n.s = q.s /\ n.u = q.u
       /\ n.method = q.method /\ n.must = q.must
  BY <1>1 DEF RequestRecord
<1>16. Shape(n)
  BY <1>2, <1>10, <1>15 DEF Shape, Last
<1> QED BY <1>10, <1>11, <1>14, <1>15, <1>16 DEF n, m

(* A second factor that passed.                                              *)
Passed(q) ==
    [q EXCEPT !.pc = "save",
              !.c = [@ EXCEPT !.mfa = TRUE, !.attempts = 0,
                              !.remember = (q.c.remember \/ q.f \in Remember)
                                           /\ ~ q.c.trusted]]

(* It is well formed, of the same session and user, and has its flow proven.*)
LEMMA PassedShape == ASSUME NEW q \in RequestRecord, Shape(q), q.op = "mfa", q.pc = "store"
                     PROVE  LET n == Passed(q)
                            IN  /\ n \in RequestRecord /\ Shape(n)
                                /\ n.pc = "save" /\ n.op = q.op /\ n.f = q.f /\ n.sid = q.sid
                                /\ n.s = q.s /\ n.u = q.u /\ n.must = q.must
                                /\ n.c.sid = q.c.sid /\ n.c.user = q.c.user
                                /\ n.c.mfa = TRUE /\ n.c.stage = q.c.stage
<1> DEFINE n == Passed(q)
           b == (q.c.remember \/ q.f \in Remember) /\ ~ q.c.trusted
           c1 == [q.c EXCEPT !.mfa = TRUE]
           c2 == [c1 EXCEPT !.attempts = 0]
           c3 == [c2 EXCEPT !.remember = b]
           n1 == [q EXCEPT !.pc = "save"]
<1>1. n = [n1 EXCEPT !.c = c3]
  BY DEF Passed, RequestRecord, LoginFlowRecord
<1>2. q.c \in LoginFlowRecord /\ b \in BOOLEAN
  BY DEF RequestRecord
<1> HIDE DEF n, b
<1>3. c1 \in LoginFlowRecord
  BY <1>2 DEF LoginFlowRecord
<1>4. c2 \in LoginFlowRecord
  <2> HIDE DEF c1
  <2> QED BY <1>3 DEF LoginFlowRecord
<1>5. c3 \in LoginFlowRecord
  <2> HIDE DEF c2
  <2> QED BY <1>2, <1>4 DEF LoginFlowRecord
<1>6. /\ c3.sid = q.c.sid /\ c3.user = q.c.user /\ c3.stage = q.c.stage
      /\ c3.pending = q.c.pending /\ c3.mfa = TRUE
  BY <1>2 DEF LoginFlowRecord
<1> HIDE DEF c3
<1>7. n1 \in RequestRecord
  BY DEF RequestRecord
<1>8. n \in RequestRecord
  <2> HIDE DEF n1
  <2> QED BY <1>1, <1>5, <1>7 DEF RequestRecord
<1>9. /\ n.pc = "save" /\ n.op = q.op /\ n.f = q.f /\ n.sid = q.sid /\ n.c = c3
      /\ n.s = q.s /\ n.u = q.u /\ n.must = q.must
  BY <1>1 DEF RequestRecord
<1>10. Shape(n)
  BY <1>2, <1>6, <1>9 DEF Shape, Last
<1> QED BY <1>6, <1>8, <1>9, <1>10 DEF n

(* The organization is chosen.                                               *)
Bound(q) == [q EXCEPT !.pc = "save", !.c.org = TRUE]

(* It is well formed, and nothing but the organization of its flow changes. *)
LEMMA BoundShape == ASSUME NEW q \in RequestRecord, Shape(q), q.op = "organization" \/ q.pc = "bind"
                    PROVE  LET n == Bound(q)
                           IN  /\ n \in RequestRecord /\ Shape(n)
                               /\ n.pc = "save" /\ n.op = q.op /\ n.f = q.f /\ n.sid = q.sid
                               /\ n.s = q.s /\ n.u = q.u /\ n.must = q.must
                               /\ n.c.sid = q.c.sid /\ n.c.user = q.c.user
                               /\ n.c.mfa = q.c.mfa /\ n.c.stage = q.c.stage
                               /\ n.c.attempts = q.c.attempts
<1> DEFINE n == Bound(q)
           c1 == [q.c EXCEPT !.org = TRUE]
           n1 == [q EXCEPT !.pc = "save"]
<1>1. n = [n1 EXCEPT !.c = c1]
  BY DEF Bound, RequestRecord, LoginFlowRecord
<1>2. q.c \in LoginFlowRecord
  BY DEF RequestRecord
<1> HIDE DEF n
<1>3. c1 \in LoginFlowRecord
  BY <1>2 DEF LoginFlowRecord
<1>4. /\ c1.sid = q.c.sid /\ c1.user = q.c.user /\ c1.stage = q.c.stage
      /\ c1.pending = q.c.pending /\ c1.attempts = q.c.attempts
  BY <1>2 DEF LoginFlowRecord
<1>5. c1.mfa = q.c.mfa
  BY <1>2 DEF LoginFlowRecord
<1> HIDE DEF c1
<1>7. n1 \in RequestRecord
  BY DEF RequestRecord
<1>8. n \in RequestRecord
  <2> HIDE DEF n1
  <2> QED BY <1>1, <1>3, <1>7 DEF RequestRecord
<1>9. /\ n.pc = "save" /\ n.op = q.op /\ n.f = q.f /\ n.sid = q.sid /\ n.c = c1
      /\ n.s = q.s /\ n.u = q.u /\ n.must = q.must /\ n.method = q.method
  BY <1>1 DEF RequestRecord
<1>10. Shape(n)
  <2>1. q.op \in {"first", "signup", "mfa", "answer", "organization", "consent"}
    BY OpOf DEF Last
  <2> QED BY <1>2, <1>4, <1>5, <1>9, <2>1 DEF Shape, Last
<1> QED BY <1>4, <1>5, <1>8, <1>9, <1>10 DEF n

(* The consent is given.                                                     *)
Consented(q) == [q EXCEPT !.pc = "save", !.c = [@ EXCEPT !.stage = "Done", !.pending = FALSE]]

(* It is well formed, with a flow that is done and pends nothing.           *)
LEMMA ConsentedShape == ASSUME NEW q \in RequestRecord, Shape(q), q.op = "consent"
                        PROVE  LET n == Consented(q)
                               IN  /\ n \in RequestRecord /\ Shape(n)
                                   /\ n.pc = "save" /\ n.op = q.op /\ n.f = q.f
                                   /\ n.sid = q.sid /\ n.s = q.s /\ n.u = q.u
                                   /\ n.must = q.must
                                   /\ n.c.sid = q.c.sid /\ n.c.user = q.c.user
                                   /\ n.c.mfa = q.c.mfa /\ n.c.stage = "Done"
                                   /\ n.c.attempts = q.c.attempts
<1> DEFINE n == Consented(q)
           c1 == [q.c EXCEPT !.stage = "Done"]
           c2 == [c1 EXCEPT !.pending = FALSE]
           n1 == [q EXCEPT !.pc = "save"]
<1>1. n = [n1 EXCEPT !.c = c2]
  BY DEF Consented, RequestRecord, LoginFlowRecord
<1>2. q.c \in LoginFlowRecord
  BY DEF RequestRecord
<1> HIDE DEF n
<1>3. c1 \in LoginFlowRecord
  BY <1>2 DEF LoginFlowRecord, FlowStage
<1>4. c2 \in LoginFlowRecord
  <2> HIDE DEF c1
  <2> QED BY <1>3 DEF LoginFlowRecord
<1>5. /\ c2.sid = q.c.sid /\ c2.user = q.c.user /\ c2.stage = "Done"
      /\ c2.pending = FALSE /\ c2.attempts = q.c.attempts
  BY <1>2 DEF LoginFlowRecord
<1>6. c2.mfa = q.c.mfa
  BY <1>2 DEF LoginFlowRecord
<1> HIDE DEF c2
<1>7. n1 \in RequestRecord
  BY DEF RequestRecord
<1>8. n \in RequestRecord
  <2> HIDE DEF n1
  <2> QED BY <1>1, <1>4, <1>7 DEF RequestRecord
<1>9. /\ n.pc = "save" /\ n.op = q.op /\ n.f = q.f /\ n.sid = q.sid /\ n.c = c2
      /\ n.s = q.s /\ n.u = q.u /\ n.must = q.must
  BY <1>1 DEF RequestRecord
<1>10. Shape(n)
  BY <1>2, <1>5, <1>9 DEF Shape, Last
<1> QED BY <1>5, <1>6, <1>8, <1>9, <1>10 DEF n

(* The session of the flow is read.                                          *)
Fetched(q, s) == [q EXCEPT !.pc = "store", !.sid = q.c.sid, !.s = s]

(* It is well formed when the session is of the user it acts for.           *)
LEMMA FetchedShape == ASSUME NEW q \in RequestRecord, Shape(q), q.pc = "get",
                             NEW s \in SsoSession, q.op = "mfa" => s.user = q.u
                      PROVE  LET n == Fetched(q, s)
                             IN  /\ n \in RequestRecord /\ Shape(n)
                                 /\ n.pc = "store" /\ n.op = q.op /\ n.f = q.f /\ n.c = q.c
                                 /\ n.sid = q.c.sid /\ n.s = s /\ n.u = q.u /\ n.must = q.must
<1> DEFINE n == Fetched(q, s)
           n1 == [q EXCEPT !.pc = "store"]
           n2 == [n1 EXCEPT !.sid = q.c.sid]
<1>1. n = [n2 EXCEPT !.s = s]
  BY DEF Fetched
<1>2. q.c.sid \in Sessions /\ q.op \in {"mfa", "organization"}
  BY OpOf DEF Shape, Last
<1> HIDE DEF n
<1>3. n1 \in RequestRecord
  BY DEF RequestRecord
<1>4. n2 \in RequestRecord
  <2> HIDE DEF n1
  <2> QED BY <1>2, <1>3 DEF RequestRecord
<1>5. n \in RequestRecord
  <2> HIDE DEF n2
  <2> QED BY <1>1, <1>4 DEF RequestRecord
<1>6. /\ n.pc = "store" /\ n.op = q.op /\ n.f = q.f /\ n.c = q.c
      /\ n.sid = q.c.sid /\ n.s = s /\ n.u = q.u /\ n.must = q.must
  BY <1>1 DEF RequestRecord
<1>7. Shape(n)
  BY <1>2, <1>6 DEF Shape, Last
<1> QED BY <1>5, <1>6, <1>7 DEF n

(* The session that is to be opened is a new one.                            *)
Cleared(q) == [q EXCEPT !.pc = "create", !.sid = None, !.s = None]

(* It is well formed, for the same user, flow and method.                   *)
LEMMA ClearedShape == ASSUME NEW q \in RequestRecord, Shape(q), q.pc = "open"
                      PROVE  LET n == Cleared(q)
                             IN  /\ n \in RequestRecord /\ Shape(n)
                                 /\ n.pc = "create" /\ n.op = q.op /\ n.f = q.f /\ n.c = q.c
                                 /\ n.sid = None /\ n.s = None /\ n.u = q.u /\ n.must = q.must
                                 /\ n.method = q.method
<1> DEFINE n == Cleared(q)
           n1 == [q EXCEPT !.pc = "create"]
           n2 == [n1 EXCEPT !.sid = None]
<1>1. n = [n2 EXCEPT !.s = None]
  BY DEF Cleared
<1>2. q.op \in {"first", "signup"}
  BY OpOf
<1> HIDE DEF n
<1>3. n1 \in RequestRecord
  BY DEF RequestRecord
<1>4. n2 \in RequestRecord
  <2> HIDE DEF n1
  <2> QED BY <1>3 DEF RequestRecord
<1>5. n \in RequestRecord
  <2> HIDE DEF n2
  <2> QED BY <1>1, <1>4 DEF RequestRecord
<1>6. /\ n.pc = "create" /\ n.op = q.op /\ n.f = q.f /\ n.c = q.c
      /\ n.sid = None /\ n.s = None /\ n.u = q.u /\ n.must = q.must /\ n.method = q.method
  BY <1>1 DEF RequestRecord
<1>7. Shape(n)
  BY <1>2, <1>6 DEF Shape, Last
<1> QED BY <1>5, <1>6, <1>7 DEF n

(* The flow that waited for the verification link goes on.                   *)
Resumed(q, risk, c) == [Verdict(q, risk, FALSE) EXCEPT !.c = c]

(* It is well formed with the copy of the flow it has just loaded.          *)
LEMMA ResumedShape == ASSUME NEW q \in RequestRecord, Shape(q), q.pc = "resume", NEW risk,
                             NEW c \in LoginFlowRecord, Placed(c), c.stage = "VerifyEmail"
                      PROVE  LET n == Resumed(q, risk, c)
                             IN  /\ n \in RequestRecord /\ Shape(n)
                                 /\ n.pc \in {"delete", "record"} /\ n.op = q.op /\ n.f = q.f
                                 /\ n.c = c /\ n.sid = q.sid /\ n.s = q.s /\ n.u = q.u
                                 /\ n.must = FALSE
<1> DEFINE n == Resumed(q, risk, c)
           v == Verdict(q, risk, FALSE)
<1>1. n = [v EXCEPT !.c = c] /\ q.op = "signup"
  BY OpOf DEF Resumed
<1>2. /\ v \in RequestRecord /\ Shape(v)
      /\ v.pc \in {"delete", "record"} /\ v.must = FALSE
      /\ v.op = q.op /\ v.f = q.f /\ v.sid = q.sid /\ v.s = q.s /\ v.u = q.u
  <2>1. \A must \in BOOLEAN :
          LET w == Verdict(q, risk, must)
          IN  /\ w \in RequestRecord /\ Shape(w)
              /\ w.pc \in {"delete", "record"} /\ w.must = must
              /\ w.op = q.op /\ w.f = q.f /\ w.sid = q.sid /\ w.s = q.s /\ w.u = q.u
    BY <1>1, VerdictShape DEF Last
  <2> QED BY <2>1
<1> HIDE DEF n, v
<1>3. n \in RequestRecord
  BY <1>1, <1>2 DEF RequestRecord
<1>4. /\ n.pc = v.pc /\ n.op = v.op /\ n.f = v.f /\ n.c = c /\ n.sid = v.sid
      /\ n.s = v.s /\ n.u = v.u /\ n.method = v.method
  BY <1>1, <1>2 DEF RequestRecord
<1>5. n.must = FALSE
  BY <1>1, <1>2 DEF RequestRecord
<1>6. Shape(n)
  BY <1>1, <1>2, <1>4 DEF Shape, Last, Placed, Early
<1> QED BY <1>2, <1>3, <1>4, <1>5, <1>6 DEF n

(* The stage that is due: what it says is owed, or is not.                   *)
LEMMA StageDueIs == ASSUME NEW f, NEW c, NEW must
                    PROVE  LET stage == StageDue(f, c, must)
                           IN  /\ stage \in FlowStage \ Early
                               /\ must => stage = "PasswordChange"
                               /\ stage = "PasswordChange" => must
                               /\ stage = "Mfa" => MfaRequired(f, c)
                               /\ stage = "Done" =>
                                    /\ ~ must /\ ~ MfaRequired(f, c)
                                    /\ ~ (ConsentPending(f, c) /\ c.stage # "Done")
<1> USE DEF StageDue, FlowStage, AnswerStages, Early
<1>1. CASE must
  BY <1>1
<1>2. CASE ~ must /\ MfaRequired(f, c)
  BY <1>2
<1>3. CASE ~ must /\ ~ MfaRequired(f, c) /\ "Profile" \in acct[c.user].owes
  BY <1>3
<1>4. CASE /\ ~ must /\ ~ MfaRequired(f, c) /\ "Profile" \notin acct[c.user].owes
           /\ "Terms" \in acct[c.user].owes
  BY <1>4
<1>5. CASE /\ ~ must /\ ~ MfaRequired(f, c) /\ "Profile" \notin acct[c.user].owes
           /\ "Terms" \notin acct[c.user].owes /\ OrgPending(f, c)
  BY <1>5
<1>6. CASE /\ ~ must /\ ~ MfaRequired(f, c) /\ "Profile" \notin acct[c.user].owes
           /\ "Terms" \notin acct[c.user].owes /\ ~ OrgPending(f, c)
           /\ ConsentPending(f, c) /\ c.stage # "Done"
  BY <1>6
<1>7. CASE /\ ~ must /\ ~ MfaRequired(f, c) /\ "Profile" \notin acct[c.user].owes
           /\ "Terms" \notin acct[c.user].owes /\ ~ OrgPending(f, c)
           /\ ~ (ConsentPending(f, c) /\ c.stage # "Done")
  BY <1>7
<1> QED BY <1>1, <1>2, <1>3, <1>4, <1>5, <1>6, <1>7

(* advance keeps who signed in and how, and puts the flow at what is due.    *)
LEMMA AdvanceShape == ASSUME NEW f, NEW c \in LoginFlowRecord, c.sid \in Sessions, c.user \in Users,
                             ~ c.pending, NEW must
                      PROVE  LET a == Advance(f, c, must)
                             IN  /\ a \in LoginFlowRecord /\ Placed(a)
                                 /\ a.stage = StageDue(f, c, must)
                                 /\ a.sid = c.sid /\ a.user = c.user /\ a.attempts = c.attempts
                                 /\ a.mfa = c.mfa /\ a.trusted = c.trusted
                                 /\ a.stepUp = c.stepUp
<1> DEFINE a == Advance(f, c, must)
           stage == StageDue(f, c, must)
           p == IF stage \in {"Consent", "Done"} THEN stage = "Consent" ELSE c.pending
           o == IF stage \in {"Organization", "Consent", "Done"} THEN OrgSettled(f, c) ELSE c.org
           c1 == [c EXCEPT !.stage = stage]
           c2 == [c1 EXCEPT !.pending = p]
<1>1. stage \in FlowStage /\ stage \notin Early /\ (stage = "Mfa" => ~ c.mfa)
  BY StageDueIs DEF MfaRequired
<1>2. p \in BOOLEAN /\ (p => stage = "Consent")
  BY DEF LoginFlowRecord
<1>3. OrgSettled(f, c) \in BOOLEAN
  BY DEF OrgSettled, LoginFlowRecord
<1>4. o \in BOOLEAN
  BY <1>3 DEF LoginFlowRecord
<1>5. c.sid # None /\ c.user # None
  BY BoundsAssumption DEF Sessions
<1>6. a = [c2 EXCEPT !.org = o]
  BY <1>5 DEF Advance, LoginFlowRecord
<1> HIDE DEF stage, p, o, a
<1>7. c1 \in LoginFlowRecord
  BY <1>1 DEF LoginFlowRecord
<1>8. c2 \in LoginFlowRecord
  <2> HIDE DEF c1
  <2> QED BY <1>2, <1>7 DEF LoginFlowRecord
<1>9. a \in LoginFlowRecord
  <2> HIDE DEF c2
  <2> QED BY <1>4, <1>6, <1>8 DEF LoginFlowRecord
<1>10. a.stage = stage /\ a.sid = c.sid /\ a.user = c.user /\ a.attempts = c.attempts
  BY <1>6 DEF LoginFlowRecord
<1>11. a.mfa = c.mfa
  BY <1>6 DEF LoginFlowRecord
<1>12. a.trusted = c.trusted /\ a.stepUp = c.stepUp
  BY <1>6 DEF LoginFlowRecord
<1>13. a.pending = p
  BY <1>6 DEF LoginFlowRecord
<1>14. Placed(a)
  BY <1>1, <1>2, <1>10, <1>11, <1>13 DEF Placed
<1> QED BY <1>9, <1>10, <1>11, <1>12, <1>14 DEF a, stage

(* An organization is about to be recorded on the session.                   *)
Binding(q, s) == [q EXCEPT !.pc = "bind", !.sid = q.c.sid, !.s = s]

(* The request has the session of its flow in hand, and nothing else changes. *)
LEMMA BindingShape == ASSUME NEW q \in RequestRecord, Shape(q), q.pc = "save",
                             NEW s \in SsoSession
                      PROVE  LET n == Binding(q, s)
                             IN  /\ n \in RequestRecord /\ Shape(n)
                                 /\ n.pc = "bind" /\ n.op = q.op /\ n.f = q.f /\ n.c = q.c
                                 /\ n.sid = q.c.sid /\ n.s = s /\ n.u = q.u /\ n.must = q.must
<1> DEFINE n == Binding(q, s)
           n1 == [q EXCEPT !.pc = "bind"]
           n2 == [n1 EXCEPT !.sid = q.c.sid]
<1>1. n = [n2 EXCEPT !.s = s]
  BY DEF Binding
<1>2. q.c.sid \in Sessions /\ q.op \in {"first", "signup", "mfa", "answer", "organization", "consent"}
  BY OpOf DEF Shape, Last
<1> HIDE DEF n
<1>3. n1 \in RequestRecord
  BY DEF RequestRecord
<1>4. n2 \in RequestRecord
  <2> HIDE DEF n1
  <2> QED BY <1>2, <1>3 DEF RequestRecord
<1>5. n \in RequestRecord
  <2> HIDE DEF n2
  <2> QED BY <1>1, <1>4 DEF RequestRecord
<1>6. /\ n.pc = "bind" /\ n.op = q.op /\ n.f = q.f /\ n.c = q.c
      /\ n.sid = q.c.sid /\ n.s = s /\ n.u = q.u /\ n.must = q.must /\ n.method = q.method
  BY <1>1 DEF RequestRecord
<1>7. Shape(n)
  BY <1>2, <1>6 DEF Shape, Last
<1> QED BY <1>5, <1>6, <1>7 DEF n

(* A flow that /authorize opens.                                             *)
LEMMA NewFlowIs == /\ NewFlow \in LoginFlowRecord /\ NewFlow.stage = "Authenticate"
                   /\ NewFlow.sid = None /\ NewFlow.user = None /\ NewFlow.mfa = FALSE
                   /\ NewFlow.pending = FALSE /\ NewFlow.attempts = 0
BY DEF NewFlow, LoginFlowRecord, FlowStage

(* A request that signs a user in, with a method.                            *)
SigningIn(q, u, m) == [q EXCEPT !.u = u, !.method = m]

(* It is a request, the same but for the user and the method.               *)
LEMMA SignInIs == ASSUME NEW q \in RequestRecord, NEW u \in Users, NEW m \in Methods
                  PROVE  LET n == SigningIn(q, u, m)
                         IN  /\ n \in RequestRecord
                             /\ n.op = q.op /\ n.pc = q.pc /\ n.f = q.f /\ n.c = q.c
                             /\ n.sid = q.sid /\ n.s = q.s /\ n.u = u /\ n.method = m
                             /\ n.must = q.must
<1> DEFINE n1 == [q EXCEPT !.u = u]
           n == [n1 EXCEPT !.method = m]
<1>0. SigningIn(q, u, m) = n
  BY DEF SigningIn
<1>1. n1 \in RequestRecord
  BY DEF RequestRecord
<1>2. n \in RequestRecord
  <2> HIDE DEF n1
  <2> QED BY <1>1 DEF RequestRecord
<1>3. /\ n.op = q.op /\ n.pc = q.pc /\ n.f = q.f /\ n.c = q.c
      /\ n.sid = q.sid /\ n.s = q.s /\ n.u = u /\ n.method = m /\ n.must = q.must
  BY DEF RequestRecord
<1> QED BY <1>0, <1>2, <1>3

(* A request that reads the browser's session.                               *)
LEMMA WithSession == ASSUME TypeOK, NEW q \in RequestRecord
                     PROVE  LET n == [q EXCEPT !.sid = Current, !.s = RecordOf(Current)]
                            IN  /\ n \in RequestRecord
                                /\ n.op = q.op /\ n.pc = q.pc /\ n.f = q.f /\ n.c = q.c
                                /\ n.sid = Current /\ n.s = RecordOf(Current) /\ n.u = q.u
                                /\ n.method = q.method /\ n.must = q.must
<1> DEFINE cur == Current
           rec == RecordOf(Current)
           n1 == [q EXCEPT !.sid = cur]
           n == [n1 EXCEPT !.s = rec]
<1>1. cur \in Sessions \cup {None} /\ rec \in SsoSession \cup {None}
  BY CurrentRecord
<1> HIDE DEF cur, rec
<1>2. n1 \in RequestRecord
  BY <1>1 DEF RequestRecord
<1>3. n \in RequestRecord
  <2> HIDE DEF n1
  <2> QED BY <1>1, <1>2 DEF RequestRecord
<1>4. /\ n.op = q.op /\ n.pc = q.pc /\ n.f = q.f /\ n.c = q.c
      /\ n.sid = cur /\ n.s = rec /\ n.u = q.u
      /\ n.method = q.method /\ n.must = q.must
  BY DEF RequestRecord
<1> QED BY <1>3, <1>4 DEF cur, rec

(* A request that is at a step.                                              *)
LEMMA AtStep == ASSUME ShapeInv, NEW r \in Requests, req[r].pc # "idle"
                PROVE  req[r] \in RequestRecord /\ Shape(req[r])
BY BusyRecord DEF ShapeInv, RequestsShaped, Busy

(* The verdict on a sign-in.                                                 *)
LEMMA AssessedShape == ASSUME ShapeInv, NEW r \in Requests, req[r].pc \notin {"idle"} \cup Last,
                              req[r].op \in {"first", "signup"},
                              NEW must \in BOOLEAN, Assessed(r, must)
                       PROVE  req' \in [Requests -> RequestRecord \cup {Idle}] /\ RequestsShaped'
<1>1. PICK risk : req' = [req EXCEPT ![r] = Verdict(req[r], risk, must)]
  BY DEF Assessed
<1>2. Verdict(req[r], risk, must) \in RequestRecord /\ Shape(Verdict(req[r], risk, must))
  BY AtStep, VerdictShape
<1> QED BY <1>1, <1>2, ReqStep DEF ShapeInv

(* What a live session owes.                                                 *)
LEMMA UnfinishedIs == ASSUME NEW s, NEW risk
                      PROVE  LET st == UnfinishedStage(s, risk)
                             IN  /\ st \in {"Authenticate", "PasswordChange", "Blocked", "Mfa",
                                            "Nothing"}
                                 /\ st \in {"Mfa", "Nothing"} =>
                                      "PasswordChange" \notin acct[s.user].owes
                                 /\ st = "Mfa" => ~ s.mfa
                                 /\ st = "Nothing" =>
                                      /\ risk = "step_up" => s.mfa
                                      /\ s.user \in MfaUsers /\ device # s.user => s.mfa
<1> USE DEF UnfinishedStage
<1>1. CASE acct[s.user].status \notin {"active", "pending"}
  BY <1>1
<1>2. CASE /\ acct[s.user].status \in {"active", "pending"}
           /\ "PasswordChange" \in acct[s.user].owes
  BY <1>2
<1>3. CASE /\ acct[s.user].status \in {"active", "pending"}
           /\ "PasswordChange" \notin acct[s.user].owes /\ risk = "block"
  BY <1>3
<1>4. CASE /\ acct[s.user].status \in {"active", "pending"}
           /\ "PasswordChange" \notin acct[s.user].owes /\ risk # "block"
           /\ \/ risk = "step_up" /\ ~s.mfa
              \/ ~s.mfa /\ s.user \in MfaUsers /\ device # s.user
  BY <1>4
<1>5. CASE /\ acct[s.user].status \in {"active", "pending"}
           /\ "PasswordChange" \notin acct[s.user].owes /\ risk # "block"
           /\ ~ \/ risk = "step_up" /\ ~s.mfa
                \/ ~s.mfa /\ s.user \in MfaUsers /\ device # s.user
  BY <1>5
<1> QED BY <1>1, <1>2, <1>3, <1>4, <1>5

(* The flow /authorize opens for a session that owes something, or whose     *)
(* client needs the user's consent.                                          *)
ForSession(q) == [NewFlow EXCEPT !.sid = q.sid, !.user = q.s.user, !.org = q.s.org]
Owing(q, stage) ==
    [ForSession(q) EXCEPT !.stage = stage, !.mfa = q.s.mfa, !.stepUp = (stage = "Mfa")]
Asking(q) == [ForSession(q) EXCEPT !.stage = "Consent", !.pending = TRUE]

(* The fields of these flows.                                                *)
LEMMA ForSessionIs == ASSUME NEW q \in RequestRecord, q.s \in SsoSession, q.sid \in Sessions
                      PROVE  LET c == ForSession(q)
                             IN  /\ c \in LoginFlowRecord /\ c.sid = q.sid /\ c.user = q.s.user
                                 /\ c.attempts = 0 /\ c.mfa = FALSE /\ c.pending = FALSE
<1> DEFINE c1 == [NewFlow EXCEPT !.sid = q.sid]
           c2 == [c1 EXCEPT !.user = q.s.user]
           c3 == [c2 EXCEPT !.org = q.s.org]
<1>1. ForSession(q) = c3
  BY DEF ForSession
<1>2. q.s.user \in Users /\ q.s.org \in BOOLEAN
  BY DEF SsoSession
<1>3. c1 \in LoginFlowRecord
  BY NewFlowIs DEF LoginFlowRecord
<1>4. c2 \in LoginFlowRecord
  <2> HIDE DEF c1
  <2> QED BY <1>2, <1>3 DEF LoginFlowRecord
<1>5. c3 \in LoginFlowRecord
  <2> HIDE DEF c2
  <2> QED BY <1>2, <1>4 DEF LoginFlowRecord
<1>6. c3.sid = q.sid /\ c3.user = q.s.user /\ c3.attempts = 0
  BY NewFlowIs DEF LoginFlowRecord
<1>7. c3.mfa = FALSE /\ c3.pending = FALSE
  BY NewFlowIs DEF LoginFlowRecord
<1> QED BY <1>1, <1>5, <1>6, <1>7

(* The flow that asks for what a session still owes has that stage.         *)
LEMMA OwingIs == ASSUME NEW q \in RequestRecord, q.s \in SsoSession, q.sid \in Sessions,
                        NEW stage \in {"PasswordChange", "Mfa"}, stage = "Mfa" => ~ q.s.mfa
                 PROVE  LET c == Owing(q, stage)
                        IN  /\ c \in LoginFlowRecord /\ Placed(c)
                            /\ c.stage = stage /\ c.sid = q.sid /\ c.user = q.s.user
                            /\ c.attempts = 0 /\ c.mfa = q.s.mfa
<1> DEFINE c0 == ForSession(q)
           k == stage = "Mfa"
           c1 == [c0 EXCEPT !.stage = stage]
           c2 == [c1 EXCEPT !.mfa = q.s.mfa]
           c3 == [c2 EXCEPT !.stepUp = k]
<1>1. Owing(q, stage) = c3
  BY DEF Owing
<1>2. q.s.user \in Users /\ q.s.mfa \in BOOLEAN /\ k \in BOOLEAN
  BY DEF SsoSession
<1>3. /\ c0 \in LoginFlowRecord /\ c0.sid = q.sid /\ c0.user = q.s.user
      /\ c0.attempts = 0 /\ c0.pending = FALSE
  BY ForSessionIs
<1> HIDE DEF c0, k
<1>4. c1 \in LoginFlowRecord
  BY <1>3 DEF LoginFlowRecord, FlowStage, AnswerStages
<1>5. c2 \in LoginFlowRecord
  <2> HIDE DEF c1
  <2> QED BY <1>2, <1>4 DEF LoginFlowRecord
<1>6. c3 \in LoginFlowRecord
  <2> HIDE DEF c2
  <2> QED BY <1>2, <1>5 DEF LoginFlowRecord
<1>7. c3.stage = stage /\ c3.sid = q.sid /\ c3.user = q.s.user /\ c3.attempts = 0
  BY <1>3 DEF LoginFlowRecord
<1>8. c3.mfa = q.s.mfa /\ c3.pending = FALSE
  BY <1>3 DEF LoginFlowRecord
<1> HIDE DEF c3
<1>9. Placed(c3)
  BY <1>2, <1>7, <1>8 DEF Placed, Early
<1> QED BY <1>1, <1>6, <1>7, <1>8, <1>9

(* The flow that asks for a consent alone is at the consent page.           *)
LEMMA AskingIs == ASSUME NEW q \in RequestRecord, q.s \in SsoSession, q.sid \in Sessions
                  PROVE  LET c == Asking(q)
                         IN  /\ c \in LoginFlowRecord /\ Placed(c)
                             /\ c.stage = "Consent" /\ c.sid = q.sid /\ c.user = q.s.user
                             /\ c.attempts = 0 /\ c.mfa = FALSE
<1> DEFINE c0 == ForSession(q)
           c1 == [c0 EXCEPT !.stage = "Consent"]
           c2 == [c1 EXCEPT !.pending = TRUE]
<1>1. Asking(q) = c2
  BY DEF Asking
<1>2. q.s.user \in Users
  BY DEF SsoSession
<1>3. /\ c0 \in LoginFlowRecord /\ c0.sid = q.sid /\ c0.user = q.s.user
      /\ c0.attempts = 0 /\ c0.mfa = FALSE
  BY ForSessionIs
<1> HIDE DEF c0
<1>4. c1 \in LoginFlowRecord
  BY <1>3 DEF LoginFlowRecord, FlowStage
<1>5. c2 \in LoginFlowRecord
  <2> HIDE DEF c1
  <2> QED BY <1>4 DEF LoginFlowRecord
<1>7. c2.stage = "Consent" /\ c2.sid = q.sid /\ c2.user = q.s.user /\ c2.attempts = 0
  BY <1>3 DEF LoginFlowRecord
<1>8. c2.mfa = FALSE /\ c2.pending = TRUE
  BY <1>3 DEF LoginFlowRecord
<1> HIDE DEF c2
<1>9. Placed(c2)
  BY <1>2, <1>7, <1>8 DEF Placed, Early
<1> QED BY <1>1, <1>5, <1>7, <1>8, <1>9

(* What /authorize makes of the session it read: a new sign-in; a flow for   *)
(* what the session owes; a refusal; or a code.                              *)
OpensSignIn(q) ==
    \E c \in LoginFlowRecord :
        /\ flows' = [flows EXCEPT ![q.f] = c] /\ codes' = codes
        /\ Placed(c) /\ c.stage \in {"Authenticate", "Register"} /\ c.attempts = 0
OpensOwing(q) ==
    \E c \in LoginFlowRecord :
        /\ flows' = [flows EXCEPT ![q.f] = c] /\ codes' = codes
        /\ Placed(c) /\ c.stage \in {"PasswordChange", "Mfa", "Consent"} /\ c.attempts = 0
        /\ q.s \in SsoSession /\ c.sid = q.sid /\ c.user = q.s.user
        /\ c.mfa => q.s.mfa
        /\ c.stage # "PasswordChange" => "PasswordChange" \notin acct[q.s.user].owes
IssuesCode(q) ==
    \E waived \in BOOLEAN, stepUp \in BOOLEAN :
        /\ Issue(q, waived, stepUp) /\ flows' = flows
        /\ q.s \in SsoSession /\ "PasswordChange" \notin acct[q.s.user].owes
        /\ \/ q.f \in AcrMfa \/ stepUp
           \/ q.s.user \in MfaUsers /\ ~ waived
           => q.s.mfa
        /\ q.f \notin ForceConsent
        /\ q.f \in SkipConsent \/ q.s.user \in consents

(* /authorize opens a sign-in, opens a flow for what is owed, issues a      *)
(* code to a session that owes nothing, or changes neither.                 *)
LEMMA DecideIs == ASSUME ShapeInv, NEW r \in Requests, Decide(r)
                  PROVE  \/ OpensSignIn(req[r]) \/ OpensOwing(req[r])
                         \/ flows' = flows /\ codes' = codes
                         \/ IssuesCode(req[r])
<1> DEFINE q == req[r]
<1>1. q.pc = "decide" /\ q \in RequestRecord /\ Shape(q)
  BY AtStep DEF Decide
<1>2. q.s \in SsoSession \cup {None} /\ (q.s # None => q.sid \in Sessions)
  BY <1>1 DEF RequestRecord, Shape, Last
<1>3. PICK risk \in RiskOf[q.f], prompt \in {"", "login", "create"} :
        LET owed == IF q.s = None \/ prompt # "" THEN "Nothing" ELSE UnfinishedStage(q.s, risk)
        IN  \/ /\ flows' = [flows EXCEPT ![q.f] = [NewFlow EXCEPT !.stage =
                                IF prompt = "create" THEN "Register" ELSE "Authenticate"]]
               /\ UNCHANGED codes
            \/ UNCHANGED <<flows, codes>>
            \/ /\ q.s # None /\ prompt = ""
               /\ \/ owed \in {"PasswordChange", "Mfa"}
                  \/ owed = "Nothing" /\ q.f \in AcrMfa /\ ~q.s.mfa
               /\ flows' = [flows EXCEPT ![q.f] =
                                Owing(q, IF owed = "Nothing" THEN "Mfa" ELSE owed)]
               /\ UNCHANGED codes
            \/ /\ q.s # None /\ prompt = "" /\ owed = "Nothing"
               /\ q.f \in AcrMfa => q.s.mfa
               /\ \/ flows' = [flows EXCEPT ![q.f] = Asking(q)] /\ UNCHANGED codes
                  \/ /\ q.f \notin ForceConsent /\ (q.f \in SkipConsent \/ q.s.user \in consents)
                     /\ Issue(q, device = q.s.user, risk = "step_up") /\ UNCHANGED flows
  BY ZenonT(40) DEF Decide, Owing, Asking, ForSession
<1> DEFINE owed == IF q.s = None \/ prompt # "" THEN "Nothing" ELSE UnfinishedStage(q.s, risk)
<1>4. q.s # None => q.s \in SsoSession /\ q.sid \in Sessions
  BY <1>2
<1>5. CASE flows' = [flows EXCEPT ![q.f] = [NewFlow EXCEPT !.stage =
                        IF prompt = "create" THEN "Register" ELSE "Authenticate"]]
           /\ UNCHANGED codes
  <2> DEFINE st == IF prompt = "create" THEN "Register" ELSE "Authenticate"
             c == [NewFlow EXCEPT !.stage = st]
  <2>1. st \in {"Register", "Authenticate"}
    OBVIOUS
  <2> HIDE DEF st
  <2>2. /\ c \in LoginFlowRecord /\ c.stage = st /\ c.sid = None /\ c.mfa = FALSE
        /\ c.pending = FALSE /\ c.attempts = 0
    BY <2>1, NewFlowIs DEF LoginFlowRecord, FlowStage
  <2>3. flows' = [flows EXCEPT ![q.f] = c] /\ codes' = codes
    BY <1>5 DEF st
  <2> HIDE DEF c
  <2>4. Placed(c) /\ c.stage \in {"Authenticate", "Register"}
    BY <2>1, <2>2 DEF Placed, Early
  <2> QED BY <2>2, <2>3, <2>4 DEF OpensSignIn
<1>6. CASE /\ q.s # None /\ prompt = ""
           /\ \/ owed \in {"PasswordChange", "Mfa"}
              \/ owed = "Nothing" /\ q.f \in AcrMfa /\ ~q.s.mfa
           /\ flows' = [flows EXCEPT ![q.f] = Owing(q, IF owed = "Nothing" THEN "Mfa" ELSE owed)]
           /\ UNCHANGED codes
  <2> DEFINE st == IF owed = "Nothing" THEN "Mfa" ELSE owed
             c == Owing(q, st)
  <2>1. owed = UnfinishedStage(q.s, risk)
    BY <1>6
  <2>2. /\ st \in {"PasswordChange", "Mfa"} /\ (st = "Mfa" => ~ q.s.mfa)
        /\ st # "PasswordChange" => "PasswordChange" \notin acct[q.s.user].owes
    BY <1>6, <2>1, UnfinishedIs
  <2>3. flows' = [flows EXCEPT ![q.f] = c] /\ codes' = codes
    BY <1>6
  <2> HIDE DEF st
  <2>4. /\ c \in LoginFlowRecord /\ Placed(c)
        /\ c.stage = st /\ c.sid = q.sid /\ c.user = q.s.user
        /\ c.attempts = 0 /\ c.mfa = q.s.mfa
    BY <1>1, <1>4, <1>6, <2>2, OwingIs
  <2> HIDE DEF c
  <2> QED BY <1>4, <1>6, <2>2, <2>3, <2>4 DEF OpensOwing
<1>7. CASE /\ q.s # None /\ prompt = "" /\ owed = "Nothing"
           /\ q.f \in AcrMfa => q.s.mfa
           /\ \/ flows' = [flows EXCEPT ![q.f] = Asking(q)] /\ UNCHANGED codes
              \/ /\ q.f \notin ForceConsent /\ (q.f \in SkipConsent \/ q.s.user \in consents)
                 /\ Issue(q, device = q.s.user, risk = "step_up") /\ UNCHANGED flows
  <2>1. owed = UnfinishedStage(q.s, risk)
    BY <1>7
  <2>2. /\ "PasswordChange" \notin acct[q.s.user].owes
        /\ risk = "step_up" => q.s.mfa
        /\ q.s.user \in MfaUsers /\ device # q.s.user => q.s.mfa
    BY <1>7, <2>1, UnfinishedIs
  <2>3. CASE flows' = [flows EXCEPT ![q.f] = Asking(q)] /\ UNCHANGED codes
    <3> DEFINE c == Asking(q)
    <3>1. flows' = [flows EXCEPT ![q.f] = c] /\ codes' = codes
      BY <2>3
    <3>2. /\ c \in LoginFlowRecord /\ Placed(c)
          /\ c.stage = "Consent" /\ c.sid = q.sid /\ c.user = q.s.user
          /\ c.attempts = 0 /\ c.mfa = FALSE
      BY <1>1, <1>4, <1>7, AskingIs
    <3> HIDE DEF c
    <3> QED BY <1>4, <1>7, <2>2, <3>1, <3>2 DEF OpensOwing
  <2>4. CASE /\ q.f \notin ForceConsent /\ (q.f \in SkipConsent \/ q.s.user \in consents)
             /\ Issue(q, device = q.s.user, risk = "step_up") /\ UNCHANGED flows
    <3> DEFINE waived == device = q.s.user
               stepUp == risk = "step_up"
    <3>1. /\ waived \in BOOLEAN /\ stepUp \in BOOLEAN /\ Issue(q, waived, stepUp)
          /\ flows' = flows
      BY <2>4
    <3>2. \/ q.f \in AcrMfa \/ stepUp
          \/ q.s.user \in MfaUsers /\ ~ waived
          => q.s.mfa
      BY <1>7, <2>2
    <3> HIDE DEF waived, stepUp
    <3> QED BY <1>4, <1>7, <2>2, <2>4, <3>1, <3>2 DEF IssuesCode
  <2> QED BY <1>7, <2>3, <2>4
<1> QED BY <1>3, <1>5, <1>6, <1>7
(* Every step keeps the shape of the records and the requests.               *)
LEMMA NextShape == ShapeInv /\ [Next]_vars => ShapeInv'
<1> SUFFICES ASSUME ShapeInv, [Next]_vars PROVE ShapeInv'
  OBVIOUS
<1>1. ASSUME NEW r \in Requests, NEW f \in Flows, StartMfa(r, f)
      PROVE ShapeInv'
  <2>1. flows[f] # None /\ Load(r, f, Request("mfa", "factor", f, flows[f]))
    BY <1>1 DEF StartMfa, At
  <2>2. /\ Request("mfa", "factor", f, flows[f]) \in RequestRecord
        /\ Shape(Request("mfa", "factor", f, flows[f]))
    BY <1>1, <2>1, LoadedShape DEF StartMfa, At, ShapeInv
  <2> QED BY <2>1, <2>2, LoadShape
<1>2. ASSUME NEW r \in Requests, NEW f \in Flows, StartAnswer(r, f)
      PROVE ShapeInv'
  <2>1. flows[f] # None /\ Load(r, f, Request("answer", "answer", f, flows[f]))
    BY <1>2 DEF StartAnswer, At
  <2>2. /\ Request("answer", "answer", f, flows[f]) \in RequestRecord
        /\ Shape(Request("answer", "answer", f, flows[f]))
    BY <1>2, <2>1, LoadedShape DEF StartAnswer, At, ShapeInv
  <2> QED BY <2>1, <2>2, LoadShape
<1>3. ASSUME NEW r \in Requests, NEW f \in Flows, StartOrganization(r, f)
      PROVE ShapeInv'
  <2>1. flows[f] # None /\ Load(r, f, Request("organization", "get", f, flows[f]))
    BY <1>3 DEF StartOrganization, At
  <2>2. /\ Request("organization", "get", f, flows[f]) \in RequestRecord
        /\ Shape(Request("organization", "get", f, flows[f]))
    BY <1>3, <2>1, LoadedShape DEF StartOrganization, At, ShapeInv
  <2> QED BY <2>1, <2>2, LoadShape
<1>4. ASSUME NEW r \in Requests, NEW f \in Flows, StartCancel(r, f)
      PROVE ShapeInv'
  <2>1. flows[f] # None /\ Load(r, f, Request("cancel", "delete", f, flows[f]))
    BY <1>4 DEF StartCancel, At
  <2>2. /\ Request("cancel", "delete", f, flows[f]) \in RequestRecord
        /\ Shape(Request("cancel", "delete", f, flows[f]))
    BY <1>4, <2>1, LoadedShape DEF StartCancel, At, ShapeInv
  <2> QED BY <2>1, <2>2, LoadShape
<1>5. ASSUME NEW r \in Requests, NEW f \in Flows, StartConsent(r, f)
      PROVE ShapeInv'
  <2>1. PICK pc \in {"consent", "delete"} : Load(r, f, Request("consent", pc, f, flows[f]))
    BY <1>5 DEF StartConsent
  <2>2. /\ Request("consent", pc, f, flows[f]) \in RequestRecord
        /\ Shape(Request("consent", pc, f, flows[f]))
    BY <1>5, LoadedShape DEF StartConsent, At, ShapeInv
  <2> QED BY <2>1, <2>2, LoadShape
<1>6. ASSUME NEW r \in Requests, NEW f \in Flows, Authorize(r, f)
      PROVE ShapeInv'
  <2> DEFINE q == Request("authorize", "decide", f, NewFlow)
             n == [q EXCEPT !.sid = Current, !.s = RecordOf(Current)]
  <2>6. q \in RequestRecord /\ q.op = "authorize" /\ q.pc = "decide" /\ q.f = f
    BY NewFlowIs DEF Request, RequestRecord
  <2>2. Begin(r, n) /\ used' = used \cup {f} /\ UNCHANGED <<flows, sess, rows, tracked, acct,
  consents, links, cookie, device, codes,
                              ended, crowded, raced, rushed, earned, approved, guesses, slips>>
    BY <1>6 DEF Authorize
  <2> HIDE DEF q
  <2>1. /\ n \in RequestRecord /\ n.op = "authorize" /\ n.pc = "decide" /\ n.f = f
        /\ n.sid = Current /\ n.s = RecordOf(Current)
    BY <2>6, WithSession DEF ShapeInv
  <2> HIDE DEF n
  <2>3. Shape(n)
    BY <2>1, CurrentRecord DEF Shape, Last, ShapeInv
  <2>4. req' \in [Requests -> RequestRecord \cup {Idle}] /\ RequestsShaped'
    BY <2>1, <2>2, <2>3, BeginShape DEF ShapeInv
  <2>5. FlowsPlaced'
    BY <2>2 DEF FlowsPlaced, ShapeInv
  <2> QED BY <2>2, <2>4, <2>5 DEF ShapeInv, TypeOK
<1>7. ASSUME NEW r \in Requests, NEW f \in Flows, NEW u \in Users, NEW m \in Methods,
             StartFirstFactor(r, f, u, m)
      PROVE ShapeInv'
  <2> DEFINE p == Request("first", "check", f, flows[f])
             q == SigningIn(p, u, m)
             n == [q EXCEPT !.sid = Current, !.s = RecordOf(Current)]
  <2>1. Load(r, f, n) /\ flows[f] # None /\ flows[f].stage = "Authenticate"
    BY <1>7 DEF StartFirstFactor, At, SigningIn
  <2>2. flows[f] \in LoginFlowRecord /\ Placed(flows[f])
    BY <2>1 DEF ShapeInv, TypeOK, FlowsPlaced
  <2>6. flows[f].user \in Users \cup {None}
    BY <2>2 DEF LoginFlowRecord
  <2>7. /\ p \in RequestRecord /\ p.op = "first" /\ p.pc = "check" /\ p.f = f /\ p.c = flows[f]
    BY <2>2, <2>6 DEF Request, RequestRecord
  <2> HIDE DEF p
  <2>3. /\ q \in RequestRecord /\ q.op = "first" /\ q.pc = "check" /\ q.f = f
        /\ q.c = flows[f] /\ q.u = u /\ q.method = m
    BY <2>7, SignInIs
  <2> HIDE DEF q
  <2>4. /\ n \in RequestRecord /\ n.op = "first" /\ n.pc = "check" /\ n.f = f
        /\ n.c = flows[f] /\ n.u = u /\ n.method = m
        /\ n.sid = Current /\ n.s = RecordOf(Current)
    BY <2>3, WithSession DEF ShapeInv
  <2> HIDE DEF n
  <2>5. Shape(n)
    BY <2>1, <2>2, <2>4, CurrentRecord DEF Shape, Last, ShapeInv, Placed, Early
  <2> QED BY <2>1, <2>4, <2>5, LoadShape
<1>8. ASSUME NEW r \in Requests, NEW f \in Flows, NEW u \in Users, StartRegister(r, f, u)
      PROVE ShapeInv'
  <2> DEFINE p == Request("signup", "register", f, flows[f])
             n == SigningIn(p, u, "pwd")
  <2>1. Load(r, f, n) /\ flows[f] # None /\ flows[f].stage \in Early
    BY <1>8 DEF StartRegister, At, Early, SigningIn
  <2>2. flows[f] \in LoginFlowRecord /\ Placed(flows[f])
    BY <2>1 DEF ShapeInv, TypeOK, FlowsPlaced
  <2>6. flows[f].user \in Users \cup {None}
    BY <2>2 DEF LoginFlowRecord
  <2>7. /\ p \in RequestRecord /\ p.op = "signup" /\ p.pc = "register" /\ p.f = f
        /\ p.c = flows[f] /\ p.s = None
    BY <2>2, <2>6 DEF Request, RequestRecord
  <2>8. "pwd" \in Methods
    BY DEF Methods
  <2> HIDE DEF p
  <2>3. /\ n \in RequestRecord /\ n.op = "signup" /\ n.pc = "register" /\ n.f = f
        /\ n.c = flows[f] /\ n.u = u /\ n.method = "pwd" /\ n.s = None
    BY <2>7, <2>8, SignInIs
  <2> HIDE DEF n
  <2>4. Shape(n)
    BY <2>1, <2>2, <2>3 DEF Shape, Last, Placed, Early, Methods
  <2> QED BY <2>1, <2>3, <2>4, LoadShape
<1>9. ASSUME NEW r \in Requests, NEW f \in Flows, StartFinish(r, f)
      PROVE ShapeInv'
  <2> DEFINE pc == IF flows[f].remember /\ ~flows[f].trusted THEN "store" ELSE "finish"
             q == Request("finish", pc, f, flows[f])
             n == [q EXCEPT !.sid = Current, !.s = RecordOf(Current)]
  <2>1. /\ Load(r, f, n) /\ flows[f] # None /\ flows[f].stage = "Done"
        /\ Current # None /\ Current = flows[f].sid /\ sess[Current].user = flows[f].user
    BY <1>9 DEF StartFinish, At
  <2>2. flows[f] \in LoginFlowRecord /\ Placed(flows[f])
    BY <2>1 DEF ShapeInv, TypeOK, FlowsPlaced
  <2>3. pc \in {"store", "finish"}
    OBVIOUS
  <2> HIDE DEF pc
  <2>8. flows[f].user \in Users \cup {None}
    BY <2>2 DEF LoginFlowRecord
  <2>4. /\ q \in RequestRecord /\ q.op = "finish" /\ q.pc = pc /\ q.f = f
        /\ q.c = flows[f] /\ q.u = flows[f].user
    BY <2>2, <2>3, <2>8 DEF Request, RequestRecord
  <2> HIDE DEF q
  <2>5. /\ n \in RequestRecord /\ n.op = "finish" /\ n.pc = pc /\ n.f = f
        /\ n.c = flows[f] /\ n.u = flows[f].user /\ n.sid = Current /\ n.s = RecordOf(Current)
    BY <2>4, WithSession DEF ShapeInv
  <2> HIDE DEF n
  <2>6. Current \in Sessions /\ RecordOf(Current) = sess[Current] /\ sess[Current] \in SsoSession
    BY <2>1, CurrentRecord DEF ShapeInv
  <2>7. Shape(n)
    BY <2>1, <2>2, <2>3, <2>5, <2>6 DEF Shape, Last, Placed, Early
  <2> QED BY <2>1, <2>5, <2>7, LoadShape
<1>10. ASSUME NEW r \in Requests, Touch(r)
       PROVE ShapeInv'
  <2> DEFINE q == Request("touch", "store", None, NewFlow)
             n == [q EXCEPT !.sid = Current, !.s = RecordOf(Current)]
  <2>1. /\ Begin(r, n) /\ Current # None
        /\ UNCHANGED <<flows, sess, rows, tracked, acct, consents, links, cookie, device, codes,
                       used, ended, crowded, raced, rushed, earned, approved, guesses, slips>>
    BY <1>10 DEF Touch
  <2>2. q \in RequestRecord /\ q.op = "touch" /\ q.pc = "store" /\ q.f = None
    BY NewFlowIs DEF Request, RequestRecord
  <2> HIDE DEF q
  <2>3. /\ n \in RequestRecord /\ n.op = "touch" /\ n.pc = "store" /\ n.f = None
        /\ n.sid = Current /\ n.s = RecordOf(Current)
    BY <2>2, WithSession DEF ShapeInv
  <2> HIDE DEF n
  <2>4. Current \in Sessions /\ RecordOf(Current) = sess[Current] /\ sess[Current] \in SsoSession
    BY <2>1, CurrentRecord DEF ShapeInv
  <2>5. Shape(n)
    BY <2>3, <2>4 DEF Shape, Last
  <2>6. req' \in [Requests -> RequestRecord \cup {Idle}] /\ RequestsShaped'
    BY <2>1, <2>3, <2>5, BeginShape DEF ShapeInv
  <2>7. FlowsPlaced'
    BY <2>1 DEF FlowsPlaced, ShapeInv
  <2> QED BY <2>1, <2>6, <2>7 DEF ShapeInv, TypeOK
<1>11. ASSUME NEW r \in Requests, NEW f \in Flows, NEW u \in Users, ConfirmEmail(r, f, u)
       PROVE ShapeInv'
  <2> DEFINE q == Request("signup", "resume", f, NewFlow)
             n == SigningIn(q, u, "otp")
  <2>1. /\ Begin(r, n) /\ links' \subseteq links
        /\ acct' = [acct EXCEPT ![u].status = IF @ = "pending" THEN "active" ELSE @]
        /\ UNCHANGED <<flows, sess, rows, tracked, consents, cookie, device, codes,
                       used, ended, crowded, raced, rushed, earned, approved, guesses, slips>>
    BY <1>11 DEF ConfirmEmail, SigningIn
  <2>2. q \in RequestRecord /\ q.op = "signup" /\ q.pc = "resume" /\ q.f = f
        /\ q.c = NewFlow /\ q.s = None
    BY NewFlowIs DEF Request, RequestRecord
  <2> HIDE DEF q
  <2>8. "otp" \in Methods
    BY DEF Methods
  <2>3. /\ n \in RequestRecord /\ n.op = "signup" /\ n.pc = "resume" /\ n.f = f
        /\ n.c = NewFlow /\ n.u = u /\ n.method = "otp" /\ n.s = None
    BY <2>2, <2>8, SignInIs
  <2> HIDE DEF n
  <2>4. Shape(n)
    BY <2>3, NewFlowIs DEF Shape, Last, Early, Methods
  <2>5. req' \in [Requests -> RequestRecord \cup {Idle}] /\ RequestsShaped'
    BY <2>1, <2>3, <2>4, BeginShape DEF ShapeInv
  <2>6. FlowsPlaced'
    BY <2>1 DEF FlowsPlaced, ShapeInv
  <2>7. acct' \in [Users -> Account]
    BY <2>1 DEF ShapeInv, TypeOK, Account
  <2> QED BY <2>1, <2>5, <2>6, <2>7 DEF ShapeInv, TypeOK
<1>12. ASSUME NEW r \in Requests, NEW s \in Sessions, Revoke(r, s)
       PROVE ShapeInv'
  <2> DEFINE q == Request("revoke", "mark", None, NewFlow)
             n1 == [q EXCEPT !.sid = s]
             n == [n1 EXCEPT !.s = sess[s]]
  <2>1. /\ Begin(r, n) /\ sess' = [sess EXCEPT ![s] = None] /\ raced' = RacedBy(r, {s})
        /\ UNCHANGED <<flows, rows, tracked, acct, consents, links, cookie, device, codes, used,
                       ended, crowded, rushed, earned, approved, guesses, slips>>
    BY <1>12 DEF Revoke
  <2>2. q \in RequestRecord /\ q.op = "revoke" /\ q.pc = "mark" /\ q.f = None
    BY NewFlowIs DEF Request, RequestRecord
  <2>3. sess[s] \in SsoSession \cup {None}
    BY DEF ShapeInv, TypeOK
  <2> HIDE DEF q
  <2>4. n1 \in RequestRecord
    BY <2>2 DEF RequestRecord
  <2>5. n \in RequestRecord
    <3> HIDE DEF n1
    <3> QED BY <2>3, <2>4 DEF RequestRecord
  <2>6. n.op = "revoke" /\ n.pc = "mark" /\ n.f = None /\ n.sid = s /\ n.s = sess[s]
    BY <2>2 DEF RequestRecord
  <2> HIDE DEF n
  <2>7. Shape(n)
    BY <2>6 DEF Shape, Last
  <2>8. req' \in [Requests -> RequestRecord \cup {Idle}] /\ RequestsShaped'
    BY <2>1, <2>5, <2>7, BeginShape DEF ShapeInv
  <2>9. FlowsPlaced'
    BY <2>1 DEF FlowsPlaced, ShapeInv
  <2>10. raced' \subseteq Sessions
    BY <2>1 DEF RacedBy, ShapeInv, TypeOK
  <2> QED BY <2>1, <2>8, <2>9, <2>10 DEF ShapeInv, TypeOK
<1>13. ASSUME NEW r \in Requests, NEW u \in Users, Disable(r, u)
       PROVE ShapeInv'
  <2> DEFINE q == Request("disable", "endAll", None, NewFlow)
             n == [q EXCEPT !.u = u]
  <2>1. /\ Begin(r, n) /\ acct' = [acct EXCEPT ![u].status = "disabled"]
        /\ UNCHANGED <<flows, sess, rows, tracked, consents, links, cookie, device, codes, used,
                       ended, crowded, raced, rushed, earned, approved, guesses, slips>>
    BY <1>13 DEF Disable
  <2>2. q \in RequestRecord /\ q.op = "disable" /\ q.pc = "endAll" /\ q.f = None /\ q.s = None
    BY NewFlowIs DEF Request, RequestRecord
  <2> HIDE DEF q
  <2>3. /\ n \in RequestRecord /\ n.op = "disable" /\ n.pc = "endAll" /\ n.f = None
        /\ n.s = None /\ n.u = u
    BY <2>2 DEF RequestRecord
  <2> HIDE DEF n
  <2>4. Shape(n)
    BY <2>3 DEF Shape, Last
  <2>5. req' \in [Requests -> RequestRecord \cup {Idle}] /\ RequestsShaped'
    BY <2>1, <2>3, <2>4, BeginShape DEF ShapeInv
  <2>6. FlowsPlaced'
    BY <2>1 DEF FlowsPlaced, ShapeInv
  <2>7. acct' \in [Users -> Account]
    BY <2>1, SMTT(30) DEF ShapeInv, TypeOK, Account
  <2> QED BY <2>1, <2>5, <2>6, <2>7 DEF ShapeInv, TypeOK
<1>14. ASSUME NEW r \in Requests, CheckPassword(r)
       PROVE ShapeInv'
  <2>1. req[r] \in RequestRecord /\ Shape(req[r])
    BY <1>14, AtStep DEF CheckPassword
  <2>2. UNCHANGED <<flows, sess, rows, tracked, acct, consents, links, cookie, device, codes,
                   used, ended, crowded, raced, rushed, earned, approved, guesses, slips>>
    BY <1>14 DEF CheckPassword
  <2>3. req' \in [Requests -> RequestRecord \cup {Idle}] /\ RequestsShaped'
    <3>1. req[r].pc = "check" /\ req[r].op = "first"
      BY <1>14, <2>1, OpOf DEF CheckPassword
    <3>2. \/ Goto(r, "attempts") \/ Goto(r, "reject")
          \/ Assessed(r, acct[req[r].u].owes \cap {"PasswordChange", "Expired"} # {})
      BY <1>14 DEF CheckPassword
    <3>3. ASSUME NEW pc \in {"attempts", "reject"}, Goto(r,
    pc) PROVE req' \in [Requests -> RequestRecord \cup {Idle}] /\ RequestsShaped'
      <4>1. pc \in Pcs
        BY DEF Pcs
      <4>2. Shape(MovedTo(req[r], pc))
        BY <2>1, <3>1, <4>1, Moved DEF Shape, Last
      <4> QED BY <3>1, <3>3, <4>1, <4>2, GotoShape DEF ShapeInv
    <3>4. CASE Assessed(r, acct[req[r].u].owes \cap {"PasswordChange", "Expired"} # {})
      <4> DEFINE must == acct[req[r].u].owes \cap {"PasswordChange", "Expired"} # {}
      <4>1. must \in BOOLEAN /\ Assessed(r, must)
        BY <3>4
      <4> HIDE DEF must
      <4> QED BY <3>1, <4>1, AssessedShape DEF Last
    <3> QED BY <3>2, <3>3, <3>4
  <2>4. flows' \in [Flows -> LoginFlowRecord \cup {None}] /\ FlowsPlaced'
    BY <2>2 DEF FlowsPlaced, ShapeInv, TypeOK
  <2> QED BY <2>2, <2>3, <2>4 DEF ShapeInv, TypeOK
<1>15. ASSUME NEW r \in Requests, CheckCode(r)
       PROVE ShapeInv'
  <2>1. req[r] \in RequestRecord /\ Shape(req[r])
    BY <1>15, AtStep DEF CheckCode
  <2>2. UNCHANGED <<flows, sess, rows, tracked, acct, consents, links, cookie, device, codes,
                   used, ended, crowded, raced, rushed, earned, approved, guesses, slips>>
    BY <1>15 DEF CheckCode
  <2>3. req' \in [Requests -> RequestRecord \cup {Idle}] /\ RequestsShaped'
    <3>1. req[r].pc = "check" /\ req[r].op = "first"
      BY <1>15, <2>1, OpOf DEF CheckCode
    <3>2. \/ Goto(r, "attempts") \/ Finished(r)
          \/ Assessed(r, "PasswordChange" \in acct[req[r].u].owes)
      BY <1>15 DEF CheckCode
    <3>3. CASE Goto(r, "attempts")
      <4>1. "attempts" \in Pcs
        BY DEF Pcs
      <4>2. Shape(MovedTo(req[r], "attempts"))
        BY <2>1, <3>1, <4>1, Moved DEF Shape, Last
      <4> QED BY <3>1, <3>3, <4>1, <4>2, GotoShape DEF ShapeInv
    <3>4. CASE Assessed(r, "PasswordChange" \in acct[req[r].u].owes)
      <4> DEFINE must == "PasswordChange" \in acct[req[r].u].owes
      <4>1. must \in BOOLEAN /\ Assessed(r, must)
        BY <3>4
      <4> HIDE DEF must
      <4> QED BY <3>1, <4>1, AssessedShape DEF Last
    <3> QED BY <3>2, <3>3, <3>4, ReqEnd DEF ShapeInv
  <2>4. flows' \in [Flows -> LoginFlowRecord \cup {None}] /\ FlowsPlaced'
    BY <2>2 DEF FlowsPlaced, ShapeInv, TypeOK
  <2> QED BY <2>2, <2>3, <2>4 DEF ShapeInv, TypeOK
<1>16. ASSUME NEW r \in Requests, RecordFailure(r)
       PROVE ShapeInv'
  <2>1. req[r] \in RequestRecord /\ Shape(req[r])
    BY <1>16, AtStep DEF RecordFailure
  <2>2. UNCHANGED <<flows, sess, rows, tracked, consents, links, cookie, device, codes, used,
                   ended, crowded, raced, rushed, earned, approved, guesses, slips>>
    BY <1>16 DEF RecordFailure
  <2>3. req' \in [Requests -> RequestRecord \cup {Idle}] /\ RequestsShaped'
    <3>1. Goto(r, "attempts") /\ "attempts" \in Pcs /\ req[r].pc # "idle"
      BY <1>16 DEF RecordFailure, Pcs
    <3>2. Shape(MovedTo(req[r], "attempts"))
      BY <1>16, <2>1, <3>1, OpOf, Moved DEF RecordFailure, Shape, Last
    <3> QED BY <3>1, <3>2, GotoShape DEF ShapeInv
  <2>4. flows' \in [Flows -> LoginFlowRecord \cup {None}] /\ FlowsPlaced'
    BY <2>2 DEF FlowsPlaced, ShapeInv, TypeOK
  <2>5. acct' \in [Users -> Account]
    <3> DEFINE u == req[r].u
               n == IF acct[u].failures >= MaxFailures THEN MaxFailures ELSE acct[u].failures + 1
               b == acct[u].locked \/ n >= MaxFailures
               a1 == [acct[u] EXCEPT !.failures = n]
               a == [a1 EXCEPT !.locked = b]
    <3>1. u \in Users
      BY <1>16, <2>1, OpOf DEF RecordFailure, Shape, Last
    <3>2. acct \in [Users -> Account] /\ acct[u] \in Account
      BY <3>1 DEF ShapeInv, TypeOK
    <3>3. n \in Nat /\ b \in BOOLEAN
      BY <3>2, BoundsAssumption DEF Account
    <3>4. acct' = [acct EXCEPT ![u] = a]
      BY <1>16, <3>1, <3>2 DEF RecordFailure, CountFailure, Account
    <3> HIDE DEF u, n, b
    <3>5. a1 \in Account
      BY <3>2, <3>3 DEF Account
    <3> HIDE DEF a1
    <3>6. a \in Account
      BY <3>3, <3>5 DEF Account
    <3> HIDE DEF a
    <3> QED BY <3>1, <3>2, <3>4, <3>6
  <2> QED BY <2>2, <2>3, <2>4, <2>5 DEF ShapeInv, TypeOK
<1>17. ASSUME NEW r \in Requests, SaveAttempts(r)
       PROVE ShapeInv'
  <2>1. req[r] \in RequestRecord /\ Shape(req[r])
    BY <1>17, AtStep DEF SaveAttempts
  <2>2. UNCHANGED <<sess, rows, tracked, acct, consents, links, cookie, device, codes, used,
                   ended, crowded, raced, rushed, earned, approved, guesses, slips>>
    BY <1>17 DEF SaveAttempts
  <2>3. req' \in [Requests -> RequestRecord \cup {Idle}] /\ RequestsShaped'
    BY <1>17, ReqEnd DEF SaveAttempts, ShapeInv
  <2>4. flows' \in [Flows -> LoginFlowRecord \cup {None}] /\ FlowsPlaced'
    <3> DEFINE c == [req[r].c EXCEPT !.attempts = @ + 1]
    <3>1. req[r].op = "first" /\ flows' = [flows EXCEPT ![req[r].f] = c]
      BY <1>17, <2>1, OpOf DEF SaveAttempts
    <3>2. req[r].f \in Flows /\ req[r].c \in LoginFlowRecord
      BY <2>1, <3>1 DEF Shape, Last, RequestRecord
    <3>3. /\ c \in LoginFlowRecord /\ c.stage = req[r].c.stage /\ c.sid = req[r].c.sid
          /\ c.mfa = req[r].c.mfa /\ c.pending = req[r].c.pending
      BY <3>2 DEF LoginFlowRecord
    <3>4. req[r].c.stage \in Early /\ ~ req[r].c.pending /\ req[r].c.sid = None /\ ~ req[r].c.mfa
      BY <1>17, <2>1, <3>1 DEF SaveAttempts, Shape, Last
    <3> HIDE DEF c
    <3>5. Placed(c)
      BY <3>3, <3>4 DEF Placed, Early
    <3> QED BY <3>1, <3>2, <3>3, <3>5, FlowStep DEF ShapeInv
  <2> QED BY <2>2, <2>3, <2>4 DEF ShapeInv, TypeOK
<1>18. ASSUME NEW r \in Requests, RecordSuccess(r)
       PROVE ShapeInv'
  <2>1. req[r] \in RequestRecord /\ Shape(req[r])
    BY <1>18, AtStep DEF RecordSuccess
  <2>2. UNCHANGED <<flows, sess, rows, tracked, consents, links, cookie, device, codes, used,
                   ended, crowded, raced, rushed, earned, approved, guesses, slips>>
    BY <1>18 DEF RecordSuccess
  <2>3. req' \in [Requests -> RequestRecord \cup {Idle}] /\ RequestsShaped'
    <3>1. Goto(r, "open") /\ "open" \in Pcs /\ req[r].pc # "idle"
      BY <1>18 DEF RecordSuccess, Pcs
    <3>2. Shape(MovedTo(req[r], "open"))
      BY <1>18, <2>1, <3>1, OpOf, Moved DEF RecordSuccess, Shape, Last
    <3> QED BY <3>1, <3>2, GotoShape DEF ShapeInv
  <2>4. flows' \in [Flows -> LoginFlowRecord \cup {None}] /\ FlowsPlaced'
    BY <2>2 DEF FlowsPlaced, ShapeInv, TypeOK
  <2>5. acct' \in [Users -> Account]
    BY <1>18, <2>1, OpOf, SMTT(30) DEF RecordSuccess, ShapeInv, TypeOK, Account, Shape, Last
  <2> QED BY <2>2, <2>3, <2>4, <2>5 DEF ShapeInv, TypeOK
<1>19. ASSUME NEW r \in Requests, ReauthSession(r)
       PROVE ShapeInv'
  <2>1. req[r] \in RequestRecord /\ Shape(req[r])
    BY <1>19, AtStep DEF ReauthSession
  <2>2. UNCHANGED <<flows, rows, tracked, acct, consents, links, cookie, device, codes, used,
                   ended, crowded, raced, rushed, approved, guesses, slips>>
    BY <1>19 DEF ReauthSession
  <2>3. req' \in [Requests -> RequestRecord \cup {Idle}] /\ RequestsShaped'
    <3>1. /\ req[r].op \in {"first", "signup"} /\ req[r].pc = "open" /\ req[r].s # None
          /\ req' = [req EXCEPT ![r] = SignedIn(req[r], req[r].sid)]
      BY <1>19, <2>1, OpOf DEF ReauthSession, ReusesSession
    <3>2. req[r].sid \in Sessions
      BY <2>1, <3>1 DEF Shape, Last
    <3> QED BY <2>1, <3>1, <3>2, SignedInShape, ReqStep DEF ShapeInv
  <2>4. flows' \in [Flows -> LoginFlowRecord \cup {None}] /\ FlowsPlaced'
    BY <2>2 DEF FlowsPlaced, ShapeInv, TypeOK
  <2>5. /\ req[r].pc = "open" /\ req[r].s # None /\ req[r].sid \in Sessions
        /\ req[r].u \in Users
    BY <1>19, <2>1, OpOf DEF ReauthSession, ReusesSession, Shape, Last
  <2>6. sess' \in [Sessions -> SsoSession \cup {None}]
    <3> DEFINE m == req[r].method = "passkey"
               x == [req[r].s EXCEPT !.mfa = m]
    <3>1. m \in BOOLEAN /\ req[r].s \in SsoSession
      BY <2>1, <2>5 DEF RequestRecord
    <3>2. sess' = [sess EXCEPT ![req[r].sid] = x]
      BY <1>19 DEF ReauthSession
    <3> HIDE DEF m
    <3>3. x \in SsoSession
      BY <3>1 DEF SsoSession
    <3> HIDE DEF x
    <3> QED BY <2>5, <3>2, <3>3 DEF ShapeInv, TypeOK
  <2>7. earned' \subseteq Sessions \X Users
    BY <1>19, <2>5 DEF ReauthSession, Earn, ShapeInv, TypeOK
  <2> QED BY <2>2, <2>3, <2>4, <2>5, <2>6, <2>7 DEF ShapeInv, TypeOK
<1>20. ASSUME NEW r \in Requests, EvictOldest(r)
       PROVE ShapeInv'
  <2>1. req[r] \in RequestRecord /\ Shape(req[r])
    BY <1>20, AtStep DEF EvictOldest
  <2>2. UNCHANGED <<flows, acct, consents, links, cookie, device, codes, used, ended, crowded,
                   earned, approved, guesses, slips>>
    BY <1>20 DEF EvictOldest
  <2>3. req' \in [Requests -> RequestRecord \cup {Idle}] /\ RequestsShaped'
    <3>1. req[r].pc = "open" /\ req' = [req EXCEPT ![r] = Cleared(req[r])]
      BY <1>20 DEF EvictOldest, Cleared
    <3> QED BY <2>1, <3>1, ClearedShape, ReqStep DEF ShapeInv
  <2>4. flows' \in [Flows -> LoginFlowRecord \cup {None}] /\ FlowsPlaced'
    BY <2>2 DEF FlowsPlaced, ShapeInv, TypeOK
  <2>5. rushed' \subseteq Users
    BY <1>20, <2>1, OpOf DEF EvictOldest, Shape, Last, ShapeInv, TypeOK
  <2>6. /\ sess' \in [Sessions -> SsoSession \cup {None}] /\ tracked' \subseteq Sessions
        /\ rows' \in [Sessions -> {"none", "live", "revoked"}]
    BY <1>20 DEF EvictOldest, EndAll, ShapeInv, TypeOK
  <2>7. raced' \subseteq Sessions
    BY <1>20 DEF EvictOldest, EndAll, RacedBy, Excess, LiveOf, ShapeInv, TypeOK
  <2> QED BY <2>2, <2>3, <2>4, <2>5, <2>6, <2>7 DEF ShapeInv, TypeOK
<1>21. ASSUME NEW r \in Requests, CreateSession(r)
       PROVE ShapeInv'
  <2> DEFINE sid == Cardinality({s \in Sessions : rows[s] # "none"}) + 1
             m == req[r].method = "passkey"
             x == [user |-> req[r].u, mfa |-> m, org |-> FALSE]
  <2>1. req[r] \in RequestRecord /\ Shape(req[r])
    BY <1>21, AtStep DEF CreateSession
  <2>2. UNCHANGED <<flows, acct, consents, links, cookie, device, codes, used, ended, crowded,
                   raced, rushed, approved, guesses, lingering, unaware>>
    BY <1>21 DEF CreateSession
  <2>3. /\ req[r].pc = "create" /\ sid \in Sessions
        /\ rows' = [rows EXCEPT ![sid] = "live"] /\ Earn(req[r], sid)
        /\ \/ /\ sess' = [sess EXCEPT ![sid] = x] /\ tracked' = tracked \cup {sid}
              /\ req' = [req EXCEPT ![r] = SignedIn(req[r], sid)] /\ halfway' = halfway
           \/ /\ sess' \in {sess, [sess EXCEPT ![sid] = x]} /\ tracked' = tracked
              /\ Finished(r) /\ halfway' = halfway \cup {sid}
    BY <1>21 DEF CreateSession
  <2>4. flows' \in [Flows -> LoginFlowRecord \cup {None}] /\ FlowsPlaced'
    BY <2>2 DEF FlowsPlaced, ShapeInv, TypeOK
  <2>5. req[r].u \in Users /\ req[r].op \in {"first", "signup"} /\ m \in BOOLEAN
    BY <2>1, <2>3, OpOf DEF Shape, Last
  <2> HIDE DEF sid, m
  <2>6. x \in SsoSession
    BY <2>5 DEF SsoSession
  <2> HIDE DEF x
  <2>7. req' \in [Requests -> RequestRecord \cup {Idle}] /\ RequestsShaped'
    BY <2>1, <2>3, <2>5, SignedInShape, ReqStep, ReqEnd DEF ShapeInv, Last
  <2>8. /\ sess' \in [Sessions -> SsoSession \cup {None}] /\ tracked' \subseteq Sessions
        /\ rows' \in [Sessions -> {"none", "live", "revoked"}] /\ halfway' \subseteq Sessions
    BY <2>3, <2>6 DEF ShapeInv, TypeOK
  <2>9. earned' \subseteq Sessions \X Users
    BY <2>3, <2>5 DEF Earn, ShapeInv, TypeOK
  <2> QED BY <2>2, <2>4, <2>7, <2>8, <2>9 DEF ShapeInv, TypeOK
<1>22. ASSUME NEW r \in Requests, SaveFlow(r)
       PROVE ShapeInv'
  <2>1. req[r] \in RequestRecord /\ Shape(req[r])
    BY <1>22, AtStep DEF SaveFlow
  <2>2. UNCHANGED <<sess, rows, tracked, acct, consents, links, device, codes, used, ended, crowded,
                   raced, rushed, earned, approved, guesses, slips>>
    BY <1>22 DEF SaveFlow
  <2>3. req' \in [Requests -> RequestRecord \cup {Idle}] /\ RequestsShaped'
    BY <1>22, ReqEnd DEF SaveFlow, ShapeInv
  <2>5. req[r].c \in LoginFlowRecord /\ req[r].c.sid \in Sessions /\ req[r].c.user \in Users
        /\ ~ req[r].c.pending
    BY <1>22, <2>1, OpOf DEF SaveFlow, Shape, Last, RequestRecord
  <2>4. flows' \in [Flows -> LoginFlowRecord \cup {None}] /\ FlowsPlaced'
    <3>1. req[r].f \in Flows /\ flows' = [flows EXCEPT ![req[r].f] = Advance(req[r].f, req[r].c,
    req[r].must)]
      BY <1>22, <2>1, OpOf DEF SaveFlow, Shape, Last
    <3> DEFINE a == Advance(req[r].f, req[r].c, req[r].must)
    <3>2. a \in LoginFlowRecord /\ Placed(a)
      BY <2>5, AdvanceShape
    <3>3. flows' = [flows EXCEPT ![req[r].f] = a]
      BY <3>1
    <3> HIDE DEF a
    <3> QED BY <3>1, <3>2, <3>3, FlowStep DEF ShapeInv
  <2>7. cookie' \in Sessions \cup {None}
    BY <1>22, <2>1 DEF SaveFlow, ShapeInv, TypeOK, RequestRecord
  <2> QED BY <2>2, <2>3, <2>4, <2>7 DEF ShapeInv, TypeOK
<1>23. ASSUME NEW r \in Requests, DeleteFlow(r)
       PROVE ShapeInv'
  <2>1. req[r] \in RequestRecord /\ Shape(req[r])
    BY <1>23, AtStep DEF DeleteFlow
  <2>2. UNCHANGED <<sess, rows, tracked, acct, consents, links, cookie, device, codes, used,
                   crowded, raced, rushed, earned, approved, guesses, halfway, unaware>>
    BY <1>23 DEF DeleteFlow
  <2>3. req' \in [Requests -> RequestRecord \cup {Idle}] /\ RequestsShaped'
    BY <1>23, ReqEnd DEF DeleteFlow, ShapeInv
  <2>5. req[r].f \in Flows
    BY <1>23, <2>1, OpOf DEF DeleteFlow, Shape, Last
  <2>6. Deletes(req[r].f) \/ FailsToDelete(req[r].f)
    BY <1>23 DEF DeleteFlow
  <2> QED BY <2>2, <2>3, <2>5, <2>6, DiscardShape DEF ShapeInv, TypeOK
<1>24. ASSUME NEW r \in Requests, RegisterUser(r)
       PROVE ShapeInv'
  <2>1. req[r] \in RequestRecord /\ Shape(req[r])
    BY <1>24, AtStep DEF RegisterUser
  <2>2. UNCHANGED <<flows, sess, rows, tracked, consents, cookie, device, codes, used, ended,
                   crowded, raced, rushed, earned, approved, guesses, slips>>
    BY <1>24 DEF RegisterUser
  <2>3. req' \in [Requests -> RequestRecord \cup {Idle}] /\ RequestsShaped'
    <3>1. req[r].pc = "register" /\ req[r].op = "signup"
      BY <1>24, <2>1, OpOf DEF RegisterUser
    <3>2. \/ Goto(r, "pending") \/ Finished(r) \/ Assessed(r, FALSE)
      BY <1>24 DEF RegisterUser
    <3>3. CASE Goto(r, "pending")
      <4>1. "pending" \in Pcs
        BY DEF Pcs
      <4>2. Shape(MovedTo(req[r], "pending"))
        BY <2>1, <3>1, <4>1, Moved DEF Shape, Last
      <4> QED BY <3>1, <3>3, <4>1, <4>2, GotoShape DEF ShapeInv
    <3>4. ASSUME NEW must \in BOOLEAN, Assessed(r,
    must) PROVE req' \in [Requests -> RequestRecord \cup {Idle}] /\ RequestsShaped'
      BY <3>1, <3>4, AssessedShape DEF Last
    <3> QED BY <3>2, <3>3, <3>4, ReqEnd DEF ShapeInv
  <2>4. flows' \in [Flows -> LoginFlowRecord \cup {None}] /\ FlowsPlaced'
    BY <2>2 DEF FlowsPlaced, ShapeInv, TypeOK
  <2>5. req[r].u \in Users /\ req[r].f \in Flows
    BY <1>24, <2>1, OpOf DEF RegisterUser, Shape, Last
  <2>8. \/ acct' = acct /\ links' = links
        \/ acct' = [acct EXCEPT ![req[r].u].status = "active"] /\ links' = links
        \/ /\ acct' = [acct EXCEPT ![req[r].u].status = "pending"]
           /\ links' = links \cup {<<req[r].f, req[r].u>>}
    BY <1>24 DEF RegisterUser
  <2>6. acct' \in [Users -> Account]
    BY <2>5, <2>8, SMTT(30) DEF ShapeInv, TypeOK, Account
  <2>7. links' \subseteq Flows \X Users
    BY <2>5, <2>8 DEF ShapeInv, TypeOK
  <2> QED BY <2>2, <2>3, <2>4, <2>5, <2>8, <2>6, <2>7 DEF ShapeInv, TypeOK
<1>25. ASSUME NEW r \in Requests, SavePending(r)
       PROVE ShapeInv'
  <2>1. req[r] \in RequestRecord /\ Shape(req[r])
    BY <1>25, AtStep DEF SavePending
  <2>2. UNCHANGED <<sess, rows, tracked, acct, consents, links, cookie, device, codes, used,
                   ended, crowded, raced, rushed, earned, approved, guesses, slips>>
    BY <1>25 DEF SavePending
  <2>3. req' \in [Requests -> RequestRecord \cup {Idle}] /\ RequestsShaped'
    BY <1>25, ReqEnd DEF SavePending, ShapeInv
  <2>4. flows' \in [Flows -> LoginFlowRecord \cup {None}] /\ FlowsPlaced'
    <3> DEFINE c1 == [req[r].c EXCEPT !.user = req[r].u]
               c == [c1 EXCEPT !.stage = "VerifyEmail"]
    <3>1. req[r].op = "signup" /\ flows' = [flows EXCEPT ![req[r].f] = c]
      BY <1>25, <2>1, OpOf DEF SavePending
    <3>2. req[r].f \in Flows /\ req[r].c \in LoginFlowRecord /\ req[r].u \in Users
      BY <2>1, <3>1 DEF Shape, Last, RequestRecord
    <3>3. c1 \in LoginFlowRecord
      BY <3>2 DEF LoginFlowRecord
    <3>4. c \in LoginFlowRecord
      <4> HIDE DEF c1
      <4> QED BY <3>3 DEF LoginFlowRecord, FlowStage
    <3>5. /\ c.stage = "VerifyEmail" /\ c.sid = req[r].c.sid
          /\ c.mfa = req[r].c.mfa /\ c.pending = req[r].c.pending
      BY <3>2 DEF LoginFlowRecord
    <3>6. ~ req[r].c.pending /\ req[r].c.sid = None /\ ~ req[r].c.mfa
      BY <1>25, <2>1, <3>1 DEF SavePending, Shape, Last
    <3> HIDE DEF c
    <3>7. Placed(c)
      BY <3>5, <3>6 DEF Placed, Early
    <3> QED BY <3>1, <3>2, <3>4, <3>7, FlowStep DEF ShapeInv
  <2> QED BY <2>2, <2>3, <2>4 DEF ShapeInv, TypeOK
<1>26. ASSUME NEW r \in Requests, ResumeAfterVerification(r)
       PROVE ShapeInv'
  <2>1. req[r] \in RequestRecord /\ Shape(req[r])
    BY <1>26, AtStep DEF ResumeAfterVerification
  <2>2. UNCHANGED <<flows, sess, rows, tracked, acct, consents, links, cookie, device, codes,
                   used, ended, raced, rushed, earned, approved, guesses, slips>>
    BY <1>26 DEF ResumeAfterVerification
  <2>3. req' \in [Requests -> RequestRecord \cup {Idle}] /\ RequestsShaped'
    <3>1. req[r].pc = "resume"
      BY <1>26 DEF ResumeAfterVerification
    <3>2. CASE Finished(r)
      BY <3>2, ReqEnd DEF ShapeInv
    <3>3. CASE At(req[r].f, {"VerifyEmail"}) /\
               \E risk : req' = [req EXCEPT ![r] = Resumed(req[r], risk, flows[req[r].f])]
      <4>1. /\ flows[req[r].f] \in LoginFlowRecord /\ Placed(flows[req[r].f])
            /\ flows[req[r].f].stage = "VerifyEmail"
        BY <2>1, <3>1, <3>3, OpOf DEF At, Shape, Last, ShapeInv, TypeOK, FlowsPlaced
      <4>2. PICK risk : req' = [req EXCEPT ![r] = Resumed(req[r], risk, flows[req[r].f])]
        BY <3>3
      <4> DEFINE n == Resumed(req[r], risk, flows[req[r].f])
      <4>3. n \in RequestRecord /\ Shape(n)
        BY <2>1, <3>1, <4>1, ResumedShape
      <4>4. req' = [req EXCEPT ![r] = n]
        BY <4>2
      <4> HIDE DEF n
      <4> QED BY <4>3, <4>4, ReqStep DEF ShapeInv
    <3> QED BY <1>26, <3>2, <3>3 DEF ResumeAfterVerification, Resumed
  <2>4. flows' \in [Flows -> LoginFlowRecord \cup {None}] /\ FlowsPlaced'
    BY <2>2 DEF FlowsPlaced, ShapeInv, TypeOK
  <2>5. crowded' \subseteq Flows
    <3>1. req[r].f \in Flows /\ crowded \subseteq Flows
      BY <1>26, <2>1, OpOf DEF ResumeAfterVerification, Shape, ShapeInv, TypeOK
    <3>2. crowded' = crowded \/ crowded' = crowded \cup {req[r].f}
      BY <1>26 DEF ResumeAfterVerification
    <3> QED BY <3>1, <3>2
  <2> QED BY <2>2, <2>3, <2>4, <2>5 DEF ShapeInv, TypeOK
<1>27. ASSUME NEW r \in Requests, CheckFactor(r)
       PROVE ShapeInv'
  <2>1. req[r] \in RequestRecord /\ Shape(req[r])
    BY <1>27, AtStep DEF CheckFactor
  <2>2. UNCHANGED <<flows, sess, rows, tracked, acct, consents, links, cookie, device, codes,
                   used, ended, crowded, raced, rushed, earned, approved, slips>>
    BY <1>27 DEF CheckFactor
  <2>3. req' \in [Requests -> RequestRecord \cup {Idle}] /\ RequestsShaped'
    <3>1. req[r].pc = "factor" /\ req[r].op = "mfa"
      BY <1>27, <2>1, OpOf DEF CheckFactor
    <3>2. Finished(r) \/ Goto(r, "get") \/ Goto(r, "mfaReject")
      BY <1>27 DEF CheckFactor
    <3>3. ASSUME NEW pc \in {"get", "mfaReject"}, Goto(r,
    pc) PROVE req' \in [Requests -> RequestRecord \cup {Idle}] /\ RequestsShaped'
      <4>1. pc \in Pcs
        BY DEF Pcs
      <4>2. Shape(MovedTo(req[r], pc))
        BY <2>1, <3>1, <4>1, Moved DEF Shape, Last
      <4> QED BY <3>1, <3>3, <4>1, <4>2, GotoShape DEF ShapeInv
    <3> QED BY <3>2, <3>3, ReqEnd DEF ShapeInv
  <2>4. flows' \in [Flows -> LoginFlowRecord \cup {None}] /\ FlowsPlaced'
    BY <2>2 DEF FlowsPlaced, ShapeInv, TypeOK
  <2>5. guesses' \in [Flows -> Nat]
    BY <1>27, <2>1, OpOf DEF CheckFactor, Shape, Last, ShapeInv, TypeOK
  <2> QED BY <2>2, <2>3, <2>4, <2>5 DEF ShapeInv, TypeOK
<1>28. ASSUME NEW r \in Requests, MfaReject(r)
       PROVE ShapeInv'
  <2>1. req[r] \in RequestRecord /\ Shape(req[r])
    BY <1>28, AtStep DEF MfaReject
  <2>2. UNCHANGED <<sess, rows, tracked, acct, consents, links, cookie, device, codes, used,
                   crowded, raced, rushed, earned, approved, guesses, slips>>
    BY <1>28 DEF MfaReject
  <2>3. req' \in [Requests -> RequestRecord \cup {Idle}] /\ RequestsShaped'
    BY <1>28, ReqEnd DEF MfaReject, ShapeInv
  <2>5. req[r].f \in Flows /\ req[r].c \in LoginFlowRecord
    BY <1>28, <2>1, OpOf DEF MfaReject, Shape, Last, RequestRecord
  <2>4. flows' \in [Flows -> LoginFlowRecord \cup {None}] /\ FlowsPlaced'
    <3> DEFINE c == [req[r].c EXCEPT !.attempts = @ + 1]
    <3>1. flows' = [flows EXCEPT ![req[r].f] = c] \/ flows' = [flows EXCEPT ![req[r].f] = None]
      BY <1>28 DEF MfaReject
    <3>3. /\ c \in LoginFlowRecord /\ c.stage = req[r].c.stage /\ c.sid = req[r].c.sid
          /\ c.user = req[r].c.user /\ c.mfa = req[r].c.mfa /\ c.pending = req[r].c.pending
      BY <2>5 DEF LoginFlowRecord
    <3>4. /\ req[r].c.stage = "Mfa" /\ ~ req[r].c.pending /\ req[r].c.sid \in Sessions
          /\ req[r].c.user \in Users /\ ~ req[r].c.mfa
      BY <1>28, <2>1, OpOf DEF MfaReject, Shape, Last
    <3> HIDE DEF c
    <3>5. Placed(c)
      BY <3>3, <3>4 DEF Placed, Early
    <3> QED BY <2>5, <3>1, <3>3, <3>5, FlowStep DEF ShapeInv
  <2>6. ended' \subseteq Flows
    BY <1>28, <2>5 DEF MfaReject, ShapeInv, TypeOK
  <2> QED BY <2>2, <2>3, <2>4, <2>6 DEF ShapeInv, TypeOK
<1>29. ASSUME NEW r \in Requests, GetSession(r)
       PROVE ShapeInv'
  <2>1. req[r] \in RequestRecord /\ Shape(req[r])
    BY <1>29, AtStep DEF GetSession
  <2>2. UNCHANGED <<flows, sess, rows, tracked, acct, consents, links, cookie, device, codes,
                   used, ended, crowded, raced, rushed, earned, approved, guesses, slips>>
    BY <1>29 DEF GetSession
  <2>3. req' \in [Requests -> RequestRecord \cup {Idle}] /\ RequestsShaped'
    <3> DEFINE s == sess[req[r].c.sid]
    <3>1. req[r].pc = "get" /\ req[r].op \in {"mfa", "organization"}
      BY <1>29, <2>1, OpOf DEF GetSession
    <3>2. \/ /\ s # None /\ (req[r].op = "mfa" => s.user = req[r].u)
             /\ req' = [req EXCEPT ![r] = Fetched(req[r], s)]
          \/ Finished(r)
          \/ req[r].op = "organization" /\ req' = [req EXCEPT ![r] = Bound(req[r])]
      BY <1>29 DEF GetSession, Fetched, Bound
    <3>3. s \in SsoSession \cup {None}
      BY <2>1, <3>1 DEF Shape, Last, ShapeInv, TypeOK
    <3> HIDE DEF s
    <3>4. CASE /\ s # None /\ (req[r].op = "mfa" => s.user = req[r].u)
               /\ req' = [req EXCEPT ![r] = Fetched(req[r], s)]
      BY <2>1, <3>1, <3>3, <3>4, FetchedShape, ReqStep DEF ShapeInv
    <3>5. CASE req[r].op = "organization" /\ req' = [req EXCEPT ![r] = Bound(req[r])]
      BY <2>1, <3>5, BoundShape, ReqStep DEF ShapeInv
    <3> QED BY <3>2, <3>4, <3>5, ReqEnd DEF ShapeInv
  <2>4. flows' \in [Flows -> LoginFlowRecord \cup {None}] /\ FlowsPlaced'
    BY <2>2 DEF FlowsPlaced, ShapeInv, TypeOK
  <2> QED BY <2>2, <2>3, <2>4 DEF ShapeInv, TypeOK
<1>30. ASSUME NEW r \in Requests, StoreSession(r)
       PROVE ShapeInv'
  <2>1. req[r] \in RequestRecord /\ Shape(req[r])
    BY <1>30, AtStep DEF StoreSession
  <2>2. UNCHANGED <<flows, rows, tracked, acct, consents, links, cookie, codes, used, ended,
                   crowded, raced, rushed, approved, guesses, slips>>
    BY <1>30 DEF StoreSession
  <2>5. req[r].pc = "store" /\ req[r].s \in SsoSession /\ req[r].sid \in Sessions
    BY <1>30, <2>1 DEF StoreSession, Shape, Last
  <2>3. req' \in [Requests -> RequestRecord \cup {Idle}] /\ RequestsShaped'
    <3>1. \/ req[r].op = "mfa" /\ req' = [req EXCEPT ![r] = Passed(req[r])]
          \/ req[r].op = "organization" /\ req' = [req EXCEPT ![r] = Bound(req[r])]
          \/ req[r].op = "finish" /\ Goto(r, "finish")
          \/ Finished(r)
      BY <1>30 DEF StoreSession, Passed, Bound
    <3>2. CASE req[r].op = "mfa" /\ req' = [req EXCEPT ![r] = Passed(req[r])]
      BY <2>1, <2>5, <3>2, PassedShape, ReqStep DEF ShapeInv
    <3>3. CASE req[r].op = "organization" /\ req' = [req EXCEPT ![r] = Bound(req[r])]
      BY <2>1, <3>3, BoundShape, ReqStep DEF ShapeInv
    <3>4. CASE req[r].op = "finish" /\ Goto(r, "finish")
      <4>1. "finish" \in Pcs
        BY DEF Pcs
      <4>2. Shape(MovedTo(req[r], "finish"))
        BY <2>1, <3>4, <4>1, Moved DEF Shape, Last
      <4> QED BY <2>5, <3>4, <4>1, <4>2, GotoShape DEF ShapeInv
    <3> QED BY <3>1, <3>2, <3>3, <3>4, ReqEnd DEF ShapeInv
  <2>4. flows' \in [Flows -> LoginFlowRecord \cup {None}] /\ FlowsPlaced'
    BY <2>2 DEF FlowsPlaced, ShapeInv, TypeOK
  <2>6. sess' \in [Sessions -> SsoSession \cup {None}]
    <3>1. PICK x \in SsoSession : sess' = [sess EXCEPT ![req[r].sid] = x]
      BY <1>30, <2>5 DEF StoreSession, SsoSession
    <3> QED BY <2>5, <3>1 DEF ShapeInv, TypeOK
  <2>7. device' \in Users \cup {None}
    BY <1>30, <2>5 DEF StoreSession, SsoSession, ShapeInv, TypeOK
  <2>8. earned' \subseteq Sessions \X Users
    BY <1>30, <2>1, <2>5 DEF StoreSession, Shape, Last, ShapeInv, TypeOK
  <2> QED BY <2>2, <2>3, <2>4, <2>6, <2>7, <2>8 DEF ShapeInv, TypeOK
<1>31. ASSUME NEW r \in Requests, WriteAnswer(r)
       PROVE ShapeInv'
  <2>1. req[r] \in RequestRecord /\ Shape(req[r])
    BY <1>31, AtStep DEF WriteAnswer
  <2>2. UNCHANGED <<flows, sess, rows, tracked, consents, links, cookie, device, codes, used,
                   ended, crowded, raced, rushed, earned, approved, guesses, slips>>
    BY <1>31 DEF WriteAnswer
  <2>3. req' \in [Requests -> RequestRecord \cup {Idle}] /\ RequestsShaped'
    <3>1. Goto(r, "save") /\ "save" \in Pcs /\ req[r].pc # "idle"
      BY <1>31 DEF WriteAnswer, Pcs
    <3>2. Shape(MovedTo(req[r], "save"))
      BY <1>31, <2>1, <3>1, OpOf, Moved DEF WriteAnswer, Shape, Last
    <3> QED BY <3>1, <3>2, GotoShape DEF ShapeInv
  <2>4. flows' \in [Flows -> LoginFlowRecord \cup {None}] /\ FlowsPlaced'
    BY <2>2 DEF FlowsPlaced, ShapeInv, TypeOK
  <2>5. acct' \in [Users -> Account]
    <3> DEFINE u == req[r].u
               paid == IF req[r].c.stage = "PasswordChange" THEN {"PasswordChange", "Expired"}
                       ELSE {req[r].c.stage}
               a == [acct[u] EXCEPT !.owes = @ \ paid]
    <3>1. u \in Users
      BY <1>31, <2>1, OpOf DEF WriteAnswer, Shape, Last
    <3>2. acct \in [Users -> Account] /\ acct[u] \in Account
      BY <3>1 DEF ShapeInv, TypeOK
    <3>3. acct' = [acct EXCEPT ![u] = a]
      BY <1>31 DEF WriteAnswer
    <3> HIDE DEF paid, u
    <3>4. a \in Account
      BY <3>2 DEF Account
    <3> HIDE DEF a
    <3> QED BY <3>1, <3>2, <3>3, <3>4
  <2> QED BY <2>2, <2>3, <2>4, <2>5 DEF ShapeInv, TypeOK
<1>32. ASSUME NEW r \in Requests, GrantConsent(r)
       PROVE ShapeInv'
  <2>1. req[r] \in RequestRecord /\ Shape(req[r])
    BY <1>32, AtStep DEF GrantConsent
  <2>2. UNCHANGED <<flows, sess, rows, tracked, acct, links, cookie, device, codes, used,
                   ended, crowded, raced, rushed, earned, guesses, slips>>
    BY <1>32 DEF GrantConsent
  <2>5. req[r].op = "consent"
    BY <1>32, <2>1, OpOf DEF GrantConsent
  <2>3. req' \in [Requests -> RequestRecord \cup {Idle}] /\ RequestsShaped'
    BY <1>32, <2>1, <2>5, ConsentedShape, ReqStep DEF GrantConsent, Consented, ShapeInv
  <2>4. flows' \in [Flows -> LoginFlowRecord \cup {None}] /\ FlowsPlaced'
    BY <2>2 DEF FlowsPlaced, ShapeInv, TypeOK
  <2>6. consents' \subseteq Users /\ approved' \subseteq Flows
    BY <1>32, <2>1, <2>5 DEF GrantConsent, Shape, Last, ShapeInv, TypeOK
  <2> QED BY <2>2, <2>3, <2>4, <2>6 DEF ShapeInv, TypeOK
<1>33. ASSUME NEW r \in Requests, FinishFlow(r)
       PROVE ShapeInv'
  <2>1. req[r] \in RequestRecord /\ Shape(req[r])
    BY <1>33, AtStep DEF FinishFlow
  <2>2. UNCHANGED <<sess, rows, tracked, acct, consents, links, cookie, device, used, crowded,
                   raced, rushed, earned, approved, guesses, halfway, unaware>>
    BY <1>33 DEF FinishFlow
  <2>5. /\ req[r].f \in Flows /\ req[r].sid \in Sessions /\ req[r].s.user = req[r].u
        /\ req[r].u \in Users
    BY <1>33, <2>1, OpOf DEF FinishFlow, Shape, Last
  <2>3. req' \in [Requests -> RequestRecord \cup {Idle}] /\ RequestsShaped'
    BY <1>33, ReqEnd DEF FinishFlow, ShapeInv
  <2>4. Deletes(req[r].f) \/ FailsToDelete(req[r].f)
    BY <1>33 DEF FinishFlow
  <2>6. /\ flows' \in [Flows -> LoginFlowRecord \cup {None}] /\ FlowsPlaced'
        /\ ended' \subseteq Flows /\ lingering' \subseteq Flows
    BY <2>4, <2>5, DiscardShape
  <2>7. codes' \subseteq CodeRecord
    <3>1. /\ req[r].c.trusted \in BOOLEAN /\ req[r].c.stepUp \in BOOLEAN
          /\ acct[req[r].u].owes \in SUBSET Debts
      BY <2>1, <2>5 DEF RequestRecord, LoginFlowRecord, ShapeInv, TypeOK, Account
    <3> QED BY <1>33, <2>5, <3>1 DEF FinishFlow, Issue, CodeRecord, ShapeInv, TypeOK
  <2> QED BY <2>2, <2>3, <2>6, <2>7 DEF ShapeInv, TypeOK
<1>34. ASSUME NEW r \in Requests, MarkRevoked(r)
       PROVE ShapeInv'
  <2>1. req[r] \in RequestRecord /\ Shape(req[r])
    BY <1>34, AtStep DEF MarkRevoked
  <2>2. UNCHANGED <<flows, sess, acct, consents, links, cookie, device, codes, used, ended,
                   crowded, raced, rushed, earned, approved, guesses, slips>>
    BY <1>34 DEF MarkRevoked
  <2>3. req' \in [Requests -> RequestRecord \cup {Idle}] /\ RequestsShaped'
    BY <1>34, ReqEnd DEF MarkRevoked, ShapeInv
  <2>4. flows' \in [Flows -> LoginFlowRecord \cup {None}] /\ FlowsPlaced'
    BY <2>2 DEF FlowsPlaced, ShapeInv, TypeOK
  <2>5. tracked' \subseteq Sessions /\ rows' \in [Sessions -> {"none", "live", "revoked"}]
    BY <1>34 DEF MarkRevoked, ShapeInv, TypeOK
  <2> QED BY <2>2, <2>3, <2>4, <2>5 DEF ShapeInv, TypeOK
<1>35. ASSUME NEW r \in Requests, EndSessionsForUser(r)
       PROVE ShapeInv'
  <2>1. req[r] \in RequestRecord /\ Shape(req[r])
    BY <1>35, AtStep DEF EndSessionsForUser
  <2>2. UNCHANGED <<flows, acct, consents, links, cookie, device, codes, used, ended, crowded,
                   rushed, earned, approved, guesses, slips>>
    BY <1>35 DEF EndSessionsForUser
  <2>3. req' \in [Requests -> RequestRecord \cup {Idle}] /\ RequestsShaped'
    BY <1>35, ReqEnd DEF EndSessionsForUser, ShapeInv
  <2>4. flows' \in [Flows -> LoginFlowRecord \cup {None}] /\ FlowsPlaced'
    BY <2>2 DEF FlowsPlaced, ShapeInv, TypeOK
  <2>5. /\ sess' \in [Sessions -> SsoSession \cup {None}] /\ tracked' \subseteq Sessions
        /\ rows' \in [Sessions -> {"none", "live", "revoked"}]
    BY <1>35 DEF EndSessionsForUser, EndAll, ShapeInv, TypeOK
  <2>6. raced' \subseteq Sessions
    BY <1>35 DEF EndSessionsForUser, EndAll, RacedBy, LiveOf, ShapeInv, TypeOK
  <2> QED BY <2>2, <2>3, <2>4, <2>5, <2>6 DEF ShapeInv, TypeOK
<1>36. ASSUME NEW u \in Users, LockExpires(u)
       PROVE ShapeInv'
  <2>1. UNCHANGED <<flows, sess, rows, tracked, consents, links, cookie, device, codes, used,
                   ended, crowded, raced, rushed, earned, approved, guesses, slips>> /\ UNCHANGED req
    BY <1>36 DEF LockExpires
  <2>2. acct' \in [Users -> Account]
    BY <1>36, ZenonT(40) DEF LockExpires, ShapeInv, TypeOK, Account
  <2> QED BY <2>1, <2>2 DEF ShapeInv, TypeOK, FlowsPlaced, RequestsShaped, Busy
<1>37. ASSUME NEW r \in Requests, Decide(r)
       PROVE ShapeInv'
  <2>1. req[r] \in RequestRecord /\ Shape(req[r])
    BY <1>37, AtStep DEF Decide
  <2>2. UNCHANGED <<sess, rows, tracked, acct, consents, links, cookie, device, used, ended,
                   crowded, raced, rushed, earned, approved, guesses, slips>>
    BY <1>37 DEF Decide
  <2>5. req[r].f \in Flows
    BY <1>37, <2>1, OpOf DEF Decide, Shape, Last
  <2>6. \/ OpensSignIn(req[r]) \/ OpensOwing(req[r])
        \/ flows' = flows /\ codes' = codes
        \/ IssuesCode(req[r])
    BY <1>37, DecideIs
  <2>3. req' \in [Requests -> RequestRecord \cup {Idle}] /\ RequestsShaped'
    BY <1>37, ReqEnd DEF Decide, ShapeInv
  <2>4. flows' \in [Flows -> LoginFlowRecord \cup {None}] /\ FlowsPlaced'
    <3>1. CASE OpensSignIn(req[r])
      BY <2>5, <3>1, FlowStep DEF OpensSignIn, ShapeInv
    <3>2. CASE OpensOwing(req[r])
      BY <2>5, <3>2, FlowStep DEF OpensOwing, ShapeInv
    <3>3. CASE flows' = flows
      BY <3>3 DEF FlowsPlaced, ShapeInv, TypeOK
    <3> QED BY <2>6, <3>1, <3>2, <3>3 DEF IssuesCode
  <2>7. codes' \subseteq CodeRecord
    <3>1. CASE IssuesCode(req[r])
      <4>1. PICK waived \in BOOLEAN, stepUp \in BOOLEAN : Issue(req[r], waived, stepUp)
        BY <3>1 DEF IssuesCode
      <4>2. /\ req[r].s \in SsoSession /\ req[r].s.user \in Users /\ req[r].sid \in Sessions
        BY <2>1, <3>1, RecordsAssumption DEF IssuesCode, Shape, Last, SsoSession
      <4>3. acct[req[r].s.user].owes \in SUBSET Debts
        BY <4>2 DEF ShapeInv, TypeOK, Account
      <4> QED BY <2>5, <4>1, <4>2, <4>3 DEF Issue, CodeRecord, ShapeInv, TypeOK
    <3> QED BY <2>6, <3>1 DEF OpensSignIn, OpensOwing, ShapeInv, TypeOK
  <2> QED BY <2>2, <2>3, <2>4, <2>7 DEF ShapeInv, TypeOK
<1>38. ASSUME NEW r \in Requests, BindOnTheWay(r)
       PROVE ShapeInv'
  <2>1. req[r] \in RequestRecord /\ Shape(req[r])
    BY <1>38, AtStep DEF BindOnTheWay
  <2>2. UNCHANGED <<flows, sess, rows, tracked, acct, consents, links, cookie, device, codes,
                   used, ended, crowded, raced, rushed, earned, approved, guesses, slips>>
    BY <1>38 DEF BindOnTheWay
  <2>3. req[r].c.sid \in Sessions
    BY <1>38, <2>1, OpOf DEF BindOnTheWay, Shape, Last
  <2>4. sess[req[r].c.sid] \in SsoSession
    BY <1>38, <2>3 DEF BindOnTheWay, BindingDue, ShapeInv, TypeOK
  <2>5. req' = [req EXCEPT ![r] = Binding(req[r], sess[req[r].c.sid])] /\ req[r].pc = "save"
    BY <1>38 DEF BindOnTheWay, Binding
  <2>6. req' \in [Requests -> RequestRecord \cup {Idle}] /\ RequestsShaped'
    BY <2>1, <2>4, <2>5, BindingShape, ReqStep DEF ShapeInv
  <2> QED BY <2>2, <2>6 DEF ShapeInv, TypeOK, FlowsPlaced
<1>39. ASSUME NEW r \in Requests, StoreBinding(r)
       PROVE ShapeInv'
  <2>1. req[r] \in RequestRecord /\ Shape(req[r])
    BY <1>39, AtStep DEF StoreBinding
  <2>2. UNCHANGED <<flows, rows, tracked, acct, consents, links, cookie, device, codes,
                   used, ended, crowded, raced, rushed, earned, approved, guesses, slips>>
    BY <1>39 DEF StoreBinding
  <2>3. req' = [req EXCEPT ![r] = Bound(req[r])] /\ req[r].pc = "bind"
    BY <1>39 DEF StoreBinding, Bound
  <2>4. req' \in [Requests -> RequestRecord \cup {Idle}] /\ RequestsShaped'
    BY <2>1, <2>3, BoundShape, ReqStep DEF ShapeInv
  <2>5. sess' \in [Sessions -> SsoSession \cup {None}]
    <3> DEFINE x == [req[r].s EXCEPT !.org = TRUE]
    <3>1. req[r].s \in SsoSession /\ sess' = [sess EXCEPT ![req[r].sid] = x]
      BY <1>39, <2>1, <2>3 DEF StoreBinding, Shape
    <3>2. x \in SsoSession
      BY <3>1 DEF SsoSession
    <3> HIDE DEF x
    <3> QED BY <3>1, <3>2 DEF ShapeInv, TypeOK
  <2> QED BY <2>2, <2>4, <2>5 DEF ShapeInv, TypeOK, FlowsPlaced
<1>40. ASSUME NEW u \in Users, PasswordExpires(u) \/ ForcePasswordChange(u)
       PROVE ShapeInv'
  <2>1. UNCHANGED <<flows, sess, rows, tracked, consents, links, cookie, device, codes, used,
                   ended, crowded, raced, rushed, earned, approved, guesses, lingering,
                   halfway, req>>
    BY <1>40 DEF PasswordExpires, ForcePasswordChange
  <2>2. unaware' \subseteq Flows \X Users
    BY <1>40 DEF PasswordExpires, ForcePasswordChange, Underway, ShapeInv, TypeOK
  <2>3. PICK debt \in Debts : acct' = [acct EXCEPT ![u].owes = @ \cup {debt}]
    BY <1>40 DEF PasswordExpires, ForcePasswordChange, Debts, AnswerStages
  <2>4. acct' \in [Users -> Account]
    <3> DEFINE a == [acct[u] EXCEPT !.owes = @ \cup {debt}]
    <3>1. acct[u] \in Account /\ acct' = [acct EXCEPT ![u] = a]
      BY <2>3 DEF ShapeInv, TypeOK
    <3>2. a \in Account
      BY <3>1 DEF Account
    <3> HIDE DEF a
    <3> QED BY <3>1, <3>2 DEF ShapeInv, TypeOK
  <2> QED BY <2>1, <2>2, <2>4 DEF ShapeInv, TypeOK, FlowsPlaced, RequestsShaped, Busy
<1>41. ASSUME NEW r \in Requests, Fail(r)
       PROVE ShapeInv'
  <2>1. req[r] \in RequestRecord /\ Shape(req[r])
    BY <1>41, AtStep DEF Fail, Busy
  <2>2. UNCHANGED <<flows, sess, rows, tracked, acct, consents, links, cookie, device, codes,
                   used, ended, crowded, raced, rushed, earned, approved, guesses, unaware>>
    BY <1>41 DEF Fail
  <2>3. req' \in [Requests -> RequestRecord \cup {Idle}] /\ RequestsShaped'
    BY <1>41, ReqEnd DEF Fail, ShapeInv
  <2>4. lingering' \subseteq Flows /\ halfway' \subseteq Sessions
    BY <1>41, <2>1, OpOf DEF Fail, Shape, ShapeInv, TypeOK
  <2> QED BY <2>2, <2>3, <2>4 DEF ShapeInv, TypeOK, FlowsPlaced
<1>42. ASSUME UNCHANGED vars PROVE ShapeInv'
  BY <1>42 DEF vars, ShapeInv, TypeOK, FlowsPlaced, RequestsShaped, Busy
<1> QED
  BY <1>1, <1>2, <1>3, <1>4, <1>5, <1>6, <1>7, <1>8, <1>9, <1>10, <1>11, <1>12,
     <1>13, <1>14, <1>15, <1>16, <1>17, <1>18, <1>19, <1>20, <1>21, <1>22, <1>23,
     <1>24, <1>25, <1>26, <1>27, <1>28, <1>29, <1>30, <1>31, <1>32, <1>33, <1>34,
     <1>35, <1>36, <1>37, <1>38, <1>39, <1>40, <1>41, <1>42
     DEF Next


(* The first state has this shape.                                           *)
LEMMA InitShape == Init => ShapeInv
<1> SUFFICES ASSUME Init PROVE ShapeInv
  OBVIOUS
<1>1. RequestsShaped
  BY DEF Init, RequestsShaped, Busy, Idle
<1>2. FlowsPlaced
  BY DEF Init, FlowsPlaced
<1>3. acct \in [Users -> Account]
  BY RecordsAssumption DEF Init, Account
<1> QED BY <1>1, <1>2, <1>3 DEF Init, ShapeInv, TypeOK

(* The records, the accounts, the requests and the histories have their      *)
(* types, whatever the requests do.                                          *)
THEOREM TypeCorrect == Spec => []TypeOK
<1>1. ShapeInv => TypeOK
  BY DEF ShapeInv
<1> QED BY <1>1, InitShape, NextShape, PTL DEF Spec

-----------------------------------------------------------------------------
(* What a grant rests on.                                                    *)

(* "mfa" on a session was earned by its user.                                *)
Vouched(s, x) == x.mfa => <<s, x.user>> \in earned

(* A change of password is forced on a user only behind the flow's back.     *)
Fresh(f, u) == u \in Users /\ "PasswordChange" \in acct[u].owes => <<f, u>> \in unaware

(* A flow that says "mfa" is of a session that earned it, and past the       *)
(* password stage the forced change has been made.                           *)
Carries(f, c) ==
    /\ c.mfa => <<c.sid, c.user>> \in earned
    /\ c.stage \notin Early \cup {"PasswordChange"} => Fresh(f, c.user)

ConsentGiven(f, u) ==
    IF f \in ForceConsent THEN f \in approved ELSE f \in SkipConsent \/ u \in consents

(* A flow that is Done owes no second factor and no consent; one that waits  *)
(* for the verification link has an account that owes no password change.    *)
Settled(f, c) ==
    /\ c.stage = "Done" => ~ MfaRequired(f, c) /\ ConsentGiven(f, c.user)
    /\ c.stage = "VerifyEmail" => Fresh(f, c.user)

FlowSteps == {"first", "signup", "mfa", "answer", "organization", "consent", "finish"}

(* What a request knows of the copies it holds.  One that registered made an *)
(* account that owed no password change; one that signs in remembers whether *)
(* the account did; one that answered, or was given consent, left its mark   *)
(* before it saves.                                                          *)
Vouches(q) ==
    /\ q.s # None => Vouched(q.sid, q.s)
    /\ q.pc = "create" => q.s = None
    /\ q.op \in FlowSteps => Carries(q.f, q.c)
    /\ q.op = "first" => q.c.stage = "Authenticate"
    /\ q.op = "signup" /\ q.pc = "pending" => Fresh(q.f, q.u)
    /\ q.op \in {"first", "signup"} /\ q.pc \in {"record", "open", "create"} \cup Last =>
         q.must \/ Fresh(q.f, q.u)
    /\ q.op = "answer" /\ q.pc \in Last => Fresh(q.f, q.u)
    /\ q.op = "consent" /\ q.pc \in Last => q.f \in approved /\ q.u \in consents
    /\ q.op = "finish" => Settled(q.f, q.c)

Granted(c) ==
    /\ "PasswordChange" \in c.left => <<c.f, c.user>> \in unaware
    /\ \/ c.f \in AcrMfa \/ c.stepUp
       \/ c.user \in MfaUsers /\ ~ c.waived
       => <<c.sid, c.user>> \in earned
    /\ ConsentGiven(c.f, c.user)

SessionsVouched == \A s \in Sessions : sess[s] # None => Vouched(s, sess[s])
FlowsVouched == \A f \in Flows : flows[f] # None => Carries(f, flows[f]) /\ Settled(f, flows[f])
RequestsVouched == \A r \in Requests : Busy(r) => Vouches(req[r])
CodesVouched == \A c \in codes : Granted(c)

(* Whoever has no account yet will not be made to change its password.       *)
AccountsVouched ==
    \A u \in Users : acct[u].status = "absent" => "PasswordChange" \notin acct[u].owes

GrantInv ==
    SessionsVouched /\ FlowsVouched /\ RequestsVouched /\ CodesVouched /\ AccountsVouched

(* Second factors, consents and answers are not taken back.                  *)
Keeps ==
    /\ earned \subseteq earned' /\ consents \subseteq consents' /\ approved \subseteq approved'
    /\ unaware \subseteq unaware'
    /\ \A u \in Users : "PasswordChange" \in acct'[u].owes => "PasswordChange" \in acct[u].owes

(* What is known of a flow stays known.                                      *)
LEMMA FlowKept == ASSUME Keeps, NEW f, NEW c \in LoginFlowRecord, Placed(c)
                  PROVE  /\ Carries(f, c) => Carries(f, c)'
                         /\ Settled(f, c) => Settled(f, c)'
<1>4. Fresh(f, c.user) => Fresh(f, c.user)'
  BY DEF Keeps, Fresh
<1>1. Carries(f, c) => Carries(f, c)'
  BY <1>4 DEF Keeps, Carries
<1>2. MfaRequired(f, c)' <=> MfaRequired(f, c)
  BY DEF MfaRequired
<1>3. ConsentGiven(f, c.user) => ConsentGiven(f, c.user)'
  BY DEF Keeps, ConsentGiven
<1> QED BY <1>1, <1>2, <1>3, <1>4 DEF Settled

(* What a request knows stays known while others act.                        *)
LEMMA RequestKept == ASSUME Keeps, NEW q \in RequestRecord, Shape(q), Vouches(q)
                     PROVE  Vouches(q)'
<1>1. /\ Fresh(q.f, q.c.user) => Fresh(q.f, q.c.user)'
      /\ Fresh(q.f, q.u) => Fresh(q.f, q.u)'
  BY DEF Keeps, Fresh
<1>2. q.op \in FlowSteps => Carries(q.f, q.c)'
  BY <1>1 DEF Keeps, Carries, Vouches
<1>3. q.op = "finish" => Settled(q.f, q.c)'
  <2>1. MfaRequired(q.f, q.c)' <=> MfaRequired(q.f, q.c)
    BY DEF MfaRequired
  <2>2. ConsentGiven(q.f, q.c.user) => ConsentGiven(q.f, q.c.user)'
    BY DEF Keeps, ConsentGiven
  <2> QED BY <1>1, <2>1, <2>2 DEF Settled, Vouches
<1>6. /\ q.s # None => Vouched(q.sid, q.s)'
      /\ q.op = "consent" /\ q.pc \in Last => q.f \in approved' /\ q.u \in consents'
  BY DEF Keeps, Vouches, Vouched
<1> QED BY <1>1, <1>2, <1>3, <1>6 DEF Vouches

(* One request acts.                                                         *)
LEMMA RequestVouched == ASSUME ShapeInv, RequestsVouched, Keeps, NEW r \in Requests,
                               NEW q \in RequestRecord, Vouches(q)',
                               req' = [req EXCEPT ![r] = q]
                        PROVE  RequestsVouched'
<1>1. req \in [Requests -> RequestRecord \cup {Idle}]
  BY DEF ShapeInv, TypeOK
<1> SUFFICES ASSUME NEW p \in Requests, Busy(p)' PROVE Vouches(req[p])'
  BY DEF RequestsVouched
<1>2. CASE p = r
  BY <1>1, <1>2
<1>3. CASE p # r
  <2>1. req'[p] = req[p] /\ req[p].pc # "idle"
    BY <1>1, <1>3 DEF Busy
  <2>2. Vouches(req[p])
    BY <2>1 DEF RequestsVouched, Busy
  <2>3. req[p] \in RequestRecord /\ Shape(req[p])
    BY <2>1, AtStep
  <2> QED BY <2>1, <2>2, <2>3, RequestKept
<1> QED BY <1>2, <1>3

(* A request ends, or none acts.                                             *)
LEMMA NoRequestVouched == ASSUME ShapeInv, RequestsVouched, Keeps,
                                 \/ req' = req
                                 \/ \E r \in Requests : Finished(r)
                          PROVE  RequestsVouched'
<1>1. req \in [Requests -> RequestRecord \cup {Idle}]
  BY DEF ShapeInv, TypeOK
<1> SUFFICES ASSUME NEW p \in Requests, Busy(p)' PROVE Vouches(req[p])'
  BY DEF RequestsVouched
<1>2. req'[p] = req[p] /\ req[p].pc # "idle"
  BY <1>1 DEF Busy, Finished, Idle
<1>3. Vouches(req[p])
  BY <1>2 DEF RequestsVouched, Busy
<1>4. req[p] \in RequestRecord /\ Shape(req[p])
  BY <1>2, AtStep
<1> QED BY <1>2, <1>3, <1>4, RequestKept

(* A flow is written, or none is.                                            *)
LEMMA FlowVouched == ASSUME ShapeInv, FlowsVouched, Keeps, NEW f \in Flows,
                            NEW c \in LoginFlowRecord \cup {None},
                            c # None => Carries(f, c)' /\ Settled(f, c)',
                            flows' = [flows EXCEPT ![f] = c]
                     PROVE  FlowsVouched'
<1> SUFFICES ASSUME NEW g \in Flows, flows'[g] # None
             PROVE  Carries(g, flows[g])' /\ Settled(g, flows[g])'
  BY DEF FlowsVouched
<1>1. CASE g = f
  BY <1>1 DEF ShapeInv, TypeOK
<1>2. CASE g # f
  <2>1. /\ flows'[g] = flows[g] /\ flows[g] # None /\ Placed(flows[g])
        /\ flows[g] \in LoginFlowRecord /\ Carries(g, flows[g]) /\ Settled(g, flows[g])
    BY <1>2 DEF ShapeInv, TypeOK, FlowsPlaced, FlowsVouched
  <2> QED BY <2>1, FlowKept
<1> QED BY <1>1, <1>2

(* A step that changes no flow leaves every flow vouched for.               *)
LEMMA NoFlowVouched == ASSUME ShapeInv, FlowsVouched, Keeps, flows' = flows
                       PROVE  FlowsVouched'
<1> SUFFICES ASSUME NEW g \in Flows, flows'[g] # None
             PROVE  Carries(g, flows[g])' /\ Settled(g, flows[g])'
  BY DEF FlowsVouched
<1>1. /\ flows'[g] = flows[g] /\ flows[g] # None /\ Placed(flows[g])
      /\ flows[g] \in LoginFlowRecord /\ Carries(g, flows[g]) /\ Settled(g, flows[g])
  BY DEF ShapeInv, TypeOK, FlowsPlaced, FlowsVouched
<1> QED BY <1>1, FlowKept

(* Sessions are written, or removed.                                         *)
LEMMA SessionVouched == ASSUME SessionsVouched, Keeps,
                               \A s \in Sessions : sess'[s] # None =>
                                  \/ sess[s] # None /\ sess'[s].user = sess[s].user
                                     /\ sess'[s].mfa = sess[s].mfa
                                  \/ Vouched(s, sess[s])'
                        PROVE  SessionsVouched'
BY DEF SessionsVouched, Vouched, Keeps

(* A code stays granted.                                                     *)
LEMMA CodesKept == ASSUME CodesVouched, Keeps,
                          \A c \in codes' : c \in codes \/ Granted(c)'
                   PROVE  CodesVouched'
<1> SUFFICES ASSUME NEW c \in codes, Granted(c) PROVE Granted(c)'
  BY DEF CodesVouched
<1>1. ConsentGiven(c.f, c.user) => ConsentGiven(c.f, c.user)'
  BY DEF Keeps, ConsentGiven
<1> QED BY <1>1 DEF Keeps, Granted

(* A request that acts on none of the records.                               *)
LEMMA QuietStep == ASSUME ShapeInv, GrantInv, NEW r \in Requests, NEW q \in RequestRecord,
                          Shape(q), Vouches(q), req' = [req EXCEPT ![r] = q],
                          Keeps, AccountsVouched', UNCHANGED <<flows, sess, codes>>
                   PROVE  GrantInv'
<1>1. RequestsVouched'
  BY RequestKept, RequestVouched DEF GrantInv
<1>2. FlowsVouched'
  BY NoFlowVouched DEF GrantInv
<1>3. SessionsVouched'
  BY SessionVouched DEF GrantInv
<1>4. CodesVouched'
  BY CodesKept DEF GrantInv
<1> QED BY <1>1, <1>2, <1>3, <1>4 DEF GrantInv

(* A request that ends without a trace.                                      *)
LEMMA QuietEnd == ASSUME ShapeInv, GrantInv, Keeps, AccountsVouched',
                         req' = req \/ (\E r \in Requests : Finished(r)),
                         UNCHANGED <<flows, sess, codes>>
                  PROVE  GrantInv'
<1>1. RequestsVouched'
  BY NoRequestVouched DEF GrantInv
<1>2. FlowsVouched'
  BY NoFlowVouched DEF GrantInv
<1>3. SessionsVouched'
  BY SessionVouched DEF GrantInv
<1>4. CodesVouched'
  BY CodesKept DEF GrantInv
<1> QED BY <1>1, <1>2, <1>3, <1>4 DEF GrantInv

(* A step that writes neither an account nor what was earned or given.       *)
LEMMA SameAccounts == ASSUME AccountsVouched, UNCHANGED <<acct, links, consents, earned, approved, unaware>>
                      PROVE  Keeps /\ AccountsVouched'
BY DEF AccountsVouched, Keeps

(* A step of the flow API that loads a flow.                                 *)
LEMMA LoadVouched == ASSUME ShapeInv, GrantInv, NEW r \in Requests, NEW f \in Flows,
                            NEW q \in RequestRecord, Shape(q), Vouches(q), Load(r, f, q)
                     PROVE  GrantInv'
<1>1. /\ UNCHANGED <<flows, sess, codes, acct, links, consents, earned, approved, unaware>>
      /\ req' = [req EXCEPT ![r] = q]
  BY DEF Load, Begin
<1> QED BY <1>1, SameAccounts, QuietStep DEF GrantInv

(* A sign-in whose credentials were right.                                   *)
LEMMA VerdictVouched == ASSUME NEW q \in RequestRecord, Shape(q), Vouches(q),
                               q.op \in {"first", "signup"}, q.pc \notin Last, NEW risk,
                               NEW must \in BOOLEAN,
                               must \/ Fresh(q.f, q.u)
                        PROVE  Vouches(Verdict(q, risk, must))
<1> DEFINE n == Verdict(q, risk, must)
<1>1. /\ n.pc \in {"delete", "record"} /\ n.must = must
      /\ n.op = q.op /\ n.f = q.f /\ n.c = q.c /\ n.sid = q.sid
      /\ n.s = q.s /\ n.u = q.u /\ n.method = q.method
  BY VerdictShape
<1> HIDE DEF n
<1>2. Vouches(n)
  BY <1>1 DEF Vouches, FlowSteps, Last
<1> QED BY <1>2 DEF n

(* The verdict on a sign-in.                                                 *)
LEMMA AssessedVouched == ASSUME ShapeInv, GrantInv, NEW r \in Requests, req[r].pc \notin {"idle"} \cup Last,
                                req[r].op \in {"first", "signup"},
                                NEW must \in BOOLEAN, Assessed(r, must),
                                must \/ Fresh(req[r].f, req[r].u),
                                Keeps, AccountsVouched', UNCHANGED <<flows, sess, codes>>
                         PROVE  GrantInv'
<1>1. PICK risk : req' = [req EXCEPT ![r] = Verdict(req[r], risk, must)]
  BY DEF Assessed
<1>2. req[r] \in RequestRecord /\ Shape(req[r]) /\ Vouches(req[r])
  BY AtStep DEF GrantInv, RequestsVouched, Busy
<1> DEFINE n == Verdict(req[r], risk, must)
<1>3. n \in RequestRecord /\ Shape(n)
  BY <1>2, VerdictShape
<1>4. Vouches(n)
  BY <1>2, VerdictVouched
<1>5. req' = [req EXCEPT ![r] = n]
  BY <1>1
<1> HIDE DEF n
<1> QED BY <1>3, <1>4, <1>5, QuietStep

(* A request that goes on, with what it already knew.                        *)
LEMMA GotoVouched == ASSUME ShapeInv, GrantInv, NEW r \in Requests, req[r].pc # "idle",
                            NEW pc \in Pcs, Goto(r, pc), Shape(MovedTo(req[r], pc)),
                            Vouches(MovedTo(req[r], pc)),
                            Keeps, AccountsVouched', UNCHANGED <<flows, sess, codes>>
                     PROVE  GrantInv'
<1> DEFINE n == MovedTo(req[r], pc)
<1>1. n \in RequestRecord
  BY BusyRecord, Moved DEF ShapeInv
<1>2. req' = [req EXCEPT ![r] = n]
  BY DEF Goto, MovedTo
<1> HIDE DEF n
<1>3. Shape(n) /\ Vouches(n)
  BY DEF n
<1> QED BY <1>1, <1>2, <1>3, QuietStep

(* The browser's session is vouched for.                                     *)
LEMMA CurrentVouched == ASSUME ShapeInv, GrantInv, RecordOf(Current) # None
                        PROVE  Vouched(Current, RecordOf(Current))
BY CurrentRecord DEF RecordOf, GrantInv, SessionsVouched, ShapeInv

(* An organization is recorded on a copy of a flow.                          *)
LEMMA BoundVouched == ASSUME NEW q \in RequestRecord, Shape(q), Vouches(q),
                             q.op = "organization" \/ q.pc = "bind"
                      PROVE  /\ Bound(q) \in RequestRecord /\ Shape(Bound(q))
                             /\ Vouches(Bound(q))
<1> DEFINE n == Bound(q)
<1>1. /\ n \in RequestRecord /\ Shape(n)
      /\ n.pc = "save" /\ n.op = q.op /\ n.f = q.f /\ n.sid = q.sid /\ n.s = q.s /\ n.u = q.u
      /\ n.c.sid = q.c.sid /\ n.c.user = q.c.user /\ n.c.mfa = q.c.mfa
      /\ n.c.stage = q.c.stage /\ n.must = q.must
  BY BoundShape
<1> HIDE DEF n
<1>2. q.op \in {"first", "signup", "mfa", "answer", "organization", "consent"}
  BY OpOf DEF Last
<1>3. q.op # "organization" => q.pc \in Last
  BY DEF Last
<1>4. q.op \in FlowSteps => Carries(n.f, n.c)
  BY <1>1 DEF Vouches, Carries
<1>5. Vouches(n)
  BY <1>1, <1>2, <1>3, <1>4 DEF Vouches, FlowSteps, Last
<1> QED BY <1>1, <1>5 DEF n

(* ... and of the session it is about to be recorded on.                     *)
LEMMA BindingVouched == ASSUME NEW q \in RequestRecord, Shape(q), Vouches(q), q.pc = "save",
                               NEW s \in SsoSession, Vouched(q.c.sid, s)
                        PROVE  /\ Binding(q, s) \in RequestRecord /\ Shape(Binding(q, s))
                               /\ Vouches(Binding(q, s))
<1> DEFINE n == Binding(q, s)
<1>1. /\ n \in RequestRecord /\ Shape(n)
      /\ n.pc = "bind" /\ n.op = q.op /\ n.f = q.f /\ n.c = q.c
      /\ n.sid = q.c.sid /\ n.s = s /\ n.u = q.u /\ n.must = q.must
  BY BindingShape
<1> HIDE DEF n
<1>2. Vouches(n)
  BY <1>1 DEF Vouches, Last
<1> QED BY <1>1, <1>2 DEF n

(* Every step keeps what a grant rests on.                                   *)
LEMMA NextGrant == ShapeInv /\ GrantInv /\ [Next]_vars => GrantInv'
<1> SUFFICES ASSUME ShapeInv, GrantInv, [Next]_vars PROVE GrantInv'
  OBVIOUS
<1>1. ASSUME NEW r \in Requests, NEW f \in Flows, StartMfa(r, f)
      PROVE GrantInv'
  <2> DEFINE n == Request("mfa", "factor", f, flows[f])
  <2>1. flows[f] # None /\ Load(r, f, n)
    BY <1>1 DEF StartMfa, At
  <2>2. n \in RequestRecord /\ Shape(n)
    BY <1>1, <2>1, LoadedShape DEF StartMfa, At, ShapeInv
  <2>3. n.op = "mfa" /\ n.pc = "factor" /\ n.f = f /\ n.s = None /\ n.c = flows[f]
    BY DEF Request
  <2> HIDE DEF n
  <2>4. Vouches(n)
    BY <2>1, <2>3 DEF Vouches, FlowSteps, Last, GrantInv, FlowsVouched
  <2> QED BY <2>1, <2>2, <2>4, LoadVouched
<1>2. ASSUME NEW r \in Requests, NEW f \in Flows, StartAnswer(r, f)
      PROVE GrantInv'
  <2> DEFINE n == Request("answer", "answer", f, flows[f])
  <2>1. flows[f] # None /\ Load(r, f, n)
    BY <1>2 DEF StartAnswer, At
  <2>2. n \in RequestRecord /\ Shape(n)
    BY <1>2, <2>1, LoadedShape DEF StartAnswer, At, ShapeInv
  <2>3. n.op = "answer" /\ n.pc = "answer" /\ n.f = f /\ n.s = None /\ n.c = flows[f]
    BY DEF Request
  <2> HIDE DEF n
  <2>4. Vouches(n)
    BY <2>1, <2>3 DEF Vouches, FlowSteps, Last, GrantInv, FlowsVouched
  <2> QED BY <2>1, <2>2, <2>4, LoadVouched
<1>3. ASSUME NEW r \in Requests, NEW f \in Flows, StartOrganization(r, f)
      PROVE GrantInv'
  <2> DEFINE n == Request("organization", "get", f, flows[f])
  <2>1. flows[f] # None /\ Load(r, f, n)
    BY <1>3 DEF StartOrganization, At
  <2>2. n \in RequestRecord /\ Shape(n)
    BY <1>3, <2>1, LoadedShape DEF StartOrganization, At, ShapeInv
  <2>3. n.op = "organization" /\ n.pc = "get" /\ n.f = f /\ n.s = None /\ n.c = flows[f]
    BY DEF Request
  <2> HIDE DEF n
  <2>4. Vouches(n)
    BY <2>1, <2>3 DEF Vouches, FlowSteps, Last, GrantInv, FlowsVouched
  <2> QED BY <2>1, <2>2, <2>4, LoadVouched
<1>4. ASSUME NEW r \in Requests, NEW f \in Flows, StartCancel(r, f)
      PROVE GrantInv'
  <2> DEFINE n == Request("cancel", "delete", f, flows[f])
  <2>1. flows[f] # None /\ Load(r, f, n)
    BY <1>4 DEF StartCancel, At
  <2>2. n \in RequestRecord /\ Shape(n)
    BY <1>4, <2>1, LoadedShape DEF StartCancel, At, ShapeInv
  <2>3. n.op = "cancel" /\ n.pc = "delete" /\ n.f = f /\ n.s = None /\ n.c = flows[f]
    BY DEF Request
  <2> HIDE DEF n
  <2>4. Vouches(n)
    BY <2>1, <2>3 DEF Vouches, FlowSteps, Last, GrantInv, FlowsVouched
  <2> QED BY <2>1, <2>2, <2>4, LoadVouched
<1>5. ASSUME NEW r \in Requests, NEW f \in Flows, StartConsent(r, f)
      PROVE GrantInv'
  <2>1. PICK pc \in {"consent", "delete"} : Load(r, f, Request("consent", pc, f, flows[f]))
    BY <1>5 DEF StartConsent
  <2> DEFINE n == Request("consent", pc, f, flows[f])
  <2>2. n \in RequestRecord /\ Shape(n) /\ flows[f] # None
    BY <1>5, LoadedShape DEF StartConsent, At, ShapeInv
  <2>3. n.op = "consent" /\ n.pc = pc /\ n.f = f /\ n.s = None /\ n.c = flows[f] /\ Load(r, f, n)
    BY <2>1 DEF Request
  <2> HIDE DEF n
  <2>4. Vouches(n)
    BY <2>1, <2>2, <2>3 DEF Vouches, FlowSteps, Last, GrantInv, FlowsVouched
  <2> QED BY <2>2, <2>3, <2>4, LoadVouched
<1>6. ASSUME NEW r \in Requests, NEW f \in Flows, Authorize(r, f)
      PROVE GrantInv'
  <2> DEFINE q == Request("authorize", "decide", f, NewFlow)
             n == [q EXCEPT !.sid = Current, !.s = RecordOf(Current)]
  <2>1. q \in RequestRecord /\ q.op = "authorize" /\ q.pc = "decide" /\ q.f = f
    BY NewFlowIs DEF Request, RequestRecord
  <2>2. req' = [req EXCEPT ![r] = n] /\ UNCHANGED <<flows, sess, codes, acct, links, consents,
  earned, approved, unaware>>
    BY <1>6 DEF Authorize, Begin
  <2> HIDE DEF q
  <2>3. /\ n \in RequestRecord /\ n.op = "authorize" /\ n.pc = "decide" /\ n.f = f
        /\ n.sid = Current /\ n.s = RecordOf(Current)
    BY <2>1, WithSession DEF ShapeInv
  <2> HIDE DEF n
  <2>4. Shape(n)
    BY <2>3, CurrentRecord DEF Shape, Last, ShapeInv
  <2>5. Vouches(n)
    BY <2>3, CurrentVouched DEF Vouches, FlowSteps, Last
  <2> QED BY <2>2, <2>3, <2>4, <2>5, SameAccounts, QuietStep DEF GrantInv
<1>7. ASSUME NEW r \in Requests, NEW f \in Flows, NEW u \in Users, NEW m \in Methods,
             StartFirstFactor(r, f, u, m)
      PROVE GrantInv'
  <2> DEFINE p == Request("first", "check", f, flows[f])
             q == SigningIn(p, u, m)
             n == [q EXCEPT !.sid = Current, !.s = RecordOf(Current)]
  <2>1. Load(r, f, n) /\ flows[f] # None /\ flows[f].stage = "Authenticate"
    BY <1>7 DEF StartFirstFactor, At, SigningIn
  <2>2. flows[f] \in LoginFlowRecord /\ Placed(flows[f])
    BY <2>1 DEF ShapeInv, TypeOK, FlowsPlaced
  <2>3. flows[f].user \in Users \cup {None}
    BY <2>2 DEF LoginFlowRecord
  <2>4. /\ p \in RequestRecord /\ p.op = "first" /\ p.pc = "check" /\ p.f = f /\ p.c = flows[f]
    BY <2>2, <2>3 DEF Request, RequestRecord
  <2> HIDE DEF p
  <2>5. /\ q \in RequestRecord /\ q.op = "first" /\ q.pc = "check" /\ q.f = f
        /\ q.c = flows[f] /\ q.u = u /\ q.method = m
    BY <2>4, SignInIs
  <2> HIDE DEF q
  <2>6. /\ n \in RequestRecord /\ n.op = "first" /\ n.pc = "check" /\ n.f = f
        /\ n.c = flows[f] /\ n.u = u /\ n.method = m
        /\ n.sid = Current /\ n.s = RecordOf(Current)
    BY <2>5, WithSession DEF ShapeInv
  <2> HIDE DEF n
  <2>7. Shape(n)
    BY <2>1, <2>2, <2>6, CurrentRecord DEF Shape, Last, ShapeInv, Placed, Early
  <2>8. Vouches(n)
    BY <2>1, <2>6, CurrentVouched DEF Vouches, FlowSteps, Last, GrantInv, FlowsVouched
  <2> QED BY <2>1, <2>6, <2>7, <2>8, LoadVouched
<1>8. ASSUME NEW r \in Requests, NEW f \in Flows, NEW u \in Users, StartRegister(r, f, u)
      PROVE GrantInv'
  <2> DEFINE p == Request("signup", "register", f, flows[f])
             n == SigningIn(p, u, "pwd")
  <2>1. Load(r, f, n) /\ flows[f] # None /\ flows[f].stage \in Early
    BY <1>8 DEF StartRegister, At, Early, SigningIn
  <2>2. flows[f] \in LoginFlowRecord /\ Placed(flows[f])
    BY <2>1 DEF ShapeInv, TypeOK, FlowsPlaced
  <2>3. flows[f].user \in Users \cup {None} /\ "pwd" \in Methods
    BY <2>2 DEF LoginFlowRecord, Methods
  <2>4. /\ p \in RequestRecord /\ p.op = "signup" /\ p.pc = "register" /\ p.f = f
        /\ p.c = flows[f] /\ p.s = None
    BY <2>2, <2>3 DEF Request, RequestRecord
  <2> HIDE DEF p
  <2>5. /\ n \in RequestRecord /\ n.op = "signup" /\ n.pc = "register" /\ n.f = f
        /\ n.c = flows[f] /\ n.u = u /\ n.method = "pwd" /\ n.s = None
    BY <2>3, <2>4, SignInIs
  <2> HIDE DEF n
  <2>6. Shape(n)
    BY <2>1, <2>2, <2>5 DEF Shape, Last, Placed, Early, Methods
  <2>7. Vouches(n)
    BY <2>1, <2>5 DEF Vouches, FlowSteps, Last, GrantInv, FlowsVouched
  <2> QED BY <2>1, <2>5, <2>6, <2>7, LoadVouched
<1>9. ASSUME NEW r \in Requests, NEW f \in Flows, StartFinish(r, f)
      PROVE GrantInv'
  <2> DEFINE pc == IF flows[f].remember /\ ~flows[f].trusted THEN "store" ELSE "finish"
             q == Request("finish", pc, f, flows[f])
             n == [q EXCEPT !.sid = Current, !.s = RecordOf(Current)]
  <2>1. /\ Load(r, f, n) /\ flows[f] # None /\ flows[f].stage = "Done"
        /\ Current # None /\ Current = flows[f].sid /\ sess[Current].user = flows[f].user
    BY <1>9 DEF StartFinish, At
  <2>2. flows[f] \in LoginFlowRecord /\ Placed(flows[f])
    BY <2>1 DEF ShapeInv, TypeOK, FlowsPlaced
  <2>3. pc \in {"store", "finish"}
    OBVIOUS
  <2> HIDE DEF pc
  <2>8. flows[f].user \in Users \cup {None}
    BY <2>2 DEF LoginFlowRecord
  <2>4. /\ q \in RequestRecord /\ q.op = "finish" /\ q.pc = pc /\ q.f = f
        /\ q.c = flows[f] /\ q.u = flows[f].user
    BY <2>2, <2>3, <2>8 DEF Request, RequestRecord
  <2> HIDE DEF q
  <2>5. /\ n \in RequestRecord /\ n.op = "finish" /\ n.pc = pc /\ n.f = f
        /\ n.c = flows[f] /\ n.u = flows[f].user /\ n.sid = Current /\ n.s = RecordOf(Current)
    BY <2>4, WithSession DEF ShapeInv
  <2> HIDE DEF n
  <2>6. Current \in Sessions /\ RecordOf(Current) = sess[Current] /\ sess[Current] \in SsoSession
    BY <2>1, CurrentRecord DEF ShapeInv
  <2>7. Shape(n)
    BY <2>1, <2>2, <2>3, <2>5, <2>6 DEF Shape, Last, Placed, Early
  <2>9. Vouches(n)
    BY <2>1, <2>3, <2>5, CurrentVouched DEF Vouches, FlowSteps, Last, GrantInv, FlowsVouched
  <2> QED BY <2>1, <2>5, <2>7, <2>9, LoadVouched
<1>10. ASSUME NEW r \in Requests, Touch(r)
       PROVE GrantInv'
  <2> DEFINE q == Request("touch", "store", None, NewFlow)
             n == [q EXCEPT !.sid = Current, !.s = RecordOf(Current)]
  <2>1. req' = [req EXCEPT ![r] = n] /\ Current # None /\ UNCHANGED <<flows, sess, codes, acct,
  links, consents, earned, approved, unaware>>
    BY <1>10 DEF Touch, Begin
  <2>2. q \in RequestRecord /\ q.op = "touch" /\ q.pc = "store" /\ q.f = None
    BY NewFlowIs DEF Request, RequestRecord
  <2> HIDE DEF q
  <2>3. /\ n \in RequestRecord /\ n.op = "touch" /\ n.pc = "store" /\ n.f = None
        /\ n.sid = Current /\ n.s = RecordOf(Current)
    BY <2>2, WithSession DEF ShapeInv
  <2> HIDE DEF n
  <2>4. Current \in Sessions /\ RecordOf(Current) = sess[Current] /\ sess[Current] \in SsoSession
    BY <2>1, CurrentRecord DEF ShapeInv
  <2>5. Shape(n)
    BY <2>3, <2>4 DEF Shape, Last
  <2>6. Vouches(n)
    BY <2>3, CurrentVouched DEF Vouches, FlowSteps, Last
  <2> QED BY <2>1, <2>3, <2>5, <2>6, SameAccounts, QuietStep DEF GrantInv
<1>11. ASSUME NEW r \in Requests, NEW f \in Flows, NEW u \in Users, ConfirmEmail(r, f, u)
       PROVE GrantInv'
  <2> DEFINE q == Request("signup", "resume", f, NewFlow)
             n == SigningIn(q, u, "otp")
  <2>1. /\ req' = [req EXCEPT ![r] = n] /\ <<f, u>> \in links
        /\ acct' = [acct EXCEPT ![u].status = IF @ = "pending" THEN "active" ELSE @]
        /\ UNCHANGED <<flows, sess, codes, consents, earned, approved, unaware>>
    BY <1>11 DEF ConfirmEmail, SigningIn, Begin
  <2>2. q \in RequestRecord /\ q.op = "signup" /\ q.pc = "resume" /\ q.f = f
        /\ q.c = NewFlow /\ q.s = None
    BY NewFlowIs DEF Request, RequestRecord
  <2> HIDE DEF q
  <2>8. "otp" \in Methods
    BY DEF Methods
  <2>3. /\ n \in RequestRecord /\ n.op = "signup" /\ n.pc = "resume" /\ n.f = f
        /\ n.c = NewFlow /\ n.u = u /\ n.method = "otp" /\ n.s = None
    BY <2>2, <2>8, SignInIs
  <2> HIDE DEF n
  <2>4. Shape(n)
    BY <2>3, NewFlowIs DEF Shape, Last, Early, Methods
  <2>6. Vouches(n)
    BY <2>3, NewFlowIs DEF Vouches, FlowSteps, Last, Carries, Early
  <2>7. Keeps /\ AccountsVouched'
    BY <2>1 DEF ShapeInv, TypeOK, Account, GrantInv, AccountsVouched, Keeps
  <2> QED BY <2>1, <2>3, <2>4, <2>6, <2>7, QuietStep
<1>12. ASSUME NEW r \in Requests, NEW s \in Sessions, Revoke(r, s)
       PROVE GrantInv'
  <2> DEFINE q == Request("revoke", "mark", None, NewFlow)
             n1 == [q EXCEPT !.sid = s]
             n == [n1 EXCEPT !.s = sess[s]]
  <2>1. /\ req' = [req EXCEPT ![r] = n] /\ sess' = [sess EXCEPT ![s] = None]
        /\ UNCHANGED <<flows, codes, acct, links, consents, earned, approved, unaware>>
    BY <1>12 DEF Revoke, Begin
  <2>2. q \in RequestRecord /\ q.op = "revoke" /\ q.pc = "mark" /\ q.f = None
    BY NewFlowIs DEF Request, RequestRecord
  <2>3. sess[s] \in SsoSession \cup {None} /\ sess \in [Sessions -> SsoSession \cup {None}]
    BY DEF ShapeInv, TypeOK
  <2> HIDE DEF q
  <2>4. n1 \in RequestRecord
    BY <2>2 DEF RequestRecord
  <2>5. n \in RequestRecord
    <3> HIDE DEF n1
    <3> QED BY <2>3, <2>4 DEF RequestRecord
  <2>6. n.op = "revoke" /\ n.pc = "mark" /\ n.f = None /\ n.sid = s /\ n.s = sess[s]
    BY <2>2 DEF RequestRecord
  <2> HIDE DEF n
  <2>7. Shape(n)
    BY <2>6 DEF Shape, Last
  <2>8. Vouches(n)
    BY <2>6 DEF Vouches, FlowSteps, GrantInv, SessionsVouched
  <2>9. Keeps /\ AccountsVouched'
    BY <2>1, SameAccounts DEF GrantInv
  <2>10. SessionsVouched'
    BY <2>1, <2>3, <2>9, SessionVouched DEF GrantInv
  <2> QED BY <2>1, <2>5, <2>7, <2>8, <2>9, <2>10, RequestKept, RequestVouched, NoFlowVouched,
             CodesKept
          DEF GrantInv
<1>13. ASSUME NEW r \in Requests, NEW u \in Users, Disable(r, u)
       PROVE GrantInv'
  <2> DEFINE q == Request("disable", "endAll", None, NewFlow)
             n == [q EXCEPT !.u = u]
  <2>1. /\ req' = [req EXCEPT ![r] = n] /\ acct' = [acct EXCEPT ![u].status = "disabled"]
        /\ UNCHANGED <<flows, sess, codes, links, consents, earned, approved, unaware>>
    BY <1>13 DEF Disable, Begin
  <2>2. q \in RequestRecord /\ q.op = "disable" /\ q.pc = "endAll" /\ q.f = None /\ q.s = None
    BY NewFlowIs DEF Request, RequestRecord
  <2> HIDE DEF q
  <2>3. /\ n \in RequestRecord /\ n.op = "disable" /\ n.pc = "endAll" /\ n.f = None
        /\ n.s = None /\ n.u = u
    BY <2>2 DEF RequestRecord
  <2> HIDE DEF n
  <2>4. Shape(n)
    BY <2>3 DEF Shape, Last
  <2>5. Vouches(n)
    BY <2>3 DEF Vouches, FlowSteps, Last
  <2>6. Keeps /\ AccountsVouched'
    BY <2>1 DEF ShapeInv, TypeOK, Account, GrantInv, AccountsVouched, Keeps
  <2> QED BY <2>1, <2>3, <2>4, <2>5, <2>6, QuietStep
<1>14. ASSUME NEW r \in Requests, CheckPassword(r)
       PROVE GrantInv'
  <2>1. req[r] \in RequestRecord /\ Shape(req[r]) /\ Vouches(req[r])
    BY <1>14, AtStep DEF CheckPassword, GrantInv, RequestsVouched, Busy
  <2>2. req[r].pc = "check" /\ req[r].op = "first"
    BY <1>14, <2>1, OpOf DEF CheckPassword
  <2>3. UNCHANGED <<flows, sess, codes, acct, links, consents, earned, approved, unaware>>
    BY <1>14 DEF CheckPassword
  <2>4. Keeps /\ AccountsVouched'
    BY <2>3, SameAccounts DEF GrantInv
  <2>5. CASE Goto(r, "attempts")
    <3>1. "attempts" \in Pcs
      BY DEF Pcs
    <3>2. Shape(MovedTo(req[r], "attempts")) /\ Vouches(MovedTo(req[r], "attempts"))
      BY <2>1, <2>2, <3>1, Moved DEF Shape, Last, Vouches, FlowSteps
    <3> QED BY <2>2, <2>3, <2>4, <2>5, <3>1, <3>2, GotoVouched
  <2>6. CASE Goto(r, "reject")
    <3>1. "reject" \in Pcs
      BY DEF Pcs
    <3>2. Shape(MovedTo(req[r], "reject")) /\ Vouches(MovedTo(req[r], "reject"))
      BY <2>1, <2>2, <3>1, Moved DEF Shape, Last, Vouches, FlowSteps
    <3> QED BY <2>2, <2>3, <2>4, <2>6, <3>1, <3>2, GotoVouched
  <2>7. CASE Assessed(r, acct[req[r].u].owes \cap {"PasswordChange", "Expired"} # {})
    <3> DEFINE must == acct[req[r].u].owes \cap {"PasswordChange", "Expired"} # {}
    <3>1. must \in BOOLEAN /\ Assessed(r, must) /\ (must \/ Fresh(req[r].f, req[r].u))
      BY <2>7 DEF Fresh
    <3> HIDE DEF must
    <3> QED BY <2>2, <2>3, <2>4, <3>1, AssessedVouched DEF Last
  <2> QED BY <1>14, <2>5, <2>6, <2>7 DEF CheckPassword
<1>15. ASSUME NEW r \in Requests, CheckCode(r)
       PROVE GrantInv'
  <2>1. req[r] \in RequestRecord /\ Shape(req[r]) /\ Vouches(req[r])
    BY <1>15, AtStep DEF CheckCode, GrantInv, RequestsVouched, Busy
  <2>2. req[r].pc = "check" /\ req[r].op = "first"
    BY <1>15, <2>1, OpOf DEF CheckCode
  <2>3. UNCHANGED <<flows, sess, codes, acct, links, consents, earned, approved, unaware>>
    BY <1>15 DEF CheckCode
  <2>4. Keeps /\ AccountsVouched'
    BY <2>3, SameAccounts DEF GrantInv
  <2>5. CASE Goto(r, "attempts")
    <3>1. "attempts" \in Pcs
      BY DEF Pcs
    <3>2. Shape(MovedTo(req[r], "attempts")) /\ Vouches(MovedTo(req[r], "attempts"))
      BY <2>1, <2>2, <3>1, Moved DEF Shape, Last, Vouches, FlowSteps
    <3> QED BY <2>2, <2>3, <2>4, <2>5, <3>1, <3>2, GotoVouched
  <2>6. CASE Finished(r)
    BY <2>3, <2>4, <2>6, QuietEnd
  <2>7. CASE Assessed(r, "PasswordChange" \in acct[req[r].u].owes)
    <3> DEFINE must == "PasswordChange" \in acct[req[r].u].owes
    <3>1. must \in BOOLEAN /\ Assessed(r, must) /\ (must \/ Fresh(req[r].f, req[r].u))
      BY <2>7 DEF Fresh
    <3> HIDE DEF must
    <3> QED BY <2>2, <2>3, <2>4, <3>1, AssessedVouched DEF Last
  <2> QED BY <1>15, <2>5, <2>6, <2>7 DEF CheckCode
<1>16. ASSUME NEW r \in Requests, RecordFailure(r)
       PROVE GrantInv'
  <2>1. req[r] \in RequestRecord /\ Shape(req[r]) /\ Vouches(req[r])
    BY <1>16, AtStep DEF RecordFailure, GrantInv, RequestsVouched, Busy
  <2>2. req[r].pc # "idle" /\ req[r].op \in {"first"} /\ req[r].u \in Users /\ req[r].pc = "reject"
    BY <1>16, <2>1, OpOf DEF RecordFailure, Shape, Last
  <2>3. UNCHANGED <<flows, sess, codes, links, consents, earned, approved, unaware>>
    BY <1>16 DEF RecordFailure
  <2>5. \A u \in Users : acct'[u].owes = acct[u].owes /\ acct'[u].status = acct[u].status
    BY <1>16, <2>2 DEF RecordFailure, CountFailure, ShapeInv, TypeOK, Account
  <2>4. Keeps /\ AccountsVouched'
    BY <2>3, <2>5 DEF GrantInv, AccountsVouched, Keeps
  <2>6. CASE Goto(r, "attempts")
    <3>1. "attempts" \in Pcs
      BY DEF Pcs
    <3>2. Shape(MovedTo(req[r], "attempts")) /\ Vouches(MovedTo(req[r], "attempts"))
      BY <2>1, <2>2, <3>1, Moved DEF Shape, Last, Vouches, FlowSteps
    <3> QED BY <2>2, <2>3, <2>4, <2>6, <3>1, <3>2, GotoVouched
  <2> QED BY <1>16, <2>6 DEF RecordFailure
<1>17. ASSUME NEW r \in Requests, RecordSuccess(r)
       PROVE GrantInv'
  <2>1. req[r] \in RequestRecord /\ Shape(req[r]) /\ Vouches(req[r])
    BY <1>17, AtStep DEF RecordSuccess, GrantInv, RequestsVouched, Busy
  <2>2. req[r].pc # "idle" /\ req[r].op \in {"first",
  "signup"} /\ req[r].u \in Users /\ req[r].pc = "record"
    BY <1>17, <2>1, OpOf DEF RecordSuccess, Shape, Last
  <2>3. UNCHANGED <<flows, sess, codes, links, consents, earned, approved, unaware>>
    BY <1>17 DEF RecordSuccess
  <2>5. \A u \in Users : acct'[u].owes = acct[u].owes /\ acct'[u].status = acct[u].status
    BY <1>17, <2>2 DEF RecordSuccess, CountFailure, ShapeInv, TypeOK, Account
  <2>4. Keeps /\ AccountsVouched'
    BY <2>3, <2>5 DEF GrantInv, AccountsVouched, Keeps
  <2>6. CASE Goto(r, "open")
    <3>1. "open" \in Pcs
      BY DEF Pcs
    <3>2. Shape(MovedTo(req[r], "open")) /\ Vouches(MovedTo(req[r], "open"))
      BY <2>1, <2>2, <3>1, Moved DEF Shape, Last, Vouches, FlowSteps
    <3> QED BY <2>2, <2>3, <2>4, <2>6, <3>1, <3>2, GotoVouched
  <2> QED BY <1>17, <2>6 DEF RecordSuccess
<1>18. ASSUME NEW u \in Users, LockExpires(u)
       PROVE GrantInv'
  <2>1. UNCHANGED <<flows, sess, codes, links, consents, earned, approved, unaware, req>>
    BY <1>18 DEF LockExpires
  <2>2. \A v \in Users : acct'[v].owes = acct[v].owes /\ acct'[v].status = acct[v].status
    BY <1>18, ZenonT(40) DEF LockExpires, ShapeInv, TypeOK, Account
  <2>3. Keeps /\ AccountsVouched'
    BY <2>1, <2>2 DEF GrantInv, AccountsVouched, Keeps
  <2> QED BY <2>1, <2>3, QuietEnd
<1>19. ASSUME NEW r \in Requests, MarkRevoked(r)
       PROVE GrantInv'
  <2>1. Finished(r) /\ UNCHANGED <<flows, sess, codes, acct, links, consents, earned, approved, unaware>>
    BY <1>19 DEF MarkRevoked
  <2> QED BY <2>1, SameAccounts, QuietEnd DEF GrantInv
<1>20. ASSUME NEW r \in Requests, CheckFactor(r)
       PROVE GrantInv'
  <2>1. req[r] \in RequestRecord /\ Shape(req[r]) /\ Vouches(req[r])
    BY <1>20, AtStep DEF CheckFactor, GrantInv, RequestsVouched, Busy
  <2>2. req[r].pc = "factor" /\ req[r].op = "mfa"
    BY <1>20, <2>1, OpOf DEF CheckFactor
  <2>3. UNCHANGED <<flows, sess, codes, acct, links, consents, earned, approved, unaware>>
    BY <1>20 DEF CheckFactor
  <2>4. Keeps /\ AccountsVouched'
    BY <2>3, SameAccounts DEF GrantInv
  <2>5. CASE Goto(r, "get")
    <3>1. "get" \in Pcs
      BY DEF Pcs
    <3>2. Shape(MovedTo(req[r], "get")) /\ Vouches(MovedTo(req[r], "get"))
      BY <2>1, <2>2, <3>1, Moved DEF Shape, Last, Vouches, FlowSteps
    <3> QED BY <2>2, <2>3, <2>4, <2>5, <3>1, <3>2, GotoVouched
  <2>6. CASE Goto(r, "mfaReject")
    <3>1. "mfaReject" \in Pcs
      BY DEF Pcs
    <3>2. Shape(MovedTo(req[r], "mfaReject")) /\ Vouches(MovedTo(req[r], "mfaReject"))
      BY <2>1, <2>2, <3>1, Moved DEF Shape, Last, Vouches, FlowSteps
    <3> QED BY <2>2, <2>3, <2>4, <2>6, <3>1, <3>2, GotoVouched
  <2>7. CASE Finished(r)
    BY <2>3, <2>4, <2>7, QuietEnd
  <2> QED BY <1>20, <2>5, <2>6, <2>7 DEF CheckFactor
<1>21. ASSUME NEW r \in Requests, GetSession(r)
       PROVE GrantInv'
  <2>1. req[r] \in RequestRecord /\ Shape(req[r]) /\ Vouches(req[r])
    BY <1>21, AtStep DEF GetSession, GrantInv, RequestsVouched, Busy
  <2>2. req[r].pc = "get" /\ req[r].op \in {"mfa", "organization"} /\ req[r].c.sid \in Sessions
    BY <1>21, <2>1, OpOf DEF GetSession, Shape, Last
  <2>3. UNCHANGED <<flows, sess, codes, acct, links, consents, earned, approved, unaware>>
    BY <1>21 DEF GetSession
  <2>4. Keeps /\ AccountsVouched'
    BY <2>3, SameAccounts DEF GrantInv
  <2> DEFINE s == sess[req[r].c.sid]
  <2>5. \/ /\ s # None /\ (req[r].op = "mfa" => s.user = req[r].u)
           /\ req' = [req EXCEPT ![r] = Fetched(req[r], s)]
        \/ Finished(r)
        \/ req[r].op = "organization" /\ req' = [req EXCEPT ![r] = Bound(req[r])]
    BY <1>21 DEF GetSession, Fetched, Bound
  <2>6. s \in SsoSession \cup {None} /\ (s # None => Vouched(req[r].c.sid, s))
    BY <2>2 DEF ShapeInv, TypeOK, GrantInv, SessionsVouched
  <2> HIDE DEF s
  <2>7. CASE /\ s # None /\ (req[r].op = "mfa" => s.user = req[r].u)
             /\ req' = [req EXCEPT ![r] = Fetched(req[r], s)]
    <3> DEFINE n == Fetched(req[r], s)
    <3>1. /\ n \in RequestRecord /\ Shape(n) /\ req' = [req EXCEPT ![r] = n]
          /\ n.pc = "store" /\ n.op = req[r].op /\ n.f = req[r].f /\ n.c = req[r].c
          /\ n.sid = req[r].c.sid /\ n.s = s /\ n.u = req[r].u
      BY <2>1, <2>2, <2>6, <2>7, FetchedShape
    <3> HIDE DEF n
    <3>2. Vouches(n)
      BY <2>1, <2>2, <2>6, <3>1 DEF Vouches, FlowSteps, Last
    <3> QED BY <2>3, <2>4, <3>1, <3>2, QuietStep
  <2>8. CASE req[r].op = "organization" /\ req' = [req EXCEPT ![r] = Bound(req[r])]
    BY <2>1, <2>2, <2>3, <2>4, <2>8, BoundVouched, QuietStep
  <2>9. CASE Finished(r)
    BY <2>3, <2>4, <2>9, QuietEnd
  <2> QED BY <2>5, <2>7, <2>8, <2>9
<1>22. ASSUME NEW r \in Requests, RegisterUser(r)
       PROVE GrantInv'
  <2>1. req[r] \in RequestRecord /\ Shape(req[r]) /\ Vouches(req[r])
    BY <1>22, AtStep DEF RegisterUser, GrantInv, RequestsVouched, Busy
  <2>2. req[r].pc = "register" /\ req[r].op = "signup" /\ req[r].u \in Users /\ req[r].f \in Flows
    BY <1>22, <2>1, OpOf DEF RegisterUser, Shape, Last
  <2>3. UNCHANGED <<flows, sess, codes, consents, earned, approved, unaware>>
    BY <1>22 DEF RegisterUser
  <2>5. CASE Finished(r) /\ UNCHANGED <<acct, links>>
    BY <2>3, <2>5, SameAccounts, QuietEnd DEF GrantInv
  <2>6. CASE acct[req[r].u].status = "absent"
    <3>1. Fresh(req[r].f, req[r].u)
      BY <2>2, <2>6 DEF GrantInv, AccountsVouched, Fresh
    <3>2. /\ \/ acct' = [acct EXCEPT ![req[r].u].status = "active"]
             \/ acct' = [acct EXCEPT ![req[r].u].status = "pending"]
          /\ Goto(r, "pending") \/ Assessed(r, FALSE)
      BY <1>22, <2>6 DEF RegisterUser
    <3>3. /\ \A u \in Users : acct'[u].owes = acct[u].owes
          /\ \A u \in Users : acct'[u].status = "absent" => acct[u].status = "absent"
      BY <2>2, <3>2, SMTT(30) DEF ShapeInv, TypeOK, Account
    <3>5. Keeps /\ AccountsVouched'
      BY <2>3, <3>3 DEF GrantInv, AccountsVouched, Keeps
    <3>6. CASE Goto(r, "pending")
      <4>1. "pending" \in Pcs
        BY DEF Pcs
      <4>2. Shape(MovedTo(req[r], "pending")) /\ Vouches(MovedTo(req[r], "pending"))
        BY <2>1, <2>2, <3>1, <4>1, Moved DEF Shape, Last, Vouches, FlowSteps
      <4> QED BY <2>2, <2>3, <3>5, <3>6, <4>1, <4>2, GotoVouched
    <3>7. ASSUME NEW must \in BOOLEAN, Assessed(r, must) PROVE GrantInv'
      BY <2>2, <2>3, <3>1, <3>5, <3>7, AssessedVouched DEF Last
    <3> QED BY <3>2, <3>6, <3>7
  <2> QED BY <1>22, <2>5, <2>6 DEF RegisterUser
<1>23. ASSUME NEW r \in Requests, ResumeAfterVerification(r)
       PROVE GrantInv'
  <2>1. req[r] \in RequestRecord /\ Shape(req[r]) /\ Vouches(req[r])
    BY <1>23, AtStep DEF ResumeAfterVerification, GrantInv, RequestsVouched, Busy
  <2>2. /\ req[r].pc = "resume" /\ req[r].op = "signup" /\ req[r].f \in Flows
        /\ req[r].u \in Users
    BY <1>23, <2>1, OpOf DEF ResumeAfterVerification, Shape
  <2>3. UNCHANGED <<flows, sess, codes, acct, links, consents, earned, approved, unaware>>
    BY <1>23 DEF ResumeAfterVerification
  <2>4. Keeps /\ AccountsVouched'
    BY <2>3, SameAccounts DEF GrantInv
  <2>5. CASE Finished(r)
    BY <2>3, <2>4, <2>5, QuietEnd
  <2>6. CASE At(req[r].f, {"VerifyEmail"}) /\ flows[req[r].f].user = req[r].u /\
             \E risk : req' = [req EXCEPT ![r] = Resumed(req[r], risk, flows[req[r].f])]
    <3>1. PICK risk : req' = [req EXCEPT ![r] = Resumed(req[r], risk, flows[req[r].f])]
      BY <2>6
    <3>2. /\ flows[req[r].f] \in LoginFlowRecord /\ Placed(flows[req[r].f])
          /\ flows[req[r].f].stage = "VerifyEmail" /\ Carries(req[r].f, flows[req[r].f])
          /\ Settled(req[r].f, flows[req[r].f])
      BY <2>2, <2>6 DEF At, ShapeInv, TypeOK, FlowsPlaced, GrantInv, FlowsVouched
    <3>7. PICK c : c = flows[req[r].f]
      OBVIOUS
    <3>8. c \in LoginFlowRecord /\ Placed(c) /\ c.stage = "VerifyEmail"
      BY <3>2, <3>7
    <3> DEFINE n == Resumed(req[r], risk, c)
    <3>3. /\ n \in RequestRecord /\ Shape(n)
          /\ n.pc \in {"delete", "record"} /\ n.op = req[r].op /\ n.f = req[r].f
          /\ n.c = c /\ n.sid = req[r].sid /\ n.s = req[r].s /\ n.u = req[r].u
      <4>1. n \in RequestRecord /\ Shape(n)
        BY <2>1, <2>2, <3>8, ResumedShape, ZenonT(40)
      <4>2. n.pc \in {"delete", "record"} /\ n.op = req[r].op /\ n.f = req[r].f
        BY <2>1, <2>2, <3>8, ResumedShape, ZenonT(40)
      <4>3. n.c = c /\ n.sid = req[r].sid
        BY <2>1, <2>2, <3>8, ResumedShape, ZenonT(40)
      <4>4. n.u = req[r].u
        BY <2>1, <2>2, <3>8, ResumedShape, ZenonT(40)
      <4>5. n.s = req[r].s
        BY <2>1, <2>2, <3>8, ResumedShape, ZenonT(40)
      <4> QED BY <4>1, <4>2, <4>3, <4>4, <4>5
    <3>4. req' = [req EXCEPT ![r] = n]
      BY <3>1, <3>7
    <3> HIDE DEF n
    <3>5. Fresh(req[r].f, req[r].u)
      BY <2>6, <3>2 DEF Settled
    <3>6. Vouches(n)
      BY <2>1, <2>2, <3>2, <3>3, <3>5, <3>7 DEF Vouches, FlowSteps, Last
    <3> QED BY <2>3, <2>4, <3>3, <3>4, <3>6, QuietStep
  <2> QED BY <1>23, <2>5, <2>6 DEF ResumeAfterVerification, Resumed
<1>24. ASSUME NEW r \in Requests, SaveAttempts(r)
       PROVE GrantInv'
  <2>1. PICK q \in RequestRecord : q = req[r] /\ Shape(q) /\ Vouches(q)
    BY <1>24, AtStep DEF SaveAttempts, GrantInv, RequestsVouched, Busy
  <2> DEFINE c == [q.c EXCEPT !.attempts = @ + 1]
  <2>2. /\ q.pc = "attempts" /\ q.op = "first" /\ flows' = [flows EXCEPT ![q.f] = c]
        /\ Finished(r) /\ UNCHANGED <<sess, codes, acct, links, consents, earned, approved, unaware>>
    BY <1>24, <2>1, OpOf DEF SaveAttempts
  <2>3. Keeps /\ AccountsVouched'
    BY <2>2, SameAccounts DEF GrantInv
  <2>4. q.f \in Flows /\ q.c \in LoginFlowRecord
    BY <2>1, <2>2 DEF Shape, Last, RequestRecord
  <2>5. c \in LoginFlowRecord /\ c.stage = q.c.stage /\ c.mfa = q.c.mfa
    BY <2>4 DEF LoginFlowRecord
  <2>6. q.c.stage = "Authenticate" /\ ~ q.c.mfa
    BY <2>1, <2>2 DEF Shape, Last, Vouches
  <2> HIDE DEF c
  <2>7. Carries(q.f, c)' /\ Settled(q.f, c)'
    BY <2>5, <2>6 DEF Carries, Settled, Early
  <2>8. FlowsVouched'
    BY <2>2, <2>3, <2>4, <2>5, <2>7, FlowVouched DEF GrantInv
  <2> QED BY <2>2, <2>3, <2>8, NoRequestVouched, SessionVouched, CodesKept DEF GrantInv
<1>25. ASSUME NEW r \in Requests, SavePending(r)
       PROVE GrantInv'
  <2>1. PICK q \in RequestRecord : q = req[r] /\ Shape(q) /\ Vouches(q)
    BY <1>25, AtStep DEF SavePending, GrantInv, RequestsVouched, Busy
  <2> DEFINE c1 == [q.c EXCEPT !.user = q.u]
             c == [c1 EXCEPT !.stage = "VerifyEmail"]
  <2>2. /\ q.pc = "pending" /\ q.op = "signup" /\ flows' = [flows EXCEPT ![q.f] = c]
        /\ Finished(r) /\ UNCHANGED <<sess, codes, acct, links, consents, earned, approved, unaware>>
    BY <1>25, <2>1, OpOf DEF SavePending
  <2>3. Keeps /\ AccountsVouched'
    BY <2>2, SameAccounts DEF GrantInv
  <2>4. q.f \in Flows /\ q.c \in LoginFlowRecord /\ q.u \in Users /\ ~ q.c.mfa
    BY <2>1, <2>2 DEF Shape, Last, RequestRecord
  <2>5. c1 \in LoginFlowRecord
    BY <2>4 DEF LoginFlowRecord
  <2>6. c \in LoginFlowRecord
    <3> HIDE DEF c1
    <3> QED BY <2>5 DEF LoginFlowRecord, FlowStage
  <2>7. c.stage = "VerifyEmail" /\ c.mfa = q.c.mfa /\ c.user = q.u
    BY <2>4 DEF LoginFlowRecord
  <2>10. Fresh(q.f, q.u)'
    BY <2>1, <2>2 DEF Vouches, Fresh
  <2> HIDE DEF c
  <2>8. Carries(q.f, c)' /\ Settled(q.f, c)'
    BY <2>4, <2>7, <2>10 DEF Carries, Settled, Early
  <2>9. FlowsVouched'
    BY <2>2, <2>3, <2>4, <2>6, <2>8, FlowVouched DEF GrantInv
  <2> QED BY <2>2, <2>3, <2>9, NoRequestVouched, SessionVouched, CodesKept DEF GrantInv
<1>26. ASSUME NEW r \in Requests, DeleteFlow(r)
       PROVE GrantInv'
  <2>1. PICK q \in RequestRecord : q = req[r] /\ Shape(q) /\ Vouches(q)
    BY <1>26, AtStep DEF DeleteFlow, GrantInv, RequestsVouched, Busy
  <2>2. /\ q.f \in Flows /\ (flows' = [flows EXCEPT ![q.f] = None] \/ flows' = flows)
        /\ Finished(r) /\ UNCHANGED <<sess, codes, acct, links, consents, earned, approved, unaware>>
    BY <1>26, <2>1, OpOf DEF DeleteFlow, Deletes, FailsToDelete, Shape
  <2>3. Keeps /\ AccountsVouched'
    BY <2>2, SameAccounts DEF GrantInv
  <2>4. FlowsVouched'
    BY <2>2, <2>3, FlowVouched, NoFlowVouched DEF GrantInv
  <2> QED BY <2>2, <2>3, <2>4, NoRequestVouched, SessionVouched, CodesKept DEF GrantInv
<1>27. ASSUME NEW r \in Requests, MfaReject(r)
       PROVE GrantInv'
  <2>1. PICK q \in RequestRecord : q = req[r] /\ Shape(q) /\ Vouches(q)
    BY <1>27, AtStep DEF MfaReject, GrantInv, RequestsVouched, Busy
  <2> DEFINE c == [q.c EXCEPT !.attempts = @ + 1]
  <2>2. /\ q.pc = "mfaReject" /\ q.op = "mfa"
        /\ \/ flows' = [flows EXCEPT ![q.f] = c]
           \/ flows' = [flows EXCEPT ![q.f] = None]
        /\ Finished(r) /\ UNCHANGED <<sess, codes, acct, links, consents, earned, approved, unaware>>
    BY <1>27, <2>1, OpOf DEF MfaReject
  <2>3. Keeps /\ AccountsVouched'
    BY <2>2, SameAccounts DEF GrantInv
  <2>4. /\ q.f \in Flows /\ q.c \in LoginFlowRecord /\ q.c.stage = "Mfa"
        /\ q.c.user \in Users /\ Carries(q.f, q.c) /\ ~ q.c.mfa
    BY <2>1, <2>2 DEF Shape, Last, RequestRecord, Vouches, FlowSteps
  <2>5. c \in LoginFlowRecord /\ c.stage = "Mfa" /\ c.user = q.c.user /\ c.mfa = q.c.mfa
    BY <2>4 DEF LoginFlowRecord
  <2> HIDE DEF c
  <2>6. Carries(q.f, c)' /\ Settled(q.f, c)'
    BY <2>3, <2>4, <2>5 DEF Carries, Fresh, Settled, Early, Keeps
  <2>7. FlowsVouched'
    BY <2>2, <2>3, <2>4, <2>5, <2>6, FlowVouched DEF GrantInv
  <2> QED BY <2>2, <2>3, <2>7, NoRequestVouched, SessionVouched, CodesKept DEF GrantInv
<1>28. ASSUME NEW r \in Requests, EndSessionsForUser(r)
       PROVE GrantInv'
  <2>1. /\ Finished(r) /\ UNCHANGED <<flows, codes, acct, links, consents, earned, approved, unaware>>
        /\ \A s \in Sessions : sess'[s] # None => sess'[s] = sess[s]
    BY <1>28 DEF EndSessionsForUser, EndAll
  <2>2. Keeps /\ AccountsVouched'
    BY <2>1, SameAccounts DEF GrantInv
  <2> QED BY <2>1, <2>2, NoRequestVouched, SessionVouched, CodesKept, NoFlowVouched DEF GrantInv
<1>29. ASSUME NEW r \in Requests, EvictOldest(r)
       PROVE GrantInv'
  <2>1. PICK q \in RequestRecord : q = req[r] /\ Shape(q) /\ Vouches(q)
    BY <1>29, AtStep DEF EvictOldest, GrantInv, RequestsVouched, Busy
  <2>2. /\ q.pc = "open" /\ q.op \in {"first", "signup"}
        /\ req' = [req EXCEPT ![r] = Cleared(q)]
        /\ UNCHANGED <<flows, codes, acct, links, consents, earned, approved, unaware>>
        /\ \A s \in Sessions : sess'[s] # None => sess'[s] = sess[s]
    BY <1>29, <2>1, OpOf DEF EvictOldest, Cleared, EndAll
  <2>3. Keeps /\ AccountsVouched'
    BY <2>2, SameAccounts DEF GrantInv
  <2> DEFINE n == Cleared(q)
  <2>4. /\ n \in RequestRecord /\ Shape(n) /\ req' = [req EXCEPT ![r] = n]
        /\ n.pc = "create" /\ n.op = q.op /\ n.f = q.f /\ n.c = q.c
        /\ n.sid = None /\ n.s = None /\ n.u = q.u /\ n.must = q.must
    BY <2>1, <2>2, ClearedShape
  <2> HIDE DEF n
  <2>5. Vouches(n)
    BY <2>1, <2>2, <2>4 DEF Vouches, FlowSteps, Last
  <2>6. RequestsVouched'
    BY <2>3, <2>4, <2>5, RequestKept, RequestVouched DEF GrantInv
  <2> QED BY <2>2, <2>3, <2>6, SessionVouched, CodesKept, NoFlowVouched DEF GrantInv
<1>30. ASSUME NEW r \in Requests, ReauthSession(r)
       PROVE GrantInv'
  <2>1. PICK q \in RequestRecord : q = req[r] /\ Shape(q) /\ Vouches(q)
    BY <1>30, AtStep DEF ReauthSession, GrantInv, RequestsVouched, Busy
  <2> DEFINE m == q.method = "passkey"
             x == [q.s EXCEPT !.mfa = m]
  <2>2. /\ q.pc = "open" /\ q.op \in {"first", "signup"} /\ q.u \in Users
        /\ q.s \in SsoSession /\ q.s.user = q.u /\ q.sid \in Sessions
        /\ sess' = [sess EXCEPT ![q.sid] = x]
        /\ req' = [req EXCEPT ![r] = SignedIn(q, q.sid)]
        /\ UNCHANGED <<flows, codes, acct, links, consents, approved, unaware>>
    BY <1>30, <2>1, OpOf DEF ReauthSession, ReusesSession, Shape, Last, RequestRecord
  <2>3. /\ m \in BOOLEAN /\ (q.method = "passkey" => <<q.sid, q.u>> \in earned')
        /\ m => <<q.sid, q.u>> \in earned'
        /\ earned \subseteq earned'
    BY <1>30, <2>1 DEF ReauthSession, Earn
  <2>4. Keeps /\ AccountsVouched'
    BY <2>2, <2>3 DEF GrantInv, AccountsVouched, Keeps
  <2> DEFINE n == SignedIn(q, q.sid)
  <2>5. /\ n \in RequestRecord /\ Shape(n)
        /\ n.pc = "save" /\ n.sid = q.sid
        /\ n.op = q.op /\ n.f = q.f /\ n.s = q.s /\ n.u = q.u
        /\ n.must = q.must
        /\ n.c.sid = q.sid /\ n.c.user = q.u /\ n.c.stage = q.c.stage
        /\ n.c.mfa = (q.method = "passkey")
    BY <2>1, <2>2, SignedInShape
  <2>6. req' = [req EXCEPT ![r] = n]
    BY <2>2
  <2> HIDE DEF n
  <2>7. Vouches(n)'
    <3>1. Carries(n.f, n.c)'
      BY <2>1, <2>2, <2>3, <2>5 DEF Carries, Shape, Last, Early
    <3>2. n.s # None => Vouched(n.sid, n.s)'
      BY <2>1, <2>2, <2>4, <2>5 DEF Vouches, Vouched, Keeps
    <3>3. n.must \/ Fresh(n.f, n.u)'
      BY <2>1, <2>2, <2>4, <2>5 DEF Vouches, Fresh, Keeps
    <3> QED BY <2>1, <2>2, <2>4, <2>5, <3>1, <3>2, <3>3 DEF Vouches
  <2>8. RequestsVouched'
    BY <2>4, <2>5, <2>6, <2>7, RequestVouched DEF GrantInv
  <2> HIDE DEF m
  <2>9. x.user = q.u
    BY <2>2 DEF SsoSession
  <2>10. x.mfa = m
    BY <2>2, <2>3 DEF SsoSession
  <2> HIDE DEF x
  <2>11. Vouched(q.sid, x)'
    BY <2>3, <2>9, <2>10 DEF Vouched
  <2>12. SessionsVouched'
    BY <2>2, <2>4, <2>11, SessionVouched DEF GrantInv, ShapeInv, TypeOK
  <2> QED BY <2>2, <2>4, <2>8, <2>12, CodesKept, NoFlowVouched DEF GrantInv
<1>31. ASSUME NEW r \in Requests, CreateSession(r)
       PROVE GrantInv'
  <2>1. PICK q \in RequestRecord : q = req[r] /\ Shape(q) /\ Vouches(q)
    BY <1>31, AtStep DEF CreateSession, GrantInv, RequestsVouched, Busy
  <2>20. PICK sid : sid = Cardinality({s \in Sessions : rows[s] # "none"}) + 1
    OBVIOUS
  <2> DEFINE m == q.method = "passkey"
             x == [user |-> q.u, mfa |-> m, org |-> FALSE]
  <2>2. /\ q.pc = "create" /\ q.op \in {"first", "signup"} /\ q.u \in Users
        /\ q.s = None /\ sid \in Sessions
        /\ sess' \in {sess, [sess EXCEPT ![sid] = x]}
        /\ req' = [req EXCEPT ![r] = SignedIn(q, sid)] \/ Finished(r)
        /\ UNCHANGED <<flows, codes, acct, links, consents, approved, unaware>>
    BY <1>31, <2>20, <2>1, OpOf DEF CreateSession, Shape, Vouches
  <2>3. /\ m \in BOOLEAN /\ (q.method = "passkey" => <<sid, q.u>> \in earned')
        /\ m => <<sid, q.u>> \in earned'
        /\ earned \subseteq earned'
    BY <1>31, <2>20, <2>1 DEF CreateSession, Earn
  <2>4. Keeps /\ AccountsVouched'
    BY <2>2, <2>3 DEF GrantInv, AccountsVouched, Keeps
  <2> DEFINE n == SignedIn(q, sid)
  <2>5. /\ n \in RequestRecord /\ Shape(n)
        /\ n.pc = "save" /\ n.sid = sid
        /\ n.op = q.op /\ n.f = q.f /\ n.s = q.s /\ n.u = q.u
        /\ n.must = q.must
        /\ n.c.sid = sid /\ n.c.user = q.u /\ n.c.stage = q.c.stage
        /\ n.c.mfa = (q.method = "passkey")
    BY <2>1, <2>2, SignedInShape DEF Last
  <2>6. req' = [req EXCEPT ![r] = n] \/ Finished(r)
    BY <2>2
  <2> HIDE DEF n
  <2>7. Vouches(n)'
    <3>1. Carries(n.f, n.c)'
      BY <2>1, <2>2, <2>3, <2>5 DEF Carries, Shape, Last, Early
    <3>3. n.must \/ Fresh(n.f, n.u)'
      BY <2>1, <2>2, <2>4, <2>5 DEF Vouches, Fresh, Keeps
    <3> QED BY <2>1, <2>2, <2>4, <2>5, <3>1, <3>3 DEF Vouches
  <2>8. RequestsVouched'
    BY <2>4, <2>5, <2>6, <2>7, RequestVouched, NoRequestVouched DEF GrantInv
  <2> HIDE DEF m
  <2>9. x.user = q.u
    OBVIOUS
  <2>10. x.mfa = m
    OBVIOUS
  <2> HIDE DEF x
  <2>11. Vouched(sid, x)'
    BY <2>3, <2>9, <2>10 DEF Vouched
  <2>12. SessionsVouched'
    BY <2>2, <2>4, <2>11, SessionVouched DEF GrantInv, ShapeInv, TypeOK
  <2> QED BY <2>2, <2>4, <2>8, <2>12, CodesKept, NoFlowVouched DEF GrantInv
<1>32. ASSUME NEW r \in Requests, SaveFlow(r)
       PROVE GrantInv'
  <2>1. PICK q \in RequestRecord : q = req[r] /\ Shape(q) /\ Vouches(q)
    BY <1>32, AtStep DEF SaveFlow, GrantInv, RequestsVouched, Busy
  <2>20. PICK a : a = Advance(q.f, q.c, q.must)
    OBVIOUS
  <2>2. /\ q.pc = "save" /\ flows' = [flows EXCEPT ![q.f] = a]
        /\ Finished(r) /\ UNCHANGED <<sess, codes, acct, links, consents, earned, approved, unaware>>
    BY <1>32, <2>20, <2>1 DEF SaveFlow
  <2>3. /\ q.op \in {"first", "signup", "mfa", "answer", "organization", "consent"}
        /\ q.f \in Flows /\ q.c \in LoginFlowRecord /\ q.c.sid \in Sessions /\ q.c.user \in Users
        /\ ~ q.c.pending /\ q.c.user = q.u
    BY <2>1, <2>2, OpOf DEF Shape, Last, RequestRecord
  <2>4. Keeps /\ AccountsVouched'
    BY <2>2, SameAccounts DEF GrantInv
  <2>5. SessionsVouched'
    BY <2>2, <2>4, SessionVouched DEF GrantInv
  <2>6. /\ a \in LoginFlowRecord /\ Placed(a) /\ a.stage = StageDue(q.f, q.c, q.must)
        /\ a.sid = q.c.sid /\ a.user = q.c.user /\ a.mfa = q.c.mfa /\ a.trusted = q.c.trusted
        /\ a.stepUp = q.c.stepUp
    BY <2>3, <2>20, AdvanceShape
  <2>7. Carries(q.f, a)'
    <3>1. a.stage # "PasswordChange" => ~ q.must
      BY <2>6, StageDueIs
    <3>2. q.op \in {"first", "signup"} /\ ~ q.must => Fresh(q.f, q.u)
      BY <2>1, <2>2 DEF Vouches, Last
    <3>3. q.op \in {"answer"} => Fresh(q.f, q.u)
      BY <2>1, <2>2 DEF Vouches, Last
    <3>4. q.op \in {"mfa", "organization", "consent"} => Fresh(q.f, q.u)
      BY <2>1, <2>2, <2>3 DEF Vouches, FlowSteps, Carries, Shape, Last, Early
    <3>5. q.c.mfa => <<q.c.sid, q.c.user>> \in earned
      BY <2>1, <2>3 DEF Vouches, FlowSteps, Carries
    <3>6. Fresh(q.f, q.u) => Fresh(q.f, q.u)'
      BY <2>4 DEF Fresh, Keeps
    <3> QED BY <2>2, <2>3, <2>6, <3>1, <3>2, <3>3, <3>4, <3>5, <3>6 DEF Carries
  <2>8. Settled(q.f, a)'
    <3>5. a.stage # "VerifyEmail"
      BY <2>6, StageDueIs DEF Early
    <3> SUFFICES ASSUME a.stage = "Done" PROVE ~ MfaRequired(q.f, a) /\ ConsentGiven(q.f, a.user)'
      BY <3>5 DEF Settled, MfaRequired
    <3>1. ~ MfaRequired(q.f, q.c) /\ ~ (ConsentPending(q.f, q.c) /\ q.c.stage # "Done")
      BY <2>6, StageDueIs
    <3>2. ~ MfaRequired(q.f, a)
      BY <2>6, <3>1 DEF MfaRequired
    <3>3. CASE q.op = "consent"
      BY <2>1, <2>2, <2>3, <2>6, <3>2, <3>3 DEF Vouches, Last, ConsentGiven
    <3>4. CASE q.op # "consent"
      <4>1. q.c.stage # "Done" /\ q.c.stage # "Consent"
        BY <2>1, <2>2, <2>3, <3>4 DEF Shape, Last, Early, AnswerStages
      <4> QED BY <2>2, <2>3, <2>6, <3>1, <3>2, <4>1 DEF ConsentPending, ConsentGiven
    <3> QED BY <3>2, <3>3, <3>4
  <2>9. FlowsVouched'
    BY <2>2, <2>3, <2>4, <2>6, <2>7, <2>8, FlowVouched DEF GrantInv
  <2> QED BY <2>2, <2>4, <2>5, <2>9, NoRequestVouched, CodesKept DEF GrantInv
<1>33. ASSUME NEW r \in Requests, StoreSession(r)
       PROVE GrantInv'
  <2>1. PICK q \in RequestRecord : q = req[r] /\ Shape(q) /\ Vouches(q)
    BY <1>33, AtStep DEF StoreSession, GrantInv, RequestsVouched, Busy
  <2>2. /\ q.pc = "store" /\ q.s \in SsoSession /\ q.sid \in Sessions /\ Vouched(q.sid, q.s)
        /\ UNCHANGED <<flows, codes, acct, links, consents, approved, unaware>>
    BY <1>33, <2>1, RecordsAssumption DEF StoreSession, Shape, Last, Vouches
  <2>3. /\ earned \subseteq earned' /\ (q.op = "mfa" => <<q.sid, q.u>> \in earned')
    BY <1>33, <2>1 DEF StoreSession
  <2>4. Keeps /\ AccountsVouched'
    BY <2>2, <2>3 DEF GrantInv, AccountsVouched, Keeps
  <2>5. SessionsVouched'
    <3>1. PICK x \in SsoSession :
            /\ sess' = [sess EXCEPT ![q.sid] = x] /\ x.user = q.s.user
            /\ q.op = "mfa" \/ x.mfa = q.s.mfa
      <4> DEFINE m == [q.s EXCEPT !.mfa = TRUE]
                 o == [q.s EXCEPT !.org = TRUE]
      <4>1. m \in SsoSession /\ m.user = q.s.user
        BY <2>2 DEF SsoSession
      <4>2. o \in SsoSession /\ o.user = q.s.user
        BY <2>2 DEF SsoSession
      <4>3. o.mfa = q.s.mfa
        BY <2>2 DEF SsoSession
      <4>4. \/ q.op = "mfa" /\ sess' = [sess EXCEPT ![q.sid] = m]
            \/ sess' = [sess EXCEPT ![q.sid] = o]
            \/ sess' = [sess EXCEPT ![q.sid] = q.s]
        BY <1>33, <2>1 DEF StoreSession
      <4> HIDE DEF m, o
      <4> QED BY <2>2, <4>1, <4>2, <4>3, <4>4
    <3>2. q.op = "mfa" => q.s.user = q.u
      BY <2>1, <2>2 DEF Shape, Last
    <3>3. Vouched(q.sid, x)'
      <4>1. CASE q.op = "mfa"
        BY <2>3, <3>1, <3>2, <4>1 DEF Vouched
      <4>2. CASE q.op # "mfa"
        BY <2>2, <2>3, <3>1, <4>2 DEF Vouched
      <4> QED BY <4>1, <4>2
    <3> QED BY <2>2, <2>4, <3>1, <3>3, SessionVouched DEF GrantInv, ShapeInv, TypeOK
  <2>6. RequestsVouched'
    <3>1. \/ q.op = "mfa" /\ req' = [req EXCEPT ![r] = Passed(q)]
          \/ q.op = "organization" /\ req' = [req EXCEPT ![r] = Bound(q)]
          \/ q.op = "finish" /\ Goto(r, "finish")
          \/ Finished(r)
      BY <1>33, <2>1 DEF StoreSession, Passed, Bound
    <3>2. CASE q.op = "mfa" /\ req' = [req EXCEPT ![r] = Passed(q)]
      <4> DEFINE n == Passed(q)
      <4>1. /\ n \in RequestRecord /\ Shape(n) /\ req' = [req EXCEPT ![r] = n]
            /\ n.pc = "save" /\ n.op = q.op /\ n.f = q.f /\ n.sid = q.sid
            /\ n.s = q.s /\ n.u = q.u
            /\ n.c.sid = q.c.sid /\ n.c.user = q.c.user /\ n.c.stage = q.c.stage
        BY <2>1, <2>2, <3>2, PassedShape
      <4> HIDE DEF n
      <4>2. q.c.sid = q.sid /\ q.c.user = q.u /\ q.u \in Users /\ Carries(q.f, q.c)
        BY <2>1, <2>2, <3>2 DEF Shape, Last, Vouches, FlowSteps
      <4>3. Carries(n.f, n.c)'
        BY <2>2, <2>3, <3>2, <4>1, <4>2 DEF Carries, Fresh
      <4>4. Vouches(n)'
        BY <2>2, <2>3, <3>2, <4>1, <4>3 DEF Vouches, Vouched
      <4> QED BY <2>4, <4>1, <4>4, RequestVouched DEF GrantInv
    <3>3. CASE q.op = "organization" /\ req' = [req EXCEPT ![r] = Bound(q)]
      BY <2>1, <2>4, <3>3, BoundVouched, RequestKept, RequestVouched DEF GrantInv
    <3>4. CASE q.op = "finish" /\ Goto(r, "finish")
      <4> DEFINE n == MovedTo(q, "finish")
      <4>1. "finish" \in Pcs
        BY DEF Pcs
      <4>2. /\ n \in RequestRecord /\ n.pc = "finish" /\ n.op = q.op /\ n.f = q.f /\ n.c = q.c
            /\ n.sid = q.sid /\ n.s = q.s /\ n.u = q.u
        BY <2>1, <4>1, Moved
      <4>3. req' = [req EXCEPT ![r] = n]
        BY <2>1, <3>4 DEF Goto, MovedTo
      <4> HIDE DEF n
      <4>4. Shape(n) /\ Vouches(n)
        BY <2>1, <3>4, <4>2 DEF Shape, Last, Vouches, FlowSteps
      <4> QED BY <2>4, <4>2, <4>3, <4>4, RequestKept, RequestVouched DEF GrantInv
    <3> QED BY <2>4, <3>1, <3>2, <3>3, <3>4, NoRequestVouched DEF GrantInv
  <2> QED BY <2>2, <2>4, <2>5, <2>6, CodesKept, NoFlowVouched DEF GrantInv
<1>34. ASSUME NEW r \in Requests, WriteAnswer(r)
       PROVE GrantInv'
  <2>1. PICK q \in RequestRecord : q = req[r] /\ Shape(q) /\ Vouches(q)
    BY <1>34, AtStep DEF WriteAnswer, GrantInv, RequestsVouched, Busy
  <2> DEFINE n == MovedTo(q, "save")
  <2>2. /\ q.pc = "answer" /\ q.op = "answer" /\ q.u \in Users /\ q.c.user = q.u
        /\ q.c.stage \in AnswerStages /\ Carries(q.f, q.c)
        /\ acct' = [acct EXCEPT ![q.u].owes =
              @ \ (IF q.c.stage = "PasswordChange" THEN {"PasswordChange", "Expired"}
                   ELSE {q.c.stage})]
        /\ UNCHANGED <<flows, sess, codes, links, consents, earned, approved, unaware>>
    BY <1>34, <2>1, OpOf DEF WriteAnswer, Shape, Last, Vouches, FlowSteps
  <2>3. /\ \A u \in Users : /\ acct'[u].owes \subseteq acct[u].owes
                            /\ acct'[u].status = acct[u].status
        /\ q.c.stage = "PasswordChange" => "PasswordChange" \notin acct'[q.u].owes
    BY <2>2 DEF ShapeInv, TypeOK, Account
  <2>4. Keeps /\ AccountsVouched'
    BY <2>2, <2>3 DEF GrantInv, AccountsVouched, Keeps
  <2>5. "save" \in Pcs
    BY DEF Pcs
  <2>6. /\ n \in RequestRecord /\ n.pc = "save" /\ n.op = q.op /\ n.f = q.f /\ n.c = q.c
        /\ n.sid = q.sid /\ n.s = q.s /\ n.u = q.u
    BY <2>1, <2>5, Moved
  <2>7. req' = [req EXCEPT ![r] = n]
    BY <1>34, <2>1 DEF WriteAnswer, Goto, MovedTo
  <2> HIDE DEF n
  <2>8. Vouches(n)'
    <3>1. Fresh(q.f, q.u)'
      BY <2>2, <2>3, <2>4 DEF Carries, AnswerStages, Early, Fresh, Keeps
    <3>2. Carries(n.f, n.c)'
      BY <2>2, <2>6, <3>1 DEF Carries
    <3>3. n.s # None => Vouched(n.sid, n.s)'
      BY <2>1, <2>2, <2>6 DEF Vouches, Vouched
    <3> QED BY <2>2, <2>6, <3>1, <3>2, <3>3 DEF Vouches
  <2>9. RequestsVouched'
    BY <2>4, <2>6, <2>7, <2>8, RequestVouched DEF GrantInv
  <2> QED BY <2>2, <2>4, <2>9, SessionVouched, CodesKept, NoFlowVouched DEF GrantInv
<1>35. ASSUME NEW r \in Requests, GrantConsent(r)
       PROVE GrantInv'
  <2>1. PICK q \in RequestRecord : q = req[r] /\ Shape(q) /\ Vouches(q)
    BY <1>35, AtStep DEF GrantConsent, GrantInv, RequestsVouched, Busy
  <2> DEFINE n == Consented(q)
  <2>2. /\ q.pc = "consent" /\ q.op = "consent" /\ q.c.user = q.u /\ q.u \in Users
        /\ q.c.stage = "Consent" /\ Carries(q.f, q.c)
        /\ consents' = consents \cup {q.u} /\ approved' = approved \cup {q.f}
        /\ req' = [req EXCEPT ![r] = n]
        /\ UNCHANGED <<flows, sess, codes, acct, links, earned, unaware>>
    BY <1>35, <2>1, OpOf DEF GrantConsent, Shape, Last, Vouches, FlowSteps, Consented
  <2>3. Keeps /\ AccountsVouched'
    BY <2>2 DEF GrantInv, AccountsVouched, Keeps
  <2>4. /\ n \in RequestRecord /\ n.pc = "save" /\ n.op = q.op /\ n.f = q.f
        /\ n.sid = q.sid /\ n.s = q.s /\ n.u = q.u
        /\ n.c.sid = q.c.sid /\ n.c.user = q.c.user /\ n.c.mfa = q.c.mfa /\ n.c.stage = "Done"
    BY <2>1, <2>2, ConsentedShape
  <2> HIDE DEF n
  <2>5. Vouches(n)'
    <3>1. Carries(n.f, n.c)'
      BY <2>2, <2>4 DEF Carries, Early, Fresh
    <3>2. n.s # None => Vouched(n.sid, n.s)'
      BY <2>1, <2>2, <2>4 DEF Vouches, Vouched
    <3> QED BY <2>2, <2>4, <3>1, <3>2 DEF Vouches
  <2>6. RequestsVouched'
    BY <2>2, <2>3, <2>4, <2>5, RequestVouched DEF GrantInv
  <2> QED BY <2>2, <2>3, <2>6, SessionVouched, CodesKept, NoFlowVouched DEF GrantInv
<1>36. ASSUME NEW r \in Requests, FinishFlow(r)
       PROVE GrantInv'
  <2>1. PICK q \in RequestRecord : q = req[r] /\ Shape(q) /\ Vouches(q)
    BY <1>36, AtStep DEF FinishFlow, GrantInv, RequestsVouched, Busy
  <2>2. /\ q.pc = "finish" /\ q.op = "finish" /\ q.f \in Flows
        /\ q.c.user = q.u /\ q.u \in Users /\ q.sid = q.c.sid /\ q.s.user = q.u
        /\ q.c.stage = "Done" /\ Carries(q.f, q.c) /\ Settled(q.f, q.c)
        /\ flows' = [flows EXCEPT ![q.f] = None] \/ flows' = flows
        /\ Issue(q, q.c.trusted, q.c.stepUp)
        /\ Finished(r) /\ UNCHANGED <<sess, acct, links, consents, earned, approved, unaware>>
    BY <1>36, <2>1, OpOf DEF FinishFlow, Deletes, FailsToDelete, Shape, Vouches, FlowSteps
  <2>3. Keeps /\ AccountsVouched'
    BY <2>2, SameAccounts DEF GrantInv
  <2>4. FlowsVouched'
    BY <2>2, <2>3, FlowVouched, NoFlowVouched DEF GrantInv
  <2>20. PICK k : k = [f |-> q.f, sid |-> q.sid, user |-> q.s.user, waived |-> q.c.trusted,
                       stepUp |-> q.c.stepUp, left |-> acct[q.s.user].owes]
    OBVIOUS
  <2>5. codes' = codes \cup {k}
    BY <2>2, <2>20 DEF Issue
  <2>6. /\ k.f = q.f /\ k.sid = q.c.sid /\ k.user = q.c.user
        /\ k.left = acct[q.c.user].owes
    BY <2>2, <2>20
  <2>7. k.waived = q.c.trusted /\ k.stepUp = q.c.stepUp
    BY <2>20
  <2>8. Granted(k)'
    <3>1. "PasswordChange" \in k.left => <<k.f, k.user>> \in unaware'
      BY <2>2, <2>6 DEF Carries, Early, Fresh
    <3>2. \/ k.f \in AcrMfa \/ k.stepUp
          \/ k.user \in MfaUsers /\ ~ k.waived
          => <<k.sid, k.user>> \in earned'
      BY <2>2, <2>6, <2>7 DEF Carries, Settled, MfaRequired
    <3>3. ConsentGiven(k.f, k.user)'
      BY <2>2, <2>6 DEF Settled, ConsentGiven
    <3> QED BY <3>1, <3>2, <3>3 DEF Granted
  <2>9. CodesVouched'
    BY <2>3, <2>5, <2>8, CodesKept DEF GrantInv
  <2> QED BY <2>2, <2>3, <2>4, <2>9, NoRequestVouched, SessionVouched DEF GrantInv
<1>37. ASSUME NEW r \in Requests, Decide(r)
       PROVE GrantInv'
  <2>1. PICK q \in RequestRecord : q = req[r] /\ Shape(q) /\ Vouches(q)
    BY <1>37, AtStep DEF Decide, GrantInv, RequestsVouched, Busy
  <2>2. /\ q.pc = "decide" /\ q.op = "authorize" /\ q.f \in Flows
        /\ Finished(r) /\ UNCHANGED <<sess, acct, links, consents, earned, approved, unaware>>
    BY <1>37, <2>1, OpOf DEF Decide, Shape, Last
  <2>3. Keeps /\ AccountsVouched'
    BY <2>2, SameAccounts DEF GrantInv
  <2>4. RequestsVouched' /\ SessionsVouched'
    BY <2>2, <2>3, NoRequestVouched, SessionVouched DEF GrantInv
  <2>5. CASE OpensSignIn(q)
    <3>1. PICK c \in LoginFlowRecord :
            /\ flows' = [flows EXCEPT ![q.f] = c] /\ codes' = codes
            /\ Placed(c) /\ c.stage \in {"Authenticate", "Register"}
      BY <2>5 DEF OpensSignIn
    <3>2. Carries(q.f, c)' /\ Settled(q.f, c)'
      BY <3>1 DEF Placed, Carries, Settled, Early
    <3> QED BY <2>2, <2>3, <2>4, <3>1, <3>2, FlowVouched, CodesKept DEF GrantInv
  <2>6. CASE OpensOwing(q)
    <3>1. PICK c \in LoginFlowRecord :
            /\ flows' = [flows EXCEPT ![q.f] = c] /\ codes' = codes
            /\ c.stage \in {"PasswordChange", "Mfa", "Consent"}
            /\ q.s \in SsoSession /\ c.sid = q.sid /\ c.user = q.s.user
            /\ c.mfa => q.s.mfa
            /\ c.stage # "PasswordChange" => "PasswordChange" \notin acct[q.s.user].owes
      BY <2>6 DEF OpensOwing
    <3>2. Vouched(q.sid, q.s)
      BY <2>1, <3>1, RecordsAssumption DEF Vouches
    <3>3. Carries(q.f, c)' /\ Settled(q.f, c)'
      BY <2>2, <3>1, <3>2 DEF Carries, Vouched, Settled, Fresh
    <3> QED BY <2>2, <2>3, <2>4, <3>1, <3>3, FlowVouched, CodesKept DEF GrantInv
  <2>7. CASE flows' = flows /\ codes' = codes
    BY <2>3, <2>4, <2>7, NoFlowVouched, CodesKept DEF GrantInv
  <2>8. CASE IssuesCode(q)
    <3>1. PICK waived \in BOOLEAN, stepUp \in BOOLEAN :
            /\ Issue(q, waived, stepUp) /\ flows' = flows
            /\ q.s \in SsoSession /\ "PasswordChange" \notin acct[q.s.user].owes
            /\ \/ q.f \in AcrMfa \/ stepUp
               \/ q.s.user \in MfaUsers /\ ~ waived
               => q.s.mfa
            /\ q.f \notin ForceConsent
            /\ q.f \in SkipConsent \/ q.s.user \in consents
      BY <2>8 DEF IssuesCode
    <3>2. Vouched(q.sid, q.s)
      BY <2>1, <3>1, RecordsAssumption DEF Vouches
    <3>20. PICK k : k = [f |-> q.f, sid |-> q.sid, user |-> q.s.user, waived |-> waived,
                         stepUp |-> stepUp, left |-> acct[q.s.user].owes]
      OBVIOUS
    <3>3. codes' = codes \cup {k}
      BY <3>1, <3>20 DEF Issue
    <3>4. k.f = q.f /\ k.sid = q.sid /\ k.user = q.s.user /\ k.left = acct[q.s.user].owes
      BY <3>20
    <3>5. k.waived = waived /\ k.stepUp = stepUp
      BY <3>20
    <3>6. Granted(k)'
      <4>1. \/ k.f \in AcrMfa \/ k.stepUp
            \/ k.user \in MfaUsers /\ ~ k.waived
            => <<k.sid, k.user>> \in earned'
        BY <2>2, <3>1, <3>2, <3>4, <3>5 DEF Vouched
      <4>2. ConsentGiven(k.f, k.user)'
        BY <2>2, <3>1, <3>4 DEF ConsentGiven
      <4> QED BY <3>1, <3>4, <4>1, <4>2 DEF Granted
    <3> QED BY <2>3, <2>4, <3>1, <3>3, <3>6, NoFlowVouched, CodesKept DEF GrantInv
  <2> QED BY <1>37, <2>1, <2>5, <2>6, <2>7, <2>8, DecideIs
<1>38. ASSUME NEW r \in Requests, BindOnTheWay(r)
       PROVE GrantInv'
  <2>1. req[r] \in RequestRecord /\ Shape(req[r]) /\ Vouches(req[r])
    BY <1>38, AtStep DEF BindOnTheWay, GrantInv, RequestsVouched, Busy
  <2>2. PICK s : s = sess[req[r].c.sid]
    OBVIOUS
  <2>3. /\ req[r].pc = "save" /\ req' = [req EXCEPT ![r] = Binding(req[r], s)]
        /\ UNCHANGED <<flows, sess, codes, acct, links, consents, earned, approved, unaware>>
    BY <1>38, <2>2 DEF BindOnTheWay, Binding
  <2>4. s \in SsoSession /\ Vouched(req[r].c.sid, s)
    <3>1. req[r].c.sid \in Sessions
      BY <2>1, <2>3, OpOf DEF Shape, Last
    <3>2. s # None
      BY <1>38, <2>2 DEF BindOnTheWay, BindingDue
    <3> QED BY <2>2, <3>1, <3>2 DEF ShapeInv, TypeOK, GrantInv, SessionsVouched
  <2> QED BY <2>1, <2>3, <2>4, BindingVouched, SameAccounts, QuietStep DEF GrantInv
<1>39. ASSUME NEW r \in Requests, StoreBinding(r)
       PROVE GrantInv'
  <2>1. PICK q \in RequestRecord : q = req[r] /\ Shape(q) /\ Vouches(q)
    BY <1>39, AtStep DEF StoreBinding, GrantInv, RequestsVouched, Busy
  <2> DEFINE x == [q.s EXCEPT !.org = TRUE]
  <2>2. /\ q.pc = "bind" /\ q.s \in SsoSession /\ q.sid \in Sessions /\ Vouched(q.sid, q.s)
        /\ sess' = [sess EXCEPT ![q.sid] = x] /\ req' = [req EXCEPT ![r] = Bound(q)]
        /\ UNCHANGED <<flows, codes, acct, links, consents, earned, approved, unaware>>
    BY <1>39, <2>1, RecordsAssumption DEF StoreBinding, Bound, Shape, Vouches
  <2>3. Keeps /\ AccountsVouched'
    BY <2>2, SameAccounts DEF GrantInv
  <2>4. x \in SsoSession /\ x.user = q.s.user
    BY <2>2 DEF SsoSession
  <2>5. x.mfa = q.s.mfa
    BY <2>2 DEF SsoSession
  <2> HIDE DEF x
  <2>6. Vouched(q.sid, x)'
    BY <2>2, <2>4, <2>5 DEF Vouched
  <2>7. SessionsVouched'
    BY <2>2, <2>3, <2>6, SessionVouched DEF GrantInv, ShapeInv, TypeOK
  <2>8. RequestsVouched'
    BY <2>1, <2>2, <2>3, BoundVouched, RequestKept, RequestVouched DEF GrantInv
  <2> QED BY <2>2, <2>3, <2>7, <2>8, CodesKept, NoFlowVouched DEF GrantInv
<1>40. ASSUME NEW u \in Users, PasswordExpires(u)
       PROVE GrantInv'
  <2>1. /\ UNCHANGED <<flows, sess, codes, links, consents, earned, approved, unaware, req>>
        /\ acct' = [acct EXCEPT ![u].owes = @ \cup {"Expired"}]
    BY <1>40 DEF PasswordExpires
  <2>2. \A v \in Users : /\ "PasswordChange" \in acct'[v].owes => "PasswordChange" \in acct[v].owes
                         /\ acct'[v].status = acct[v].status
    BY <2>1 DEF ShapeInv, TypeOK, Account
  <2>3. Keeps /\ AccountsVouched'
    BY <2>1, <2>2 DEF GrantInv, AccountsVouched, Keeps
  <2> QED BY <2>1, <2>3, QuietEnd
<1>41. ASSUME NEW u \in Users, ForcePasswordChange(u)
       PROVE GrantInv'
  <2>1. /\ UNCHANGED <<flows, sess, codes, consents, earned, approved, req>>
        /\ acct' = [acct EXCEPT ![u].owes = @ \cup {"PasswordChange"}]
        /\ acct[u].status # "absent" /\ unaware' = unaware \cup (Underway(u) \X {u})
    BY <1>41 DEF ForcePasswordChange
  <2>2. /\ \A v \in Users \ {u} : acct'[v] = acct[v]
        /\ acct'[u].status = acct[u].status
    BY <2>1 DEF ShapeInv, TypeOK, Account
  <2>3. AccountsVouched'
    BY <2>1, <2>2 DEF GrantInv, AccountsVouched
  <2>4. ASSUME NEW f, NEW v, Fresh(f, v), v = u => f \in Underway(u)
        PROVE  Fresh(f, v)'
    BY <2>1, <2>2, <2>4 DEF Fresh
  <2>5. ASSUME NEW f \in Flows, flows[f] # None
        PROVE  Carries(f, flows[f])' /\ Settled(f, flows[f])'
    <3> DEFINE c == flows[f]
    <3>1. Carries(f, c) /\ Settled(f, c)
      BY <2>5 DEF GrantInv, FlowsVouched
    <3>2. Fresh(f, c.user) => Fresh(f, c.user)'
      <4>1. c.user = u => f \in Underway(u)
        BY <2>5 DEF Underway
      <4> QED BY <2>1, <2>4, <4>1
    <3>3. (MfaRequired(f, c)' <=> MfaRequired(f, c)) /\ (ConsentGiven(f, c.user)' <=> ConsentGiven(f, c.user))
      BY <2>1 DEF MfaRequired, ConsentGiven
    <3> QED BY <2>1, <3>1, <3>2, <3>3 DEF Carries, Settled
  <2>6. ASSUME NEW r \in Requests, Busy(r) PROVE Vouches(req[r])'
    <3>1. PICK q \in RequestRecord : q = req[r] /\ Shape(q) /\ Vouches(q) /\ q.pc # "idle"
      BY <2>6, AtStep DEF GrantInv, RequestsVouched, Busy
    <3>2. q.pc # "check" /\ q.f \in Flows /\ q.u = u => q.f \in Underway(u)
      BY <2>6, <3>1 DEF Underway
    <3>3. q.pc # "check" /\ q.f \in Flows /\ Fresh(q.f, q.u) => Fresh(q.f, q.u)'
      BY <2>1, <2>4, <3>2
    <3>4. q.op \in FlowSteps => Carries(q.f, q.c)'
      <4>1. CASE q.op \in {"first", "signup"}
        BY <2>1, <3>1, <4>1 DEF Vouches, FlowSteps, Carries, Shape
      <4>2. CASE q.op \in FlowSteps \ {"first", "signup"}
        <5>1. q.pc # "check" /\ q.f \in Flows /\ q.c.user = q.u
          BY <3>1, <4>2 DEF Shape, FlowSteps, Last
        <5> QED BY <2>1, <3>1, <3>3, <4>2, <5>1 DEF Vouches, Carries
      <4> QED BY <4>1, <4>2
    <3>5. q.op = "finish" => Settled(q.f, q.c)'
      <4>1. q.op = "finish" => q.c.stage = "Done"
        BY <3>1 DEF Shape
      <4>2. (MfaRequired(q.f, q.c)' <=> MfaRequired(q.f, q.c)) /\ (ConsentGiven(q.f, q.c.user)' <=> ConsentGiven(q.f, q.c.user))
        BY <2>1 DEF MfaRequired, ConsentGiven
      <4> QED BY <3>1, <4>1, <4>2 DEF Vouches, Settled
    <3>6. q.op \in {"first", "signup", "answer"} => q.f \in Flows
      BY <3>1 DEF Shape
    <3>7. q.s # None => Vouched(q.sid, q.s)'
      BY <2>1, <3>1 DEF Vouches, Vouched
    <3>8. Vouches(q)'
      BY <2>1, <3>1, <3>3, <3>4, <3>5, <3>6, <3>7 DEF Vouches, Last
    <3> QED BY <2>1, <3>1, <3>8
  <2>7. FlowsVouched'
    BY <2>1, <2>5 DEF FlowsVouched
  <2>8. RequestsVouched'
    BY <2>1, <2>6 DEF RequestsVouched, Busy
  <2>9. SessionsVouched'
    BY <2>1 DEF GrantInv, SessionsVouched, Vouched
  <2>10. CodesVouched'
    BY <2>1 DEF GrantInv, CodesVouched, Granted, ConsentGiven
  <2> QED BY <2>3, <2>7, <2>8, <2>9, <2>10 DEF GrantInv
<1>42. ASSUME NEW r \in Requests, Fail(r)
       PROVE GrantInv'
  <2>1. /\ Finished(r)
        /\ UNCHANGED <<flows, sess, codes, acct, links, consents, earned, approved, unaware>>
    BY <1>42 DEF Fail
  <2> QED BY <2>1, SameAccounts, QuietEnd DEF GrantInv
<1>43. ASSUME UNCHANGED vars PROVE GrantInv'
  BY <1>43, SameAccounts, QuietEnd DEF vars, GrantInv
<1> QED
  BY <1>1, <1>2, <1>3, <1>4, <1>5, <1>6, <1>7, <1>8, <1>9, <1>10, <1>11, <1>12,
     <1>13, <1>14, <1>15, <1>16, <1>17, <1>18, <1>19, <1>20, <1>21, <1>22, <1>23,
     <1>24, <1>25, <1>26, <1>27, <1>28, <1>29, <1>30, <1>31, <1>32, <1>33, <1>34,
     <1>35, <1>36, <1>37, <1>38, <1>39, <1>40, <1>41, <1>42, <1>43
     DEF Next

(* The shape of the records and what a grant rests on hold throughout.       *)
THEOREM GrantsRest == Spec => [](ShapeInv /\ GrantInv)
<1>1. Init => ShapeInv
  BY InitShape
<1>2. Init => GrantInv
  <2> SUFFICES ASSUME Init PROVE GrantInv
    OBVIOUS
  <2>1. RequestsVouched
    BY DEF Init, RequestsVouched, Busy, Idle
  <2>2. FlowsVouched /\ SessionsVouched /\ CodesVouched
    BY DEF Init, FlowsVouched, SessionsVouched, CodesVouched
  <2>3. AccountsVouched
    BY RecordsAssumption DEF Init, AccountsVouched
  <2> QED BY <2>1, <2>2, <2>3 DEF GrantInv
<1> QED BY <1>1, <1>2, NextShape, NextGrant, PTL DEF Spec

(* A session says "mfa" only if its own user passed a second factor on it,   *)
(* whatever copies of it are written back.                                   *)
THEOREM MfaEarned == Spec => []MfaIsEarned
<1>1. ShapeInv /\ GrantInv => MfaIsEarned
  BY DEF GrantInv, SessionsVouched, Vouched, MfaIsEarned
<1> QED BY <1>1, GrantsRest, PTL

(* No code is issued before a password change that was forced before the flow *)
(* asked for it, nor before the second factor that is asked for, whichever way *)
(* the browser comes back to the flow.                                       *)
THEOREM NothingOwed == Spec => []GrantOwesNothing
<1>1. ShapeInv /\ GrantInv => GrantOwesNothing
  BY DEF GrantInv, CodesVouched, Granted, GrantOwesNothing
<1> QED BY <1>1, GrantsRest, PTL

(* No code is issued before the consent it needs.                            *)
THEOREM ConsentFirst == Spec => []ConsentBeforeGrant
<1>1. ShapeInv /\ GrantInv => ConsentBeforeGrant
  BY DEF GrantInv, CodesVouched, Granted, ConsentGiven, ConsentBeforeGrant
<1> QED BY <1>1, GrantsRest, PTL

-----------------------------------------------------------------------------
(* Who holds a flow, and what is left of its attempts.                       *)

(* The wrong codes a flow has taken are counted on it.                       *)
Counted(f, c) == guesses[f] <= c.attempts /\ guesses[f] < MaxAttempts

(* What the copy a request holds says of them; a wrong code is about to be   *)
(* counted while its request is at mfa_reject.                               *)
Reckons(f, q) ==
    /\ q.op = "authorize" => guesses[f] = 0
    /\ q.op \in FlowSteps /\ ~ q.c.mfa =>
         IF q.pc = "mfaReject" THEN guesses[f] <= q.c.attempts + 1 ELSE Counted(f, q.c)

(* A flow no two requests have held at once: one request has it, or nobody   *)
(* has; once it has ended nobody has, and it is not there.                   *)
Orderly(f) ==
    /\ f \notin used =>
         flows[f] = None /\ f \notin ended /\ guesses[f] = 0 /\ Holders(f) = {}
    /\ f \notin crowded \cup lingering =>
         /\ \A r, p \in Holders(f) : r = p
         /\ f \in ended => flows[f] = None /\ Holders(f) = {}
         /\ guesses[f] <= MaxAttempts
         /\ flows[f] # None /\ ~ flows[f].mfa =>
              \/ Counted(f, flows[f])
              \/ \E r \in Holders(f) : req[r].pc = "mfaReject"
         /\ \A r \in Holders(f) : Reckons(f, req[r])

FlowInv == \A f \in Flows : Orderly(f)

(* A request holds a flow.                                                   *)
LEMMA HoldsIs == ASSUME NEW r \in Requests, NEW f
                 PROVE  r \in Holders(f) <=> req[r].pc \notin {"idle", "resume"} /\ req[r].f = f
BY DEF Holders, Busy

(* A flow nothing happens to, while one request acts.                        *)
LEMMA Elsewhere == ASSUME NEW r \in Requests, NEW f \in Flows, Orderly(f),
                          \A p \in Requests \ {r} : req'[p] = req[p],
                          r \notin Holders(f), r \notin Holders(f)',
                          flows'[f] = flows[f], guesses'[f] = guesses[f],
                          f \in ended' => f \in ended, f \notin used' => f \notin used,
                          crowded \subseteq crowded', lingering \subseteq lingering'
                   PROVE  Orderly(f)'
<1>1. Holders(f)' = Holders(f)
  BY DEF Holders, Busy
<1>2. \A p \in Holders(f) : req'[p] = req[p]
  BY DEF Holders
<1>3. \A c : Counted(f, c) => Counted(f, c)'
  BY DEF Counted
<1>4. ASSUME NEW p \in Holders(f), Reckons(f, req[p]) PROVE Reckons(f, req[p])'
  BY <1>2, <1>4 DEF Reckons, Counted
<1>5. f \notin used' =>
         flows'[f] = None /\ f \notin ended' /\ guesses'[f] = 0 /\ Holders(f)' = {}
  BY <1>1 DEF Orderly
<1>6. ASSUME f \notin crowded' \cup lingering'
      PROVE  /\ \A x, p \in Holders(f)' : x = p
             /\ f \in ended' => flows'[f] = None /\ Holders(f)' = {}
             /\ guesses'[f] <= MaxAttempts
             /\ flows'[f] # None /\ ~ flows'[f].mfa =>
                  \/ Counted(f, flows[f])'
                  \/ \E x \in Holders(f)' : req'[x].pc = "mfaReject"
             /\ \A x \in Holders(f)' : Reckons(f, req[x])'
  <2>1. f \notin crowded \cup lingering
    BY <1>6
  <2>2. Counted(f, flows[f]) => Counted(f, flows[f])'
    BY DEF Counted
  <2> QED BY <1>1, <1>2, <1>4, <2>1, <2>2 DEF Orderly
<1> QED BY <1>5, <1>6 DEF Orderly

(* A request that holds no flow, before and after it acts.                   *)
LEMMA Aside == ASSUME ShapeInv, FlowInv, NEW r \in Requests,
                      \A p \in Requests \ {r} : req'[p] = req[p],
                      req[r].pc \in {"idle", "resume"} \/ req[r].f \notin Flows,
                      req'[r].pc \in {"idle", "resume"} \/ req'[r].f \notin Flows,
                      UNCHANGED <<flows, guesses, ended, used, lingering>>, crowded \subseteq crowded'
               PROVE  FlowInv'
<1> SUFFICES ASSUME NEW f \in Flows PROVE Orderly(f)'
  BY DEF FlowInv
<1>1. r \notin Holders(f) /\ r \notin Holders(f)'
  BY DEF Holders, Busy
<1> QED BY <1>1, Elsewhere DEF FlowInv

(* A request that goes on holding its flow.                                  *)
LEMMA Stays == ASSUME ShapeInv, FlowInv, NEW r \in Requests, NEW f \in Flows, r \in Holders(f),
                      req[r].pc # "mfaReject",
                      NEW q, req' = [req EXCEPT ![r] = q], q.pc \notin {"idle", "resume"},
                      q.f = f, Reckons(f, req[r]) => Reckons(f, q),
                      UNCHANGED <<flows, guesses, ended, used, crowded, lingering>>
               PROVE  FlowInv'
<1>1. req \in [Requests -> RequestRecord \cup {Idle}]
  BY DEF ShapeInv, TypeOK
<1>2. req'[r] = q /\ \A p \in Requests \ {r} : req'[p] = req[p]
  BY <1>1
<1>3. req[r].pc \notin {"idle", "resume"} /\ req[r].f = f
  BY DEF Holders, Busy
<1> SUFFICES ASSUME NEW g \in Flows PROVE Orderly(g)'
  BY DEF FlowInv
<1>4. CASE g # f
  <2>1. r \notin Holders(g) /\ r \notin Holders(g)'
    BY <1>2, <1>3, <1>4 DEF Holders, Busy
  <2> QED BY <1>2, <2>1, Elsewhere DEF FlowInv
<1>5. CASE g = f
  <2>1. Orderly(f)
    BY DEF FlowInv
  <2>2. Holders(f)' = Holders(f)
    BY <1>2, <1>3 DEF Holders, Busy
  <2>3. f \in used
    BY <2>1 DEF Orderly
  <2>4. ASSUME f \notin crowded \cup lingering
        PROVE  /\ \A x \in Holders(f) : x = r
               /\ f \notin ended /\ guesses[f] <= MaxAttempts
               /\ flows[f] # None /\ ~ flows[f].mfa => Counted(f, flows[f])
               /\ Reckons(f, req[r])
    BY <2>1, <2>4 DEF Orderly
  <2>5. Counted(f, flows[f]) => Counted(f, flows[f])'
    BY DEF Counted
  <2>6. Reckons(f, q) => Reckons(f, q)'
    BY DEF Reckons, Counted
  <2> QED BY <1>2, <1>5, <2>2, <2>3, <2>4, <2>5, <2>6 DEF Orderly
<1> QED BY <1>4, <1>5

(* A request that writes its flow, or removes it, and ends.                  *)
LEMMA Leaves == ASSUME ShapeInv, FlowInv, NEW r \in Requests, NEW f \in Flows, r \in Holders(f),
                       Finished(r), NEW c \in LoginFlowRecord \cup {None},
                       flows' = [flows EXCEPT ![f] = c],
                       Reckons(f, req[r]) /\ guesses[f] <= MaxAttempts /\ c # None /\ ~ c.mfa
                         => Counted(f, c),
                       ended' = ended \/ (c = None /\ ended' = ended \cup {f}),
                       UNCHANGED <<guesses, used, crowded, lingering>>
                PROVE  FlowInv'
<1>1. req \in [Requests -> RequestRecord \cup {Idle}] /\ flows \in [Flows -> LoginFlowRecord \cup {None}]
  BY DEF ShapeInv, TypeOK
<1>2. req'[r].pc = "idle" /\ \A p \in Requests \ {r} : req'[p] = req[p]
  BY <1>1 DEF Finished, Idle
<1>3. req[r].pc \notin {"idle", "resume"} /\ req[r].f = f
  BY DEF Holders, Busy
<1> SUFFICES ASSUME NEW g \in Flows PROVE Orderly(g)'
  BY DEF FlowInv
<1>4. CASE g # f
  <2>1. r \notin Holders(g) /\ r \notin Holders(g)'
    BY <1>2, <1>3, <1>4 DEF Holders, Busy
  <2>2. flows'[g] = flows[g] /\ (g \in ended' => g \in ended)
    BY <1>1, <1>4
  <2> QED BY <1>2, <2>1, <2>2, Elsewhere DEF FlowInv
<1>5. CASE g = f
  <2>1. Orderly(f)
    BY DEF FlowInv
  <2>2. Holders(f)' = Holders(f) \ {r}
    BY <1>2, <1>3 DEF Holders, Busy
  <2>3. f \in used
    BY <2>1 DEF Orderly
  <2>4. ASSUME f \notin crowded \cup lingering
        PROVE  /\ Holders(f)' = {} /\ f \notin ended /\ guesses[f] <= MaxAttempts
               /\ Reckons(f, req[r])
    BY <2>1, <2>2, <2>4 DEF Orderly
  <2>5. Counted(f, c) => Counted(f, c)'
    BY DEF Counted
  <2>6. flows'[f] = c
    BY <1>1
  <2> QED BY <1>5, <2>3, <2>4, <2>5, <2>6 DEF Orderly
<1> QED BY <1>4, <1>5

(* A request that ends and leaves its flow as it found it.                   *)
LEMMA LeavesAsIs == ASSUME ShapeInv, FlowInv, NEW r \in Requests, NEW f \in Flows, r \in Holders(f),
                           Finished(r), req[r].pc # "mfaReject",
                           UNCHANGED <<flows, ended, guesses, used, crowded, lingering>>
                    PROVE  FlowInv'
<1>1. req \in [Requests -> RequestRecord \cup {Idle}]
  BY DEF ShapeInv, TypeOK
<1>2. req'[r].pc = "idle" /\ \A p \in Requests \ {r} : req'[p] = req[p]
  BY <1>1 DEF Finished, Idle
<1>3. req[r].pc \notin {"idle", "resume"} /\ req[r].f = f
  BY DEF Holders, Busy
<1> SUFFICES ASSUME NEW g \in Flows PROVE Orderly(g)'
  BY DEF FlowInv
<1>4. CASE g # f
  <2>1. r \notin Holders(g) /\ r \notin Holders(g)'
    BY <1>2, <1>3, <1>4 DEF Holders, Busy
  <2> QED BY <1>2, <2>1, Elsewhere DEF FlowInv
<1>5. CASE g = f
  <2>1. Orderly(f)
    BY DEF FlowInv
  <2>2. Holders(f)' = Holders(f) \ {r}
    BY <1>2, <1>3 DEF Holders, Busy
  <2>3. f \in used
    BY <2>1 DEF Orderly
  <2>4. ASSUME f \notin crowded \cup lingering
        PROVE  /\ Holders(f)' = {} /\ f \notin ended /\ guesses[f] <= MaxAttempts
               /\ flows[f] # None /\ ~ flows[f].mfa => Counted(f, flows[f])
    BY <2>1, <2>2, <2>4 DEF Orderly
  <2>5. Counted(f, flows[f]) => Counted(f, flows[f])'
    BY DEF Counted
  <2> QED BY <1>5, <2>3, <2>4, <2>5 DEF Orderly
<1> QED BY <1>4, <1>5

(* A request that ends while its flow stays behind, ended or with a wrong    *)
(* code nobody counted.                                                      *)
LEMMA Slips == ASSUME ShapeInv, FlowInv, NEW r \in Requests, NEW f \in Flows, r \in Holders(f),
                      Finished(r), ended' \in {ended, ended \cup {f}},
                      lingering' = lingering \cup {f},
                      UNCHANGED <<flows, guesses, used, crowded>>
               PROVE  FlowInv'
<1>1. req'[r].pc = "idle" /\ \A p \in Requests \ {r} : req'[p] = req[p]
  BY DEF Finished, Idle, ShapeInv, TypeOK
<1>2. req[r].pc \notin {"idle", "resume"} /\ req[r].f = f
  BY DEF Holders, Busy
<1> SUFFICES ASSUME NEW g \in Flows PROVE Orderly(g)'
  BY DEF FlowInv
<1>3. CASE g # f
  <2>1. r \notin Holders(g) /\ r \notin Holders(g)'
    BY <1>1, <1>2, <1>3 DEF Holders, Busy
  <2> QED BY <1>1, <1>3, <2>1, Elsewhere DEF FlowInv
<1>4. CASE g = f
  <2>1. f \in used
    BY DEF FlowInv, Orderly
  <2> QED BY <1>4, <2>1 DEF Orderly
<1> QED BY <1>3, <1>4

(* A request that takes up a flow: another that has it makes a crowd.        *)
LEMMA Joins == ASSUME ShapeInv, FlowInv, NEW r \in Requests, NEW f \in Flows, flows[f] # None,
                      req[r].pc \in {"idle", "resume"},
                      NEW q, req' = [req EXCEPT ![r] = q], q.pc \notin {"idle", "resume"}, q.f = f,
                      q.pc # "mfaReject", q.op # "authorize",
                      q.op \in FlowSteps => q.c = flows[f],
                      crowded' = IF Holders(f) = {} THEN crowded ELSE crowded \cup {f},
                      UNCHANGED <<flows, guesses, ended, used, lingering>>
               PROVE  FlowInv'
<1>1. req \in [Requests -> RequestRecord \cup {Idle}]
  BY DEF ShapeInv, TypeOK
<1>2. req'[r] = q /\ \A p \in Requests \ {r} : req'[p] = req[p]
  BY <1>1
<1>3. crowded \subseteq crowded'
  OBVIOUS
<1> SUFFICES ASSUME NEW g \in Flows PROVE Orderly(g)'
  BY DEF FlowInv
<1>4. CASE g # f
  <2>1. r \notin Holders(g) /\ r \notin Holders(g)'
    BY <1>2, <1>4 DEF Holders, Busy
  <2> QED BY <1>2, <1>3, <2>1, Elsewhere DEF FlowInv
<1>5. CASE g = f
  <2>1. Orderly(f)
    BY DEF FlowInv
  <2>2. f \in used
    BY <2>1 DEF Orderly
  <2>3. ASSUME f \notin crowded' \cup lingering'
        PROVE  /\ Holders(f) = {} /\ f \notin ended /\ guesses[f] <= MaxAttempts
               /\ ~ flows[f].mfa => Counted(f, flows[f])
    <3>1. Holders(f) = {} /\ f \notin crowded \cup lingering
      BY <2>3
    <3> QED BY <2>1, <3>1 DEF Orderly
  <2>4. Holders(f) = {} => Holders(f)' = {r}
    BY <1>2 DEF Holders, Busy
  <2>5. Counted(f, flows[f]) => Counted(f, flows[f])'
    BY DEF Counted
  <2>6. ASSUME f \notin crowded' \cup lingering' PROVE Reckons(f, q)'
    BY <2>3, <2>6 DEF Reckons, Counted
  <2> QED BY <1>2, <1>5, <2>2, <2>3, <2>4, <2>5, <2>6 DEF Orderly
<1> QED BY <1>4, <1>5

(* A step of the flow API takes up its flow.                                 *)
LEMMA LoadJoins == ASSUME ShapeInv, FlowInv, NEW r \in Requests, NEW f \in Flows, flows[f] # None,
                          NEW q, Load(r, f, q), q.f = f, q.c = flows[f],
                          q.pc \notin {"idle", "resume", "mfaReject"}, q.op # "authorize"
                   PROVE  FlowInv'
<1>1. /\ req[r].pc = "idle" /\ req' = [req EXCEPT ![r] = q]
      /\ crowded' = IF Holders(f) = {} THEN crowded ELSE crowded \cup {f}
      /\ UNCHANGED <<flows, guesses, ended, used, lingering>>
  BY DEF Load, Begin, Busy
<1> QED BY <1>1, Joins

(* Recording an organization counts nothing.                                 *)
LEMMA BoundReckons == ASSUME NEW q \in RequestRecord, Shape(q),
                             q.op = "organization" \/ q.pc = "bind"
                      PROVE  /\ Bound(q).pc = "save" /\ Bound(q).f = q.f
                             /\ Reckons(q.f, q) /\ q.pc # "mfaReject" => Reckons(q.f, Bound(q))
<1> DEFINE n == Bound(q)
<1>1. /\ n.pc = "save" /\ n.op = q.op /\ n.f = q.f /\ n.c.mfa = q.c.mfa
      /\ n.c.attempts = q.c.attempts
  BY BoundShape
<1> HIDE DEF n
<1>2. Reckons(q.f, q) /\ q.pc # "mfaReject" => Reckons(q.f, n)
  BY <1>1 DEF Reckons, Counted, FlowSteps
<1> QED BY <1>1, <1>2 DEF n

(* Every step keeps the flows in order.                                      *)
LEMMA NextFlows == ShapeInv /\ FlowInv /\ [Next]_vars => FlowInv'
<1> SUFFICES ASSUME ShapeInv, FlowInv, [Next]_vars PROVE FlowInv'
  OBVIOUS
<1>1. ASSUME NEW r \in Requests, NEW f \in Flows, StartMfa(r, f)
      PROVE FlowInv'
  <2> DEFINE n == Request("mfa", "factor", f, flows[f])
  <2>1. flows[f] # None /\ Load(r, f, n)
    BY <1>1 DEF StartMfa, At
  <2>2. n.op = "mfa" /\ n.pc = "factor" /\ n.f = f /\ n.c = flows[f]
    BY DEF Request
  <2> HIDE DEF n
  <2> QED BY <2>1, <2>2, LoadJoins
<1>2. ASSUME NEW r \in Requests, NEW f \in Flows, StartAnswer(r, f)
      PROVE FlowInv'
  <2> DEFINE n == Request("answer", "answer", f, flows[f])
  <2>1. flows[f] # None /\ Load(r, f, n)
    BY <1>2 DEF StartAnswer, At
  <2>2. n.op = "answer" /\ n.pc = "answer" /\ n.f = f /\ n.c = flows[f]
    BY DEF Request
  <2> HIDE DEF n
  <2> QED BY <2>1, <2>2, LoadJoins
<1>3. ASSUME NEW r \in Requests, NEW f \in Flows, StartOrganization(r, f)
      PROVE FlowInv'
  <2> DEFINE n == Request("organization", "get", f, flows[f])
  <2>1. flows[f] # None /\ Load(r, f, n)
    BY <1>3 DEF StartOrganization, At
  <2>2. n.op = "organization" /\ n.pc = "get" /\ n.f = f /\ n.c = flows[f]
    BY DEF Request
  <2> HIDE DEF n
  <2> QED BY <2>1, <2>2, LoadJoins
<1>4. ASSUME NEW r \in Requests, NEW f \in Flows, StartCancel(r, f)
      PROVE FlowInv'
  <2> DEFINE n == Request("cancel", "delete", f, flows[f])
  <2>1. flows[f] # None /\ Load(r, f, n)
    BY <1>4 DEF StartCancel, At
  <2>2. n.op = "cancel" /\ n.pc = "delete" /\ n.f = f /\ n.c = flows[f]
    BY DEF Request
  <2> HIDE DEF n
  <2> QED BY <2>1, <2>2, LoadJoins
<1>5. ASSUME NEW r \in Requests, NEW f \in Flows, StartConsent(r, f)
      PROVE FlowInv'
  <2>1. PICK pc \in {"consent", "delete"} : Load(r, f, Request("consent", pc, f, flows[f]))
    BY <1>5 DEF StartConsent
  <2> DEFINE n == Request("consent", pc, f, flows[f])
  <2>2. n.op = "consent" /\ n.pc = pc /\ n.f = f /\ n.c = flows[f] /\ flows[f] # None
    BY <1>5 DEF Request, StartConsent, At
  <2>3. Load(r, f, n)
    BY <2>1
  <2> HIDE DEF n
  <2> QED BY <2>2, <2>3, LoadJoins
<1>6. ASSUME NEW r \in Requests, NEW f \in Flows, NEW u \in Users, NEW m \in Methods,
             StartFirstFactor(r, f, u, m)
      PROVE FlowInv'
  <2> DEFINE n == [Request("first", "check", f, flows[f]) EXCEPT
                     !.u = u, !.method = m, !.sid = Current, !.s = RecordOf(Current)]
  <2>1. flows[f] # None /\ Load(r, f, n)
    BY <1>6 DEF StartFirstFactor, At
  <2>2. n.op = "first" /\ n.pc = "check" /\ n.f = f /\ n.c = flows[f]
    BY DEF Request
  <2> HIDE DEF n
  <2> QED BY <2>1, <2>2, LoadJoins
<1>7. ASSUME NEW r \in Requests, NEW f \in Flows, NEW u \in Users, StartRegister(r, f, u)
      PROVE FlowInv'
  <2> DEFINE n == [Request("signup", "register", f, flows[f]) EXCEPT !.u = u, !.method = "pwd"]
  <2>1. flows[f] # None /\ Load(r, f, n)
    BY <1>7 DEF StartRegister, At
  <2>2. n.op = "signup" /\ n.pc = "register" /\ n.f = f /\ n.c = flows[f]
    BY DEF Request
  <2> HIDE DEF n
  <2> QED BY <2>1, <2>2, LoadJoins
<1>8. ASSUME NEW r \in Requests, NEW f \in Flows, StartFinish(r, f)
      PROVE FlowInv'
  <2> DEFINE pc == IF flows[f].remember /\ ~flows[f].trusted THEN "store" ELSE "finish"
             n == [Request("finish", pc, f, flows[f]) EXCEPT
                     !.sid = Current, !.s = RecordOf(Current)]
  <2>1. flows[f] # None /\ Load(r, f, n)
    BY <1>8 DEF StartFinish, At
  <2>2. pc \in {"store", "finish"}
    OBVIOUS
  <2> HIDE DEF pc
  <2>3. n.op = "finish" /\ n.pc = pc /\ n.f = f /\ n.c = flows[f]
    BY DEF Request
  <2> HIDE DEF n
  <2> QED BY <2>1, <2>2, <2>3, LoadJoins
<1>9. ASSUME NEW r \in Requests, NEW f \in Flows, Authorize(r, f)
      PROVE FlowInv'
  <2>1. PICK n : n = [Request("authorize", "decide", f, NewFlow) EXCEPT
                        !.sid = Current, !.s = RecordOf(Current)]
    OBVIOUS
  <2>2. /\ f \notin used /\ used' = used \cup {f} /\ req[r].pc = "idle"
        /\ req' = [req EXCEPT ![r] = n] /\ UNCHANGED <<flows, guesses, ended, crowded, lingering>>
    BY <1>9, <2>1 DEF Authorize, Begin, Busy
  <2>3. n.op = "authorize" /\ n.pc = "decide" /\ n.f = f
    BY <2>1 DEF Request
  <2>4. req'[r] = n /\ \A p \in Requests \ {r} : req'[p] = req[p]
    BY <2>2 DEF ShapeInv, TypeOK
  <2> SUFFICES ASSUME NEW g \in Flows PROVE Orderly(g)'
    BY DEF FlowInv
  <2>5. CASE g # f
    <3>1. r \notin Holders(g) /\ r \notin Holders(g)'
      BY <2>2, <2>3, <2>4, <2>5 DEF Holders, Busy
    <3> QED BY <2>2, <2>4, <2>5, <3>1, Elsewhere DEF FlowInv
  <2>6. CASE g = f
    <3>1. flows[f] = None /\ f \notin ended /\ guesses[f] = 0 /\ Holders(f) = {}
      BY <2>2 DEF FlowInv, Orderly
    <3>2. Holders(f)' = {r}
      BY <2>3, <2>4, <3>1 DEF Holders, Busy
    <3>3. Reckons(f, n)'
      BY <2>2, <2>3, <3>1 DEF Reckons, FlowSteps
    <3> QED BY <2>2, <2>4, <2>6, <3>1, <3>2, <3>3, BoundsAssumption DEF Orderly
  <2> QED BY <2>5, <2>6
<1>10. ASSUME NEW r \in Requests, Touch(r)
       PROVE FlowInv'
  <2> DEFINE n == [Request("touch", "store", None, NewFlow) EXCEPT
                     !.sid = Current, !.s = RecordOf(Current)]
  <2>1. req[r].pc = "idle" /\ req' = [req EXCEPT ![r] = n] /\ UNCHANGED <<flows, guesses, ended,
  used, crowded, lingering>>
    BY <1>10 DEF Touch, Begin, Busy
  <2>2. n.f = None
    BY DEF Request
  <2> HIDE DEF n
  <2> QED BY <2>1, <2>2, Aside, BoundsAssumption DEF ShapeInv, TypeOK
<1>11. ASSUME NEW r \in Requests, NEW s \in Sessions, Revoke(r, s)
       PROVE FlowInv'
  <2> DEFINE n == [Request("revoke", "mark", None, NewFlow) EXCEPT !.sid = s, !.s = sess[s]]
  <2>1. req[r].pc = "idle" /\ req' = [req EXCEPT ![r] = n] /\ UNCHANGED <<flows, guesses, ended,
  used, crowded, lingering>>
    BY <1>11 DEF Revoke, Begin, Busy
  <2>2. n.f = None
    BY DEF Request
  <2> HIDE DEF n
  <2> QED BY <2>1, <2>2, Aside, BoundsAssumption DEF ShapeInv, TypeOK
<1>12. ASSUME NEW r \in Requests, NEW u \in Users, Disable(r, u)
       PROVE FlowInv'
  <2> DEFINE n == [Request("disable", "endAll", None, NewFlow) EXCEPT !.u = u]
  <2>1. req[r].pc = "idle" /\ req' = [req EXCEPT ![r] = n] /\ UNCHANGED <<flows, guesses, ended,
  used, crowded, lingering>>
    BY <1>12 DEF Disable, Begin, Busy
  <2>2. n.f = None
    BY DEF Request
  <2> HIDE DEF n
  <2> QED BY <2>1, <2>2, Aside, BoundsAssumption DEF ShapeInv, TypeOK
<1>13. ASSUME NEW r \in Requests, NEW f \in Flows, NEW u \in Users, ConfirmEmail(r, f, u)
       PROVE FlowInv'
  <2> DEFINE n == [Request("signup", "resume", f, NewFlow) EXCEPT !.u = u, !.method = "otp"]
  <2>1. req[r].pc = "idle" /\ req' = [req EXCEPT ![r] = n] /\ UNCHANGED <<flows, guesses, ended,
  used, crowded, lingering>>
    BY <1>13 DEF ConfirmEmail, Begin, Busy
  <2>2. n.pc = "resume"
    BY DEF Request
  <2> HIDE DEF n
  <2> QED BY <2>1, <2>2, Aside DEF ShapeInv, TypeOK
<1>14. ASSUME NEW r \in Requests, MarkRevoked(r)
       PROVE FlowInv'
  <2>1. req[r] \in RequestRecord /\ Shape(req[r]) /\ Finished(r) /\ UNCHANGED <<flows, guesses,
  ended, used, crowded, lingering>>
    BY <1>14, AtStep DEF MarkRevoked
  <2>2. req[r].f = None
    BY <1>14, <2>1, OpOf DEF MarkRevoked, Shape, Last
  <2>3. req' = [req EXCEPT ![r] = Idle] /\ Idle.pc = "idle"
    BY <2>1 DEF Finished, Idle
  <2> QED BY <2>1, <2>2, <2>3, Aside, BoundsAssumption DEF ShapeInv, TypeOK
<1>15. ASSUME NEW r \in Requests, EndSessionsForUser(r)
       PROVE FlowInv'
  <2>1. req[r] \in RequestRecord /\ Shape(req[r]) /\ Finished(r) /\ UNCHANGED <<flows, guesses,
  ended, used, crowded, lingering>>
    BY <1>15, AtStep DEF EndSessionsForUser
  <2>2. req[r].f = None
    BY <1>15, <2>1, OpOf DEF EndSessionsForUser, Shape, Last
  <2>3. req' = [req EXCEPT ![r] = Idle] /\ Idle.pc = "idle"
    BY <2>1 DEF Finished, Idle
  <2> QED BY <2>1, <2>2, <2>3, Aside, BoundsAssumption DEF ShapeInv, TypeOK
<1>16. ASSUME NEW u \in Users, LockExpires(u)
       PROVE FlowInv'
  <2>1. UNCHANGED <<flows, guesses, ended, used, crowded, lingering>> /\ UNCHANGED req
    BY <1>16 DEF LockExpires
  <2> QED BY <2>1 DEF FlowInv, Orderly, Holders, Busy, Counted, Reckons
<1>17. ASSUME NEW r \in Requests, CheckPassword(r)
       PROVE FlowInv'
  <2>1. PICK q \in RequestRecord : q = req[r] /\ Shape(q)
    BY <1>17, AtStep DEF CheckPassword
  <2>2. q.pc = "check" /\ q.op \in {"first"} /\ q.f \in Flows /\ r \in Holders(q.f)
    BY <1>17, <2>1, OpOf DEF CheckPassword, Shape, Last, Holders, Busy
  <2>3. UNCHANGED <<flows, guesses, ended, used, crowded, lingering>>
    BY <1>17 DEF CheckPassword
  <2>4. CASE Goto(r, "attempts")
    <3> DEFINE n == MovedTo(q, "attempts")
    <3>1. n.pc = "attempts" /\ n.op = q.op /\ n.f = q.f /\ n.c = q.c
      BY Moved DEF Pcs
    <3>2. req' = [req EXCEPT ![r] = n]
      BY <2>1, <2>4 DEF Goto, MovedTo
    <3> HIDE DEF n
    <3>3. Reckons(q.f, q) => Reckons(q.f, n)
      BY <2>2, <3>1 DEF Reckons
    <3> QED BY <2>1, <2>2, <2>3, <3>1, <3>2, <3>3, Stays
  <2>5. CASE Goto(r, "reject")
    <3> DEFINE n == MovedTo(q, "reject")
    <3>1. n.pc = "reject" /\ n.op = q.op /\ n.f = q.f /\ n.c = q.c
      BY Moved DEF Pcs
    <3>2. req' = [req EXCEPT ![r] = n]
      BY <2>1, <2>5 DEF Goto, MovedTo
    <3> HIDE DEF n
    <3>3. Reckons(q.f, q) => Reckons(q.f, n)
      BY <2>2, <3>1 DEF Reckons
    <3> QED BY <2>1, <2>2, <2>3, <3>1, <3>2, <3>3, Stays
  <2>6. CASE Assessed(r, acct[req[r].u].owes \cap {"PasswordChange", "Expired"} # {})
    <3>1. PICK must : must = (acct[req[r].u].owes \cap {"PasswordChange", "Expired"} # {})
      OBVIOUS
    <3>2. PICK risk : req' = [req EXCEPT ![r] = Verdict(q, risk, must)]
      BY <2>1, <2>6, <3>1 DEF Assessed
    <3> DEFINE n == Verdict(q, risk, must)
    <3>3. n.pc \in {"delete", "record"} /\ n.op = q.op /\ n.f = q.f /\ n.c = q.c
      BY <3>1 DEF Verdict, RequestRecord
    <3>4. req' = [req EXCEPT ![r] = n]
      BY <3>2
    <3> HIDE DEF n
    <3>5. Reckons(q.f, q) => Reckons(q.f, n)
      BY <2>2, <3>3 DEF Reckons
    <3> QED BY <2>1, <2>2, <2>3, <3>3, <3>4, <3>5, Stays
  <2> QED BY <1>17, <2>4, <2>5, <2>6 DEF CheckPassword
<1>18. ASSUME NEW r \in Requests, CheckCode(r)
       PROVE FlowInv'
  <2>1. PICK q \in RequestRecord : q = req[r] /\ Shape(q)
    BY <1>18, AtStep DEF CheckCode
  <2>2. q.pc = "check" /\ q.op \in {"first"} /\ q.f \in Flows /\ r \in Holders(q.f)
    BY <1>18, <2>1, OpOf DEF CheckCode, Shape, Last, Holders, Busy
  <2>3. UNCHANGED <<flows, guesses, ended, used, crowded, lingering>>
    BY <1>18 DEF CheckCode
  <2>4. CASE Goto(r, "attempts")
    <3> DEFINE n == MovedTo(q, "attempts")
    <3>1. n.pc = "attempts" /\ n.op = q.op /\ n.f = q.f /\ n.c = q.c
      BY Moved DEF Pcs
    <3>2. req' = [req EXCEPT ![r] = n]
      BY <2>1, <2>4 DEF Goto, MovedTo
    <3> HIDE DEF n
    <3>3. Reckons(q.f, q) => Reckons(q.f, n)
      BY <2>2, <3>1 DEF Reckons
    <3> QED BY <2>1, <2>2, <2>3, <3>1, <3>2, <3>3, Stays
  <2>5. CASE Finished(r)
    BY <2>1, <2>2, <2>3, <2>5, LeavesAsIs
  <2>6. CASE Assessed(r, "PasswordChange" \in acct[req[r].u].owes)
    <3>1. PICK must : must = ("PasswordChange" \in acct[req[r].u].owes)
      OBVIOUS
    <3>2. PICK risk : req' = [req EXCEPT ![r] = Verdict(q, risk, must)]
      BY <2>1, <2>6, <3>1 DEF Assessed
    <3> DEFINE n == Verdict(q, risk, must)
    <3>3. n.pc \in {"delete", "record"} /\ n.op = q.op /\ n.f = q.f /\ n.c = q.c
      BY <3>1 DEF Verdict, RequestRecord
    <3>4. req' = [req EXCEPT ![r] = n]
      BY <3>2
    <3> HIDE DEF n
    <3>5. Reckons(q.f, q) => Reckons(q.f, n)
      BY <2>2, <3>3 DEF Reckons
    <3> QED BY <2>1, <2>2, <2>3, <3>3, <3>4, <3>5, Stays
  <2> QED BY <1>18, <2>4, <2>5, <2>6 DEF CheckCode
<1>19. ASSUME NEW r \in Requests, RecordFailure(r)
       PROVE FlowInv'
  <2>1. PICK q \in RequestRecord : q = req[r] /\ Shape(q)
    BY <1>19, AtStep DEF RecordFailure
  <2>2. q.pc = "reject" /\ q.op \in {"first"} /\ q.f \in Flows /\ r \in Holders(q.f)
    BY <1>19, <2>1, OpOf DEF RecordFailure, Shape, Last, Holders, Busy
  <2>3. UNCHANGED <<flows, guesses, ended, used, crowded, lingering>>
    BY <1>19 DEF RecordFailure
  <2>4. CASE Goto(r, "attempts")
    <3> DEFINE n == MovedTo(q, "attempts")
    <3>1. n.pc = "attempts" /\ n.op = q.op /\ n.f = q.f /\ n.c = q.c
      BY Moved DEF Pcs
    <3>2. req' = [req EXCEPT ![r] = n]
      BY <2>1, <2>4 DEF Goto, MovedTo
    <3> HIDE DEF n
    <3>3. Reckons(q.f, q) => Reckons(q.f, n)
      BY <2>2, <3>1 DEF Reckons
    <3> QED BY <2>1, <2>2, <2>3, <3>1, <3>2, <3>3, Stays
  <2> QED BY <1>19, <2>4 DEF RecordFailure
<1>20. ASSUME NEW r \in Requests, RecordSuccess(r)
       PROVE FlowInv'
  <2>1. PICK q \in RequestRecord : q = req[r] /\ Shape(q)
    BY <1>20, AtStep DEF RecordSuccess
  <2>2. q.pc = "record" /\ q.op \in {"first", "signup"} /\ q.f \in Flows /\ r \in Holders(q.f)
    BY <1>20, <2>1, OpOf DEF RecordSuccess, Shape, Last, Holders, Busy
  <2>3. UNCHANGED <<flows, guesses, ended, used, crowded, lingering>>
    BY <1>20 DEF RecordSuccess
  <2>4. CASE Goto(r, "open")
    <3> DEFINE n == MovedTo(q, "open")
    <3>1. n.pc = "open" /\ n.op = q.op /\ n.f = q.f /\ n.c = q.c
      BY Moved DEF Pcs
    <3>2. req' = [req EXCEPT ![r] = n]
      BY <2>1, <2>4 DEF Goto, MovedTo
    <3> HIDE DEF n
    <3>3. Reckons(q.f, q) => Reckons(q.f, n)
      BY <2>2, <3>1 DEF Reckons
    <3> QED BY <2>1, <2>2, <2>3, <3>1, <3>2, <3>3, Stays
  <2> QED BY <1>20, <2>4 DEF RecordSuccess
<1>21. ASSUME NEW r \in Requests, WriteAnswer(r)
       PROVE FlowInv'
  <2>1. PICK q \in RequestRecord : q = req[r] /\ Shape(q)
    BY <1>21, AtStep DEF WriteAnswer
  <2>2. q.pc = "answer" /\ q.op \in {"answer"} /\ q.f \in Flows /\ r \in Holders(q.f)
    BY <1>21, <2>1, OpOf DEF WriteAnswer, Shape, Last, Holders, Busy
  <2>3. UNCHANGED <<flows, guesses, ended, used, crowded, lingering>>
    BY <1>21 DEF WriteAnswer
  <2>4. CASE Goto(r, "save")
    <3> DEFINE n == MovedTo(q, "save")
    <3>1. n.pc = "save" /\ n.op = q.op /\ n.f = q.f /\ n.c = q.c
      BY Moved DEF Pcs
    <3>2. req' = [req EXCEPT ![r] = n]
      BY <2>1, <2>4 DEF Goto, MovedTo
    <3> HIDE DEF n
    <3>3. Reckons(q.f, q) => Reckons(q.f, n)
      BY <2>2, <3>1 DEF Reckons
    <3> QED BY <2>1, <2>2, <2>3, <3>1, <3>2, <3>3, Stays
  <2> QED BY <1>21, <2>4 DEF WriteAnswer
<1>22. ASSUME NEW r \in Requests, RegisterUser(r)
       PROVE FlowInv'
  <2>1. PICK q \in RequestRecord : q = req[r] /\ Shape(q)
    BY <1>22, AtStep DEF RegisterUser
  <2>2. q.pc = "register" /\ q.op \in {"signup"} /\ q.f \in Flows /\ r \in Holders(q.f)
    BY <1>22, <2>1, OpOf DEF RegisterUser, Shape, Last, Holders, Busy
  <2>3. UNCHANGED <<flows, guesses, ended, used, crowded, lingering>>
    BY <1>22 DEF RegisterUser
  <2>4. CASE Goto(r, "pending")
    <3> DEFINE n == MovedTo(q, "pending")
    <3>1. n.pc = "pending" /\ n.op = q.op /\ n.f = q.f /\ n.c = q.c
      BY Moved DEF Pcs
    <3>2. req' = [req EXCEPT ![r] = n]
      BY <2>1, <2>4 DEF Goto, MovedTo
    <3> HIDE DEF n
    <3>3. Reckons(q.f, q) => Reckons(q.f, n)
      BY <2>2, <3>1 DEF Reckons
    <3> QED BY <2>1, <2>2, <2>3, <3>1, <3>2, <3>3, Stays
  <2>5. CASE Finished(r)
    BY <2>1, <2>2, <2>3, <2>5, LeavesAsIs
  <2>6. CASE Assessed(r, FALSE)
    <3>1. PICK must : must = (FALSE)
      OBVIOUS
    <3>2. PICK risk : req' = [req EXCEPT ![r] = Verdict(q, risk, must)]
      BY <2>1, <2>6, <3>1 DEF Assessed
    <3> DEFINE n == Verdict(q, risk, must)
    <3>3. n.pc \in {"delete", "record"} /\ n.op = q.op /\ n.f = q.f /\ n.c = q.c
      BY <3>1 DEF Verdict, RequestRecord
    <3>4. req' = [req EXCEPT ![r] = n]
      BY <3>2
    <3> HIDE DEF n
    <3>5. Reckons(q.f, q) => Reckons(q.f, n)
      BY <2>2, <3>3 DEF Reckons
    <3> QED BY <2>1, <2>2, <2>3, <3>3, <3>4, <3>5, Stays
  <2> QED BY <1>22, <2>4, <2>5, <2>6 DEF RegisterUser
<1>23. ASSUME NEW r \in Requests, ResumeAfterVerification(r)
       PROVE FlowInv'
  <2>1. PICK q \in RequestRecord : q = req[r] /\ Shape(q)
    BY <1>23, AtStep DEF ResumeAfterVerification
  <2>2. q.pc = "resume" /\ q.op = "signup" /\ q.f \in Flows
    BY <1>23, <2>1, OpOf DEF ResumeAfterVerification, Shape, Last
  <2>3. UNCHANGED <<flows, guesses, ended, used, lingering>>
    BY <1>23 DEF ResumeAfterVerification
  <2>4. CASE Finished(r) /\ UNCHANGED crowded
    <3>1. req' = [req EXCEPT ![r] = Idle] /\ Idle.pc = "idle"
      BY <2>4 DEF Finished, Idle
    <3> QED BY <2>1, <2>2, <2>3, <2>4, <3>1, Aside DEF ShapeInv, TypeOK
  <2>5. CASE /\ At(q.f, {"VerifyEmail"})
             /\ \E risk : req' = [req EXCEPT ![r] = Resumed(q, risk, flows[q.f])]
             /\ crowded' = IF Holders(q.f) = {} THEN crowded ELSE crowded \cup {q.f}
    <3>1. PICK risk : req' = [req EXCEPT ![r] = Resumed(q, risk, flows[q.f])]
      BY <2>5
    <3> DEFINE n == Resumed(q, risk, flows[q.f])
    <3>2. n.pc \in {"delete", "record"} /\ n.op = q.op /\ n.f = q.f /\ n.c = flows[q.f]
      BY DEF Resumed, Verdict, RequestRecord
    <3>3. req' = [req EXCEPT ![r] = n] /\ flows[q.f] # None
      BY <2>5, <3>1 DEF At
    <3> HIDE DEF n
    <3>4. crowded' = IF Holders(q.f) = {} THEN crowded ELSE crowded \cup {q.f}
      BY <2>5
    <3>5. req[r].pc \in {"idle", "resume"} /\ q.f \in Flows /\ flows[q.f] # None
      BY <2>1, <2>2, <3>3
    <3>6. n.pc \notin {"idle", "resume"} /\ n.pc # "mfaReject" /\ n.op # "authorize"
      BY <2>2, <3>2
    <3>7. n.f = q.f /\ n.c = flows[q.f] /\ req' = [req EXCEPT ![r] = n]
      BY <3>2, <3>3
    <3> QED BY <2>3, <3>4, <3>5, <3>6, <3>7, Joins
  <2> QED BY <1>23, <2>1, <2>4, <2>5 DEF ResumeAfterVerification, Resumed
<1>24. ASSUME NEW r \in Requests, SaveAttempts(r)
       PROVE FlowInv'
  <2>1. PICK q \in RequestRecord : q = req[r] /\ Shape(q)
    BY <1>24, AtStep DEF SaveAttempts
  <2>2. q.pc = "attempts" /\ q.op \in {"first"} /\ q.f \in Flows /\ r \in Holders(q.f)
    BY <1>24, <2>1, OpOf DEF SaveAttempts, Shape, Last, Holders, Busy
  <2> DEFINE c == [q.c EXCEPT !.attempts = @ + 1]
  <2>3. /\ Finished(r) /\ flows' = [flows EXCEPT ![q.f] = c] /\ UNCHANGED <<guesses, used, crowded, lingering>>
        /\ ended' = ended
    BY <1>24, <2>1 DEF SaveAttempts
  <2>4. /\ c \in LoginFlowRecord /\ c.attempts = q.c.attempts + 1 /\ ~ q.c.mfa
        /\ q.c.attempts \in Nat /\ guesses[q.f] \in Nat
    BY <2>1, <2>2 DEF RequestRecord, LoginFlowRecord, Shape, Last, ShapeInv, TypeOK
  <2> HIDE DEF c
  <2>5. Reckons(q.f, q) /\ ~ c.mfa => Counted(q.f, c)
    BY <2>2, <2>4 DEF Reckons, Counted, FlowSteps
  <2> QED BY <2>1, <2>2, <2>3, <2>4, <2>5, Leaves
<1>25. ASSUME NEW r \in Requests, SavePending(r)
       PROVE FlowInv'
  <2>1. PICK q \in RequestRecord : q = req[r] /\ Shape(q)
    BY <1>25, AtStep DEF SavePending
  <2>2. q.pc = "pending" /\ q.op \in {"signup"} /\ q.f \in Flows /\ r \in Holders(q.f)
    BY <1>25, <2>1, OpOf DEF SavePending, Shape, Last, Holders, Busy
  <2> DEFINE c1 == [q.c EXCEPT !.user = q.u]
             c == [c1 EXCEPT !.stage = "VerifyEmail"]
  <2>3. /\ Finished(r) /\ flows' = [flows EXCEPT ![q.f] = c] /\ UNCHANGED <<guesses, used, crowded, lingering>>
        /\ ended' = ended
    BY <1>25, <2>1 DEF SavePending
  <2>4. q.c \in LoginFlowRecord /\ q.u \in Users /\ ~ q.c.mfa
    BY <2>1, <2>2 DEF RequestRecord, Shape, Last
  <2>5. c1 \in LoginFlowRecord
    BY <2>4 DEF LoginFlowRecord
  <2>6. c \in LoginFlowRecord
    <3> HIDE DEF c1
    <3> QED BY <2>5 DEF LoginFlowRecord, FlowStage
  <2>7. c.attempts = q.c.attempts
    BY <2>4 DEF LoginFlowRecord
  <2> HIDE DEF c
  <2>8. Reckons(q.f, q) => Counted(q.f, c)
    BY <2>2, <2>4, <2>7 DEF Reckons, Counted, FlowSteps
  <2> QED BY <2>1, <2>2, <2>3, <2>6, <2>8, Leaves
<1>26. ASSUME NEW r \in Requests, DeleteFlow(r)
       PROVE FlowInv'
  <2>1. PICK q \in RequestRecord : q = req[r] /\ Shape(q)
    BY <1>26, AtStep DEF DeleteFlow
  <2>2. q.pc = "delete" /\ q.op \in {"first", "signup", "consent",
  "cancel"} /\ q.f \in Flows /\ r \in Holders(q.f)
    BY <1>26, <2>1, OpOf DEF DeleteFlow, Shape, Last, Holders, Busy
  <2>3. /\ Finished(r) /\ ended' = ended \cup {q.f} /\ UNCHANGED <<guesses, used, crowded>>
        /\ \/ flows' = [flows EXCEPT ![q.f] = None] /\ lingering' = lingering
           \/ flows' = flows /\ lingering' = lingering \cup {q.f}
    BY <1>26, <2>1 DEF DeleteFlow, Deletes, FailsToDelete
  <2> QED BY <2>1, <2>2, <2>3, Leaves, Slips
<1>27. ASSUME NEW r \in Requests, FinishFlow(r)
       PROVE FlowInv'
  <2>1. PICK q \in RequestRecord : q = req[r] /\ Shape(q)
    BY <1>27, AtStep DEF FinishFlow
  <2>2. q.pc = "finish" /\ q.op \in {"finish"} /\ q.f \in Flows /\ r \in Holders(q.f)
    BY <1>27, <2>1, OpOf DEF FinishFlow, Shape, Last, Holders, Busy
  <2>3. /\ Finished(r) /\ ended' = ended \cup {q.f} /\ UNCHANGED <<guesses, used, crowded>>
        /\ \/ flows' = [flows EXCEPT ![q.f] = None] /\ lingering' = lingering
           \/ flows' = flows /\ lingering' = lingering \cup {q.f}
    BY <1>27, <2>1 DEF FinishFlow, Deletes, FailsToDelete
  <2> QED BY <2>1, <2>2, <2>3, Leaves, Slips
<1>28. ASSUME NEW r \in Requests, MfaReject(r)
       PROVE FlowInv'
  <2>1. PICK q \in RequestRecord : q = req[r] /\ Shape(q)
    BY <1>28, AtStep DEF MfaReject
  <2>2. q.pc = "mfaReject" /\ q.op \in {"mfa"} /\ q.f \in Flows /\ r \in Holders(q.f)
    BY <1>28, <2>1, OpOf DEF MfaReject, Shape, Last, Holders, Busy
  <2>3. Finished(r) /\ UNCHANGED <<guesses, used, crowded, lingering>>
    BY <1>28 DEF MfaReject
  <2>4. CASE LastAttempt(q.c)
    <3>1. flows' = [flows EXCEPT ![q.f] = None] /\ ended' = ended \cup {q.f}
      BY <1>28, <2>1, <2>4 DEF MfaReject
    <3> QED BY <2>1, <2>2, <2>3, <3>1, Leaves
  <2>5. CASE ~ LastAttempt(q.c)
    <3> DEFINE c == [q.c EXCEPT !.attempts = @ + 1]
    <3>1. flows' = [flows EXCEPT ![q.f] = c] /\ ended' = ended
      BY <1>28, <2>1, <2>5 DEF MfaReject
    <3>2. /\ c \in LoginFlowRecord /\ c.attempts = q.c.attempts + 1 /\ ~ q.c.mfa
          /\ q.c.attempts \in Nat /\ guesses[q.f] \in Nat /\ q.c.attempts + 1 < MaxAttempts
      BY <2>1, <2>2, <2>5, BoundsAssumption
         DEF RequestRecord, LoginFlowRecord, Shape, Last, ShapeInv, TypeOK, LastAttempt
    <3> HIDE DEF c
    <3>3. Reckons(q.f, q) => Counted(q.f, c)
      BY <2>2, <3>2, BoundsAssumption DEF Reckons, Counted, FlowSteps
    <3> QED BY <2>1, <2>2, <2>3, <3>1, <3>2, <3>3, Leaves
  <2> QED BY <2>4, <2>5
<1>29. ASSUME NEW r \in Requests, SaveFlow(r)
       PROVE FlowInv'
  <2>1. PICK q \in RequestRecord : q = req[r] /\ Shape(q)
    BY <1>29, AtStep DEF SaveFlow
  <2>2. q.pc = "save" /\ q.op \in {"first", "signup", "mfa", "answer", "organization",
  "consent"} /\ q.f \in Flows /\ r \in Holders(q.f)
    BY <1>29, <2>1, OpOf DEF SaveFlow, Shape, Last, Holders, Busy
  <2> DEFINE c == Advance(q.f, q.c, q.must)
  <2>3. /\ Finished(r) /\ flows' = [flows EXCEPT ![q.f] = c] /\ UNCHANGED <<guesses, used, crowded, lingering>>
        /\ ended' = ended
    BY <1>29, <2>1 DEF SaveFlow
  <2>4. /\ q.c \in LoginFlowRecord /\ q.c.sid \in Sessions /\ q.c.user \in Users
        /\ ~ q.c.pending
    BY <2>1, <2>2 DEF Shape, Last, RequestRecord
  <2>5. c \in LoginFlowRecord /\ c.attempts = q.c.attempts /\ c.mfa = q.c.mfa
    BY <2>4, AdvanceShape
  <2> HIDE DEF c
  <2>6. Reckons(q.f, q) /\ ~ c.mfa => Counted(q.f, c)
    BY <2>2, <2>5 DEF Reckons, Counted, FlowSteps
  <2> QED BY <2>1, <2>2, <2>3, <2>5, <2>6, Leaves
<1>30. ASSUME NEW r \in Requests, ReauthSession(r)
       PROVE FlowInv'
  <2>1. PICK q \in RequestRecord : q = req[r] /\ Shape(q)
    BY <1>30, AtStep DEF ReauthSession
  <2>2. q.pc = "open" /\ q.op \in {"first", "signup"} /\ q.f \in Flows /\ r \in Holders(q.f)
    BY <1>30, <2>1, OpOf DEF ReauthSession, Shape, Last, Holders, Busy
  <2>3. UNCHANGED <<flows, guesses, ended, used, crowded, lingering>>
    BY <1>30 DEF ReauthSession
  <2> DEFINE n == SignedIn(q, q.sid)
  <2>4. q.sid \in Sessions /\ ~ q.c.mfa
    BY <1>30, <2>1, <2>2 DEF ReauthSession, ReusesSession, Shape, Last
  <2>5. /\ n.pc = "save" /\ n.op = q.op /\ n.f = q.f /\ n.c.attempts = q.c.attempts
    BY <2>1, <2>2, <2>4, SignedInShape
  <2>6. req' = [req EXCEPT ![r] = n]
    BY <1>30, <2>1 DEF ReauthSession
  <2> HIDE DEF n
  <2>7. Reckons(q.f, q) => Reckons(q.f, n)
    BY <2>2, <2>4, <2>5 DEF Reckons, Counted, FlowSteps
  <2> QED BY <2>1, <2>2, <2>3, <2>5, <2>6, <2>7, Stays
<1>31. ASSUME NEW r \in Requests, CreateSession(r)
       PROVE FlowInv'
  <2>1. PICK q \in RequestRecord : q = req[r] /\ Shape(q)
    BY <1>31, AtStep DEF CreateSession
  <2>2. q.pc = "create" /\ q.op \in {"first", "signup"} /\ q.f \in Flows /\ r \in Holders(q.f)
    BY <1>31, <2>1, OpOf DEF CreateSession, Shape, Last, Holders, Busy
  <2>3. UNCHANGED <<flows, guesses, ended, used, crowded, lingering>>
    BY <1>31 DEF CreateSession
  <2>4. \/ \E sid \in Sessions : req' = [req EXCEPT ![r] = SignedIn(q, sid)]
        \/ Finished(r)
    BY <1>31, <2>1 DEF CreateSession
  <2>5. ASSUME NEW sid \in Sessions, req' = [req EXCEPT ![r] = SignedIn(q, sid)]
        PROVE  FlowInv'
    <3> DEFINE n == SignedIn(q, sid)
    <3>1. /\ n.pc = "save" /\ n.op = q.op /\ n.f = q.f /\ n.c.attempts = q.c.attempts
      BY <2>1, <2>2, SignedInShape
    <3>2. req' = [req EXCEPT ![r] = n] /\ ~ q.c.mfa
      BY <2>1, <2>2, <2>5 DEF Shape, Last
    <3> HIDE DEF n
    <3>3. Reckons(q.f, q) => Reckons(q.f, n)
      BY <2>2, <3>1, <3>2 DEF Reckons, Counted, FlowSteps
    <3> QED BY <2>1, <2>2, <2>3, <3>1, <3>2, <3>3, Stays
  <2>6. CASE Finished(r)
    BY <2>1, <2>2, <2>3, <2>6, LeavesAsIs
  <2> QED BY <2>4, <2>5, <2>6
<1>32. ASSUME NEW r \in Requests, EvictOldest(r)
       PROVE FlowInv'
  <2>1. PICK q \in RequestRecord : q = req[r] /\ Shape(q)
    BY <1>32, AtStep DEF EvictOldest
  <2>2. q.pc = "open" /\ q.op \in {"first", "signup"} /\ q.f \in Flows /\ r \in Holders(q.f)
    BY <1>32, <2>1, OpOf DEF EvictOldest, Shape, Last, Holders, Busy
  <2>3. UNCHANGED <<flows, guesses, ended, used, crowded, lingering>>
    BY <1>32 DEF EvictOldest
  <2> DEFINE n == Cleared(q)
  <2>5. n.pc = "create" /\ n.op = q.op /\ n.f = q.f /\ n.c = q.c
    BY <2>1, <2>2, ClearedShape
  <2>6. req' = [req EXCEPT ![r] = n]
    BY <1>32, <2>1 DEF EvictOldest, Cleared
  <2> HIDE DEF n
  <2>7. Reckons(q.f, q) => Reckons(q.f, n)
    BY <2>2, <2>5 DEF Reckons, Counted, FlowSteps
  <2> QED BY <2>1, <2>2, <2>3, <2>5, <2>6, <2>7, Stays
<1>33. ASSUME NEW r \in Requests, GetSession(r)
       PROVE FlowInv'
  <2>1. PICK q \in RequestRecord : q = req[r] /\ Shape(q)
    BY <1>33, AtStep DEF GetSession
  <2>2. q.pc = "get" /\ q.op \in {"mfa", "organization"} /\ q.f \in Flows /\ r \in Holders(q.f)
    BY <1>33, <2>1, OpOf DEF GetSession, Shape, Last, Holders, Busy
  <2>3. UNCHANGED <<flows, guesses, ended, used, crowded, lingering>>
    BY <1>33 DEF GetSession
  <2> DEFINE s == sess[q.c.sid]
  <2>4. \/ /\ s # None /\ (q.op = "mfa" => s.user = q.u)
           /\ req' = [req EXCEPT ![r] = Fetched(q, s)]
        \/ Finished(r)
        \/ q.op = "organization" /\ req' = [req EXCEPT ![r] = Bound(q)]
    BY <1>33, <2>1 DEF GetSession, Fetched, Bound
  <2>5. s \in SsoSession \cup {None}
    BY <2>1, <2>2 DEF Shape, Last, ShapeInv, TypeOK
  <2> HIDE DEF s
  <2>6. CASE /\ s # None /\ (q.op = "mfa" => s.user = q.u)
             /\ req' = [req EXCEPT ![r] = Fetched(q, s)]
    <3> DEFINE n == Fetched(q, s)
    <3>1. /\ n.pc = "store" /\ n.op = q.op /\ n.f = q.f /\ n.c = q.c
          /\ req' = [req EXCEPT ![r] = n]
      BY <2>1, <2>2, <2>5, <2>6, FetchedShape
    <3> HIDE DEF n
    <3>2. Reckons(q.f, q) => Reckons(q.f, n)
      BY <2>2, <3>1 DEF Reckons
    <3> QED BY <2>1, <2>2, <2>3, <3>1, <3>2, Stays
  <2>7. CASE q.op = "organization" /\ req' = [req EXCEPT ![r] = Bound(q)]
    BY <2>1, <2>2, <2>3, <2>7, BoundReckons, Stays
  <2>8. CASE Finished(r)
    BY <2>1, <2>2, <2>3, <2>8, LeavesAsIs
  <2> QED BY <2>4, <2>6, <2>7, <2>8
<1>34. ASSUME NEW r \in Requests, StoreSession(r)
       PROVE FlowInv'
  <2>1. PICK q \in RequestRecord : q = req[r] /\ Shape(q)
    BY <1>34, AtStep DEF StoreSession
  <2>2. q.pc = "store" /\ q.s \in SsoSession /\ q.sid \in Sessions
    BY <1>34, <2>1 DEF StoreSession, Shape, Last
  <2>3. UNCHANGED <<flows, guesses, ended, used, crowded, lingering>>
    BY <1>34 DEF StoreSession
  <2>4. \/ q.op = "mfa" /\ req' = [req EXCEPT ![r] = Passed(q)]
        \/ q.op = "organization" /\ req' = [req EXCEPT ![r] = Bound(q)]
        \/ q.op = "finish" /\ req' = [req EXCEPT ![r] = MovedTo(q, "finish")]
        \/ q.op = "touch" /\ Finished(r)
    BY <1>34, <2>1 DEF StoreSession, Passed, Bound, Goto, MovedTo
  <2>5. q.op \in {"mfa", "organization", "finish"} => q.f \in Flows /\ r \in Holders(q.f)
    BY <2>1, <2>2 DEF Shape, Last, Holders, Busy
  <2>6. CASE q.op = "mfa" /\ req' = [req EXCEPT ![r] = Passed(q)]
    <3> DEFINE n == Passed(q)
    <3>1. n.pc = "save" /\ n.op = q.op /\ n.f = q.f /\ n.c.mfa = TRUE
      BY <2>1, <2>2, <2>6, PassedShape
    <3>2. req' = [req EXCEPT ![r] = n]
      BY <2>6
    <3> HIDE DEF n
    <3>3. Reckons(q.f, n)
      BY <2>6, <3>1 DEF Reckons
    <3> QED BY <2>1, <2>2, <2>3, <2>5, <2>6, <3>1, <3>2, <3>3, Stays
  <2>7. CASE q.op = "organization" /\ req' = [req EXCEPT ![r] = Bound(q)]
    BY <2>1, <2>2, <2>3, <2>5, <2>7, BoundReckons, Stays
  <2>8. CASE q.op = "finish" /\ req' = [req EXCEPT ![r] = MovedTo(q, "finish")]
    <3> DEFINE n == MovedTo(q, "finish")
    <3>1. n.pc = "finish" /\ n.op = q.op /\ n.f = q.f /\ n.c = q.c
      BY Moved DEF Pcs
    <3>2. req' = [req EXCEPT ![r] = n]
      BY <2>8
    <3> HIDE DEF n
    <3>3. Reckons(q.f, q) => Reckons(q.f, n)
      BY <2>2, <3>1 DEF Reckons
    <3> QED BY <2>1, <2>2, <2>3, <2>5, <2>8, <3>1, <3>2, <3>3, Stays
  <2>9. CASE q.op = "touch" /\ Finished(r)
    <3>1. q.f = None /\ req' = [req EXCEPT ![r] = Idle] /\ Idle.pc = "idle"
      BY <2>1, <2>9 DEF Finished, Idle, Shape, Last
    <3> QED BY <2>1, <2>3, <3>1, Aside, BoundsAssumption DEF ShapeInv, TypeOK
  <2> QED BY <2>4, <2>6, <2>7, <2>8, <2>9
<1>35. ASSUME NEW r \in Requests, GrantConsent(r)
       PROVE FlowInv'
  <2>1. PICK q \in RequestRecord : q = req[r] /\ Shape(q)
    BY <1>35, AtStep DEF GrantConsent
  <2>2. q.pc = "consent" /\ q.op \in {"consent"} /\ q.f \in Flows /\ r \in Holders(q.f)
    BY <1>35, <2>1, OpOf DEF GrantConsent, Shape, Last, Holders, Busy
  <2>3. UNCHANGED <<flows, guesses, ended, used, crowded, lingering>>
    BY <1>35 DEF GrantConsent
  <2> DEFINE n == Consented(q)
  <2>5. /\ n.pc = "save" /\ n.op = q.op /\ n.f = q.f /\ n.c.attempts = q.c.attempts
        /\ n.c.mfa = q.c.mfa
    BY <2>1, <2>2, ConsentedShape
  <2>6. req' = [req EXCEPT ![r] = n]
    BY <1>35, <2>1 DEF GrantConsent, Consented
  <2> HIDE DEF n
  <2>7. Reckons(q.f, q) => Reckons(q.f, n)
    BY <2>2, <2>5 DEF Reckons, Counted, FlowSteps
  <2> QED BY <2>1, <2>2, <2>3, <2>5, <2>6, <2>7, Stays
<1>36. ASSUME NEW r \in Requests, CheckFactor(r)
       PROVE FlowInv'
  <2>1. PICK q \in RequestRecord : q = req[r] /\ Shape(q)
    BY <1>36, AtStep DEF CheckFactor
  <2>2. q.pc = "factor" /\ q.op \in {"mfa"} /\ q.f \in Flows /\ r \in Holders(q.f)
    BY <1>36, <2>1, OpOf DEF CheckFactor, Shape, Last, Holders, Busy
  <2>3. UNCHANGED <<flows, ended, used, crowded, lingering>>
    BY <1>36 DEF CheckFactor
  <2>4. CASE Finished(r) /\ UNCHANGED guesses
    BY <2>1, <2>2, <2>3, <2>4, LeavesAsIs
  <2>5. CASE Goto(r, "get") /\ UNCHANGED guesses
    <3> DEFINE n == MovedTo(q, "get")
    <3>1. n.pc = "get" /\ n.op = q.op /\ n.f = q.f /\ n.c = q.c
      BY Moved DEF Pcs
    <3>2. req' = [req EXCEPT ![r] = n]
      BY <2>1, <2>5 DEF Goto, MovedTo
    <3> HIDE DEF n
    <3>3. Reckons(q.f, q) => Reckons(q.f, n)
      BY <2>2, <3>1 DEF Reckons
    <3> QED BY <2>1, <2>2, <2>3, <2>5, <3>1, <3>2, <3>3, Stays
  <2>6. CASE Goto(r, "mfaReject") /\ guesses' = [guesses EXCEPT ![q.f] = @ + 1]
    <3>1. PICK n : n = MovedTo(q, "mfaReject")
      OBVIOUS
    <3>2. n.pc = "mfaReject" /\ n.op = q.op /\ n.f = q.f /\ n.c = q.c
      BY <3>1, Moved DEF Pcs
    <3>3. req'[r] = n /\ \A p \in Requests \ {r} : req'[p] = req[p]
      BY <2>1, <2>6, <3>1 DEF Goto, MovedTo, ShapeInv, TypeOK
    <3>4. /\ guesses'[q.f] = guesses[q.f] + 1 /\ guesses[q.f] \in Nat /\ q.c.attempts \in Nat
          /\ \A g \in Flows : g # q.f => guesses'[g] = guesses[g]
      BY <2>2, <2>6 DEF ShapeInv, TypeOK, RequestRecord, LoginFlowRecord
    <3> SUFFICES ASSUME NEW g \in Flows PROVE Orderly(g)'
      BY DEF FlowInv
    <3>5. CASE g # q.f
      <4>1. r \notin Holders(g) /\ r \notin Holders(g)'
        BY <2>1, <3>2, <3>3, <3>5 DEF Holders, Busy
      <4> QED BY <2>3, <3>3, <3>4, <3>5, <4>1, Elsewhere DEF FlowInv
    <3>6. CASE g = q.f
      <4>1. Orderly(g) /\ r \in Holders(g)
        BY <2>2, <3>6 DEF FlowInv
      <4>2. Holders(g)' = Holders(g)
        BY <2>1, <2>2, <3>2, <3>3, <3>6 DEF Holders, Busy
      <4>3. g \in used
        BY <4>1 DEF Orderly
      <4>4. ASSUME g \notin crowded \cup lingering
            PROVE  (\A x \in Holders(g) : x = r) /\ g \notin ended /\ Reckons(g, q)
        BY <2>1, <4>1, <4>4 DEF Orderly
      <4>5. ~ q.c.mfa
        BY <2>1, <2>2 DEF Shape, Last
      <4>6. ASSUME g \notin crowded \cup lingering PROVE guesses'[g] <= MaxAttempts /\ Reckons(g, n)'
        BY <2>2, <3>2, <3>4, <3>6, <4>4, <4>5, <4>6, BoundsAssumption DEF Reckons, Counted,
           FlowSteps
      <4> QED BY <2>3, <3>2, <3>3, <3>6, <4>1, <4>2, <4>3, <4>4, <4>6 DEF Orderly
    <3> QED BY <3>5, <3>6
  <2> QED BY <1>36, <2>1, <2>4, <2>5, <2>6 DEF CheckFactor
<1>37. ASSUME NEW r \in Requests, Decide(r)
       PROVE FlowInv'
  <2>1. PICK q \in RequestRecord : q = req[r] /\ Shape(q)
    BY <1>37, AtStep DEF Decide
  <2>2. q.pc = "decide" /\ q.op \in {"authorize"} /\ q.f \in Flows /\ r \in Holders(q.f)
    BY <1>37, <2>1, OpOf DEF Decide, Shape, Last, Holders, Busy
  <2>3. Finished(r) /\ UNCHANGED <<guesses, used, crowded, lingering, ended>>
    BY <1>37 DEF Decide
  <2>4. ASSUME NEW c \in LoginFlowRecord, flows' = [flows EXCEPT ![q.f] = c], c.attempts = 0
        PROVE  FlowInv'
    <3>1. Reckons(q.f, q) => Counted(q.f, c)
      BY <2>2, <2>4, BoundsAssumption DEF Reckons, Counted
    <3> QED BY <2>1, <2>2, <2>3, <2>4, <3>1, Leaves
  <2>5. CASE flows' = flows
    BY <2>1, <2>2, <2>3, <2>5, LeavesAsIs
  <2> QED BY <1>37, <2>1, <2>4, <2>5, DecideIs DEF OpensSignIn, OpensOwing, IssuesCode
<1>38. ASSUME NEW r \in Requests, BindOnTheWay(r)
       PROVE FlowInv'
  <2>1. PICK q \in RequestRecord : q = req[r] /\ Shape(q)
    BY <1>38, AtStep DEF BindOnTheWay
  <2>2. PICK s : s = sess[q.c.sid]
    OBVIOUS
  <2>3. /\ q.pc = "save" /\ req' = [req EXCEPT ![r] = Binding(q, s)] /\ s # None
        /\ UNCHANGED <<flows, guesses, ended, used, crowded, lingering>>
    BY <1>38, <2>1, <2>2 DEF BindOnTheWay, BindingDue, Binding
  <2>4. q.f \in Flows /\ r \in Holders(q.f) /\ q.c.sid \in Sessions
    BY <2>1, <2>3, OpOf DEF Shape, Last, Holders, Busy
  <2>5. s \in SsoSession
    BY <2>2, <2>3, <2>4 DEF ShapeInv, TypeOK
  <2> DEFINE n == Binding(q, s)
  <2>6. n.pc = "bind" /\ n.op = q.op /\ n.f = q.f /\ n.c = q.c
    BY <2>1, <2>3, <2>5, BindingShape
  <2>7. req' = [req EXCEPT ![r] = n]
    BY <2>3
  <2> HIDE DEF n
  <2>8. Reckons(q.f, q) => Reckons(q.f, n)
    BY <2>3, <2>6 DEF Reckons
  <2> QED BY <2>1, <2>3, <2>4, <2>6, <2>7, <2>8, Stays
<1>39. ASSUME NEW r \in Requests, StoreBinding(r)
       PROVE FlowInv'
  <2>1. PICK q \in RequestRecord : q = req[r] /\ Shape(q)
    BY <1>39, AtStep DEF StoreBinding
  <2>2. /\ q.pc = "bind" /\ req' = [req EXCEPT ![r] = Bound(q)]
        /\ UNCHANGED <<flows, guesses, ended, used, crowded, lingering>>
    BY <1>39, <2>1 DEF StoreBinding, Bound
  <2>3. q.f \in Flows /\ r \in Holders(q.f)
    BY <2>1, <2>2, OpOf DEF Shape, Last, Holders, Busy
  <2> QED BY <2>1, <2>2, <2>3, BoundReckons, Stays
<1>40. ASSUME NEW u \in Users, PasswordExpires(u) \/ ForcePasswordChange(u)
       PROVE FlowInv'
  <2>1. UNCHANGED <<flows, guesses, ended, used, crowded, lingering>> /\ UNCHANGED req
    BY <1>40 DEF PasswordExpires, ForcePasswordChange
  <2> QED BY <2>1 DEF FlowInv, Orderly, Holders, Busy, Counted, Reckons
<1>41. ASSUME NEW r \in Requests, Fail(r)
       PROVE FlowInv'
  <2>1. PICK q \in RequestRecord : q = req[r] /\ Shape(q) /\ q.pc # "idle"
    BY <1>41, AtStep DEF Fail, Busy
  <2>2. /\ Finished(r) /\ UNCHANGED <<flows, guesses, ended, used, crowded>>
        /\ lingering' = IF q.pc = "mfaReject" THEN lingering \cup {q.f} ELSE lingering
    BY <1>41, <2>1 DEF Fail
  <2>3. q.pc = "mfaReject" => q.f \in Flows
    BY <2>1, OpOf DEF Shape
  <2>4. CASE q.f \in Flows /\ q.pc # "resume"
    <3>1. r \in Holders(q.f)
      BY <2>1, <2>4 DEF Holders, Busy
    <3> QED BY <2>1, <2>2, <2>4, <3>1, Slips, LeavesAsIs
  <2>5. CASE q.f \notin Flows \/ q.pc = "resume"
    <3>1. req' = [req EXCEPT ![r] = Idle] /\ Idle.pc = "idle"
      BY <2>2 DEF Finished, Idle
    <3>2. lingering' = lingering
      BY <2>2, <2>3, <2>5
    <3> QED BY <2>1, <2>2, <2>5, <3>1, <3>2, Aside DEF ShapeInv, TypeOK
  <2> QED BY <2>4, <2>5
<1>42. ASSUME UNCHANGED vars PROVE FlowInv'
  BY <1>42 DEF vars, FlowInv, Orderly, Holders, Busy, Counted, Reckons
<1> QED
  BY <1>1, <1>2, <1>3, <1>4, <1>5, <1>6, <1>7, <1>8, <1>9, <1>10, <1>11, <1>12,
     <1>13, <1>14, <1>15, <1>16, <1>17, <1>18, <1>19, <1>20, <1>21, <1>22, <1>23,
     <1>24, <1>25, <1>26, <1>27, <1>28, <1>29, <1>30, <1>31, <1>32, <1>33, <1>34,
     <1>35, <1>36, <1>37, <1>38, <1>39, <1>40, <1>41, <1>42
     DEF Next

(* A flow that has ended stays ended and takes no more wrong codes than      *)
(* MFA_MAX_ATTEMPTS, unless two requests held copies of it at once, its      *)
(* deletion failed, or the count of a wrong code was not saved.              *)
THEOREM EndedStaysEnded == Spec => []EndedFlowStaysEnded
<1>1. Init => FlowInv
  <2> SUFFICES ASSUME Init, NEW f \in Flows PROVE Orderly(f)
    BY DEF FlowInv
  <2>1. Holders(f) = {}
    BY DEF Init, Holders, Busy, Idle
  <2> QED BY <2>1, BoundsAssumption DEF Init, Orderly
<1>2. ShapeInv /\ FlowInv => EndedFlowStaysEnded
  BY DEF FlowInv, Orderly, EndedFlowStaysEnded
<1> QED BY <1>1, <1>2, InitShape, NextShape, NextFlows, PTL DEF Spec

-----------------------------------------------------------------------------
(* Sessions that end.                                                        *)

(* A session that was ended, or is about to be marked so in the database.    *)
Gone(s) ==
    \/ rows[s] = "revoked"
    \/ \E r \in Requests : req[r].pc = "mark" /\ req[r].sid = s

(* Sessions are opened one after the other, and only an opened one is in     *)
(* Valkey or in a request's hands.                                           *)
OpenedInOrder ==
    \E n \in 0..MaxSessions : \A s \in Sessions : rows[s] # "none" <=> s <= n
OpenedIsHeld ==
    /\ \A s \in Sessions : sess[s] # None => rows[s] # "none"
    /\ \A r \in Requests : Busy(r) /\ req[r].sid # None => rows[req[r].sid] # "none"

(* A session whose key is missing was ended, and in full.                    *)
MissingIsGone == \A s \in Sessions \ halfway : sess[s] = None => rows[s] = "none" \/ Gone(s)

(* One that was ended while nobody held it is missing, and nobody comes to   *)
(* hold it but to mark its row.                                              *)
GoneIsMissing ==
    \A s \in Sessions \ raced : Gone(s) =>
        sess[s] = None /\ \A r \in Requests : Busy(r) /\ req[r].sid = s => req[r].pc = "mark"

(* The copies of a live session have its user, and the user's set lists it.  *)
CopiesAgree ==
    \A r \in Requests : Busy(r) /\ req[r].s # None /\ req[r].sid \in Sessions \ (raced \cup halfway) =>
        sess[req[r].sid] = None \/ sess[req[r].sid].user = req[r].s.user
LiveIsTracked == \A s \in Sessions \ (raced \cup halfway) : sess[s] # None => s \in tracked

SessInv ==
    /\ OpenedInOrder /\ OpenedIsHeld /\ MissingIsGone /\ GoneIsMissing /\ CopiesAgree
    /\ LiveIsTracked

(* The user's sessions that count against max_concurrent, and the sign-ins   *)
(* about to open one more.                                                   *)
SessionsOf(u) == {s \in Sessions \ (raced \cup halfway) : sess[s] # None /\ sess[s].user = u}
Opening(u) == {p \in Requests : req[p].pc = "create" /\ req[p].u = u}

(* While no two sign-ins of a user overlap there is room for the one that    *)
(* has made room.                                                            *)
CapInv ==
    MaxConcurrent > 0 => \A u \in Users \ rushed :
        /\ Cardinality(SessionsOf(u)) <= MaxConcurrent
        /\ \A p, q \in Opening(u) : p = q
        /\ Opening(u) # {} => Cardinality(SessionsOf(u)) < MaxConcurrent

(* There are finitely many sessions, and so fewer in a part of a set.        *)
LEMMA SessionsCount == ASSUME NEW S, S \subseteq Sessions, NEW T, T \subseteq S
                       PROVE  /\ IsFiniteSet(S) /\ IsFiniteSet(T)
                              /\ Cardinality(S) \in Nat /\ Cardinality(T) \in Nat
                              /\ Cardinality(T) <= Cardinality(S)
<1>1. MaxSessions \in Nat /\ Sessions = 1..MaxSessions
  BY BoundsAssumption DEF Sessions
<1>2. IsFiniteSet(Sessions)
  BY <1>1, FS_Interval
<1>3. IsFiniteSet(S)
  BY <1>2, FS_Subset
<1>4. IsFiniteSet(T) /\ Cardinality(T) <= Cardinality(S)
  BY <1>3, FS_Subset
<1> QED BY <1>3, <1>4, FS_CardinalityType

(* A step that brings a user neither a session nor a sign-in.                *)
LEMMA CapShrinks == ASSUME CapInv, NEW u \in Users \ rushed, MaxConcurrent > 0,
                           SessionsOf(u)' \subseteq SessionsOf(u),
                           Opening(u)' \subseteq Opening(u)
                    PROVE  /\ Cardinality(SessionsOf(u)') <= MaxConcurrent
                           /\ \A p, q \in Opening(u)' : p = q
                           /\ Opening(u)' # {} => Cardinality(SessionsOf(u)') < MaxConcurrent
<1>1. /\ Cardinality(SessionsOf(u)) <= MaxConcurrent
      /\ \A p, q \in Opening(u) : p = q
      /\ Opening(u) # {} => Cardinality(SessionsOf(u)) < MaxConcurrent
  BY DEF CapInv
<1>2. SessionsOf(u) \subseteq Sessions
  BY DEF SessionsOf
<1> DEFINE S == SessionsOf(u)
           T == SessionsOf(u)'
<1>3. /\ Cardinality(S) \in Nat /\ Cardinality(T) \in Nat /\ Cardinality(T) <= Cardinality(S)
  BY <1>2, SessionsCount
<1>4. MaxConcurrent \in Nat
  BY BoundsAssumption
<1> HIDE DEF S, T
<1>5. Cardinality(S) <= MaxConcurrent => Cardinality(T) <= MaxConcurrent
  BY <1>3, <1>4
<1>6. Cardinality(S) < MaxConcurrent => Cardinality(T) < MaxConcurrent
  BY <1>3, <1>4
<1> QED BY <1>1, <1>5, <1>6 DEF S, T

(* The same for every user.                                                  *)
LEMMA CapKeeps == ASSUME CapInv, rushed \subseteq rushed', raced \subseteq raced',
                         halfway \subseteq halfway',
                         \A s \in Sessions \ (raced' \cup halfway') :
                            sess'[s] # None => sess[s] # None /\ sess'[s].user = sess[s].user,
                         \A p \in Requests :
                            req'[p].pc = "create" => req[p].pc = "create" /\ req'[p].u = req[p].u
                  PROVE  CapInv'
<1> SUFFICES ASSUME MaxConcurrent > 0, NEW u \in Users \ rushed'
             PROVE  /\ Cardinality(SessionsOf(u)') <= MaxConcurrent
                    /\ \A p, q \in Opening(u)' : p = q
                    /\ Opening(u)' # {} => Cardinality(SessionsOf(u)') < MaxConcurrent
  BY DEF CapInv
<1>1. SessionsOf(u)' \subseteq SessionsOf(u)
  BY DEF SessionsOf
<1>2. Opening(u)' \subseteq Opening(u)
  BY DEF Opening
<1> QED BY <1>1, <1>2, CapShrinks

(* A step of one request that neither opens nor ends a session: what it      *)
(* writes is there already, or was ended in a race.                          *)
LEMMA SessKeeps == ASSUME ShapeInv, SessInv, CapInv, NEW r \in Requests,
                          \A p \in Requests \ {r} : req'[p] = req[p],
                          UNCHANGED <<rows, raced, rushed, tracked, halfway>>,
                          \A s \in Sessions :
                             \/ sess'[s] = sess[s]
                             \/ /\ sess[s] # None /\ sess'[s] # None
                                /\ sess'[s].user = sess[s].user
                             \/ /\ s \in raced \cup halfway /\ (s \in raced \/ ~ Gone(s))
                                /\ sess'[s] # None /\ rows[s] # "none",
                          req[r].pc # "mark", req'[r].pc \notin {"mark", "create"},
                          \/ req'[r].pc = "idle"
                          \/ /\ req[r].pc # "idle"
                             /\ req'[r].sid = req[r].sid /\ req'[r].s = req[r].s
                          \/ req'[r].sid = None /\ req'[r].s = None
                          \/ /\ req'[r].sid \in Sessions /\ sess[req'[r].sid] # None
                             /\ req'[r].s # None => req'[r].s.user = sess[req'[r].sid].user
                   PROVE  SessInv' /\ CapInv'
<1>n. None \notin Sessions
  BY BoundsAssumption DEF Sessions
<1>g. \A s : Gone(s)' <=> Gone(s)
  BY DEF Gone
<1>1. OpenedInOrder'
  BY DEF SessInv, OpenedInOrder
<1>2. OpenedIsHeld'
  BY DEF SessInv, OpenedIsHeld, Busy
<1>3. MissingIsGone'
  BY <1>g DEF SessInv, MissingIsGone
<1>4. GoneIsMissing'
  <2> SUFFICES ASSUME NEW s \in Sessions \ raced, Gone(s)
               PROVE  /\ sess'[s] = None
                      /\ \A p \in Requests : Busy(p)' /\ req'[p].sid = s => req'[p].pc = "mark"
    BY <1>g DEF GoneIsMissing
  <2>1. /\ sess[s] = None
        /\ \A p \in Requests : Busy(p) /\ req[p].sid = s => req[p].pc = "mark"
    BY DEF SessInv, GoneIsMissing
  <2> QED BY <1>n, <2>1 DEF Busy
<1>5. CopiesAgree'
  <2> SUFFICES ASSUME NEW p \in Requests, Busy(p)', req'[p].s # None,
                      req'[p].sid \in Sessions \ (raced \cup halfway), sess'[req'[p].sid] # None
               PROVE  sess'[req'[p].sid].user = req'[p].s.user
    BY DEF CopiesAgree
  <2>1. /\ sess[req'[p].sid] # None
        /\ sess'[req'[p].sid].user = sess[req'[p].sid].user
    OBVIOUS
  <2>2. CASE p # r
    BY <2>1, <2>2 DEF SessInv, CopiesAgree, Busy
  <2>3. CASE p = r
    BY <2>1, <2>3 DEF SessInv, CopiesAgree, Busy
  <2> QED BY <2>2, <2>3
<1>6. LiveIsTracked'
  BY DEF SessInv, LiveIsTracked
<1>7. CapInv'
  <2>1. rushed \subseteq rushed' /\ raced \subseteq raced' /\ halfway \subseteq halfway'
    OBVIOUS
  <2>2. \A s \in Sessions \ (raced' \cup halfway') :
           sess'[s] # None => sess[s] # None /\ sess'[s].user = sess[s].user
    OBVIOUS
  <2>3. \A p \in Requests :
           req'[p].pc = "create" => req[p].pc = "create" /\ req'[p].u = req[p].u
    OBVIOUS
  <2> QED BY <2>1, <2>2, <2>3, CapKeeps
<1> QED BY <1>1, <1>2, <1>3, <1>4, <1>5, <1>6, <1>7 DEF SessInv

(* A request that goes on, or ends, and touches no session.                  *)
LEMMA SessGoes == ASSUME ShapeInv, SessInv, CapInv, NEW r \in Requests,
                         req[r].pc \notin {"idle", "mark"},
                         NEW q, req' = [req EXCEPT ![r] = q], q.pc \notin {"mark", "create"},
                         q.pc = "idle" \/ (q.sid = req[r].sid /\ q.s = req[r].s),
                         UNCHANGED <<sess, rows, raced, rushed, tracked, halfway>>
                  PROVE  SessInv' /\ CapInv'
<1>1. req'[r] = q /\ \A p \in Requests \ {r} : req'[p] = req[p]
  BY DEF ShapeInv, TypeOK
<1> QED BY <1>1, SessKeeps

(* A request that arrives with the session of the browser, or with none.     *)
LEMMA SessBegins == ASSUME ShapeInv, SessInv, CapInv, NEW r \in Requests,
                           req[r].pc = "idle",
                           NEW q, req' = [req EXCEPT ![r] = q], q.pc \notin {"mark", "create"},
                           \/ q.sid = None /\ q.s = None
                           \/ q.sid = Current /\ q.s = RecordOf(Current),
                           UNCHANGED <<sess, rows, raced, rushed, tracked, halfway>>
                    PROVE  SessInv' /\ CapInv'
<1>1. req'[r] = q /\ \A p \in Requests \ {r} : req'[p] = req[p]
  BY DEF ShapeInv, TypeOK
<1>2. CASE q.sid = None /\ q.s = None
  BY <1>1, <1>2, SessKeeps
<1>3. CASE q.sid = Current /\ q.s = RecordOf(Current)
  <2>1. CASE Current = None
    BY <1>1, <1>3, <2>1, SessKeeps DEF RecordOf
  <2>2. CASE Current # None
    <3>1. Current \in Sessions /\ RecordOf(Current) = sess[Current] /\ sess[Current] # None
      BY <2>2, CurrentRecord, RecordsAssumption DEF ShapeInv
    <3> QED BY <1>1, <1>3, <3>1, SessKeeps
  <2> QED BY <2>1, <2>2
<1> QED BY <1>2, <1>3

(* A request that writes back the copy it has of a session nobody ended in   *)
(* a race finds the session there, and the same user's.                      *)
LEMMA WritesWhatIs == ASSUME ShapeInv, SessInv, NEW r \in Requests,
                             req[r].pc \notin {"idle", "mark"}, req[r].s # None,
                             req[r].sid \in Sessions \ (raced \cup halfway)
                      PROVE  /\ sess[req[r].sid] # None
                             /\ sess[req[r].sid].user = req[r].s.user
<1>1. rows[req[r].sid] # "none"
  BY BoundsAssumption DEF SessInv, OpenedIsHeld, Busy, Sessions
<1>2. ~ Gone(req[r].sid)
  BY DEF SessInv, GoneIsMissing, Busy
<1> QED BY <1>1, <1>2 DEF SessInv, MissingIsGone, CopiesAgree, Busy

(* A request that writes its copy back, as it was or with another mark.      *)
LEMMA SessWrites == ASSUME ShapeInv, SessInv, CapInv, NEW r \in Requests,
                           req[r].pc \notin {"idle", "mark"}, req[r].s # None,
                           req[r].sid \in Sessions,
                           NEW x, x # None, x.user = req[r].s.user,
                           sess' = [sess EXCEPT ![req[r].sid] = x],
                           NEW q, req' = [req EXCEPT ![r] = q], q.pc \notin {"mark", "create"},
                           q.pc = "idle" \/ (q.sid = req[r].sid /\ q.s = req[r].s),
                           UNCHANGED <<rows, raced, rushed, tracked, halfway>>
                    PROVE  SessInv' /\ CapInv'
<1>1. req'[r] = q /\ \A p \in Requests \ {r} : req'[p] = req[p]
  BY DEF ShapeInv, TypeOK
<1>2. rows[req[r].sid] # "none"
  BY BoundsAssumption DEF SessInv, OpenedIsHeld, Busy, Sessions
<1>3. ASSUME NEW s \in Sessions
      PROVE  \/ sess'[s] = sess[s]
             \/ /\ sess[s] # None /\ sess'[s] # None
                /\ sess'[s].user = sess[s].user
             \/ /\ s \in raced \cup halfway /\ (s \in raced \/ ~ Gone(s))
                                /\ sess'[s] # None /\ rows[s] # "none"
  <2>1. sess \in [Sessions -> SsoSession \cup {None}]
    BY DEF ShapeInv, TypeOK
  <2>2. CASE s # req[r].sid
    BY <2>1, <2>2
  <2>3. CASE s = req[r].sid /\ s \in raced \cup halfway
    <3>1. s \in raced \/ ~ Gone(s)
      BY <2>3 DEF SessInv, GoneIsMissing, Busy
    <3> QED BY <1>2, <2>1, <2>3, <3>1
  <2>4. CASE s = req[r].sid /\ s \notin raced \cup halfway
    BY <2>1, <2>4, WritesWhatIs
  <2> QED BY <2>2, <2>3, <2>4
<1> QED BY <1>1, <1>3, SessKeeps

(* The number of the next session.                                           *)
LEMMA OpenedCount == ASSUME NEW k \in 0..MaxSessions,
                            \A s \in Sessions : rows[s] # "none" <=> s <= k
                     PROVE  Cardinality({s \in Sessions : rows[s] # "none"}) = k
<1>1. MaxSessions \in Nat
  BY BoundsAssumption
<1>2. {s \in Sessions : rows[s] # "none"} = 1..k
  BY <1>1 DEF Sessions
<1>3. Cardinality(1..k) = k
  <2>1. 1 \in Int /\ k \in Int /\ k >= 0
    BY <1>1
  <2>2. Cardinality(1..k) = IF 1 > k THEN 0 ELSE k - 1 + 1
    BY <2>1, FS_Interval
  <2> QED BY <2>1, <2>2
<1> QED BY <1>2, <1>3

(* sessions::create, under an id that nobody knows, in full or half-way.      *)
LEMMA SessOpens == ASSUME ShapeInv, SessInv, NEW r \in Requests,
                          req[r].pc \notin {"idle", "mark"},
                          NEW k \in 0..MaxSessions,
                          \A s \in Sessions : rows[s] # "none" <=> s <= k,
                          k + 1 \in Sessions, NEW x \in SsoSession, x # None,
                          sess' \in {sess, [sess EXCEPT ![k + 1] = x]},
                          rows' = [rows EXCEPT ![k + 1] = "live"],
                          tracked \subseteq tracked', halfway \subseteq halfway',
                          \/ k + 1 \in halfway'
                          \/ sess'[k + 1] = x /\ k + 1 \in tracked',
                          UNCHANGED raced,
                          NEW q, req' = [req EXCEPT ![r] = q],
                          \/ q.pc = "idle"
                          \/ q.pc = "save" /\ q.sid = k + 1 /\ q.s = None
                   PROVE  SessInv'
<1> DEFINE s == k + 1
<1>1. MaxSessions \in Nat /\ Sessions = 1..MaxSessions /\ None \notin Sessions
  BY BoundsAssumption DEF Sessions
<1>2. rows[s] = "none" /\ sess[s] = None
  <2>1. ~ (s <= k)
    BY <1>1
  <2> QED BY <2>1 DEF SessInv, OpenedIsHeld
<1>3. /\ req'[r] = q /\ \A p \in Requests \ {r} : req'[p] = req[p]
      /\ sess'[s] \in {None, x} /\ \A t \in Sessions \ {s} : sess'[t] = sess[t]
      /\ rows'[s] = "live" /\ \A t \in Sessions \ {s} : rows'[t] = rows[t]
  BY <1>2 DEF ShapeInv, TypeOK
<1>4. \A p \in Requests : Busy(p) => req[p].sid # s
  BY <1>1, <1>2 DEF SessInv, OpenedIsHeld
<1>5. ~ Gone(s)' /\ \A t \in Sessions \ {s} : Gone(t)' <=> Gone(t)
  BY <1>3, <1>4 DEF Gone, Busy
<1>6. OpenedInOrder'
  <2>1. s \in 0..MaxSessions
    BY <1>1
  <2>2. ASSUME NEW t \in Sessions PROVE rows'[t] # "none" <=> t <= s
    <3>1. CASE t = s
      BY <1>1, <1>3, <3>1
    <3>2. CASE t # s
      <4>1. t <= k <=> t <= s
        BY <1>1, <3>2
      <4> QED BY <1>3, <3>2, <4>1
    <3> QED BY <3>1, <3>2
  <2> QED BY <2>1, <2>2 DEF OpenedInOrder
<1> HIDE DEF s
<1>7. OpenedIsHeld'
  <2>1. ASSUME NEW p \in Requests, Busy(p)', req'[p].sid # None PROVE rows'[req'[p].sid] # "none"
    <3>1. CASE p = r
      BY <1>3, <2>1, <3>1 DEF s, Busy
    <3>2. CASE p # r
      <4>1. req'[p] = req[p] /\ Busy(p)
        BY <1>3, <2>1, <3>2 DEF Busy
      <4>2. req[p].sid \in Sessions
        BY <2>1, <4>1, BusyRecord DEF Busy, ShapeInv, RequestRecord
      <4> QED BY <1>3, <1>4, <2>1, <4>1, <4>2 DEF SessInv, OpenedIsHeld
    <3> QED BY <3>1, <3>2
  <2>2. \A t \in Sessions : sess'[t] # None => rows'[t] # "none"
    BY <1>3 DEF SessInv, OpenedIsHeld
  <2> QED BY <2>1, <2>2 DEF OpenedIsHeld
<1>8. MissingIsGone'
  BY <1>3, <1>5 DEF SessInv, MissingIsGone, s
<1>9. GoneIsMissing'
  <2> SUFFICES ASSUME NEW t \in Sessions \ raced, t # s, Gone(t)
               PROVE  /\ sess'[t] = None
                      /\ \A p \in Requests : Busy(p)' /\ req'[p].sid = t => req'[p].pc = "mark"
    BY <1>5 DEF GoneIsMissing
  <2>1. q.pc = "idle" \/ q.sid = s
    BY DEF s
  <2> QED BY <1>3, <2>1 DEF SessInv, GoneIsMissing, Busy
<1>10. CopiesAgree'
  BY <1>3, <1>4 DEF SessInv, CopiesAgree, Busy
<1>11. LiveIsTracked'
  BY <1>3 DEF SessInv, LiveIsTracked, s
<1> QED BY <1>6, <1>7, <1>8, <1>9, <1>10, <1>11 DEF SessInv

(* end_session for sessions that are live, by a request that holds none of   *)
(* them when it is done.                                                     *)
LEMMA SessEnds == ASSUME ShapeInv, SessInv, NEW r \in Requests,
                         req[r].pc \notin {"idle", "mark"},
                         NEW u, NEW gone, gone \subseteq LiveOf(u), EndAll(r, gone),
                         UNCHANGED halfway, NEW q, req' = [req EXCEPT ![r] = q], q.pc # "mark",
                         q.pc = "idle" \/ (q.sid = None /\ q.s = None)
                  PROVE  SessInv'
<1>1. /\ req'[r] = q /\ \A p \in Requests \ {r} : req'[p] = req[p]
      /\ None \notin Sessions
  BY BoundsAssumption DEF ShapeInv, TypeOK, Sessions
<1>2. gone \subseteq Sessions /\ \A s \in gone : sess[s] # None
  BY DEF LiveOf, ShapeInv, TypeOK
<1>3. /\ \A s \in gone : sess'[s] = None /\ rows'[s] = "revoked"
      /\ \A s \in Sessions \ gone : sess'[s] = sess[s] /\ rows'[s] = rows[s]
      /\ tracked' = tracked \ gone /\ raced \subseteq raced'
  BY <1>2 DEF EndAll, RacedBy
<1>4. \A s \in gone \ raced' : \A p \in Requests \ {r} : Busy(p) => req[p].sid # s
  BY DEF EndAll, RacedBy, SessionHolders
<1>5. \A s \in Sessions : Gone(s)' <=> Gone(s) \/ s \in gone
  BY <1>1, <1>2, <1>3 DEF Gone
<1>6. \A s \in Sessions : rows'[s] # "none" <=> rows[s] # "none"
  BY <1>2, <1>3 DEF SessInv, OpenedIsHeld
<1>7. OpenedInOrder'
  BY <1>6 DEF SessInv, OpenedInOrder
<1>8. OpenedIsHeld'
  <2>1. ASSUME NEW p \in Requests, Busy(p)', req'[p].sid # None PROVE rows'[req'[p].sid] # "none"
    <3>1. p # r /\ req'[p] = req[p] /\ Busy(p)
      BY <1>1, <2>1 DEF Busy
    <3>2. req[p].sid \in Sessions
      BY <2>1, <3>1, BusyRecord DEF Busy, ShapeInv, RequestRecord
    <3> QED BY <1>6, <2>1, <3>1, <3>2 DEF SessInv, OpenedIsHeld
  <2>2. \A t \in Sessions : sess'[t] # None => rows'[t] # "none"
    BY <1>3, <1>6 DEF SessInv, OpenedIsHeld
  <2> QED BY <2>1, <2>2 DEF OpenedIsHeld
<1>9. MissingIsGone'
  BY <1>3, <1>5, <1>6 DEF SessInv, MissingIsGone
<1>10. GoneIsMissing'
  <2> SUFFICES ASSUME NEW s \in Sessions \ raced', Gone(s) \/ s \in gone
               PROVE  /\ sess'[s] = None
                      /\ \A p \in Requests : Busy(p)' /\ req'[p].sid = s => req'[p].pc = "mark"
    BY <1>5 DEF GoneIsMissing
  <2>1. CASE s \in gone
    BY <1>1, <1>3, <1>4, <2>1 DEF Busy
  <2>2. CASE s \notin gone
    BY <1>1, <1>3, <2>2 DEF SessInv, GoneIsMissing, Busy
  <2> QED BY <2>1, <2>2
<1>11. CopiesAgree'
  <2> SUFFICES ASSUME NEW p \in Requests, Busy(p)', req'[p].s # None,
                      req'[p].sid \in Sessions \ (raced' \cup halfway'), sess'[req'[p].sid] # None
               PROVE  sess'[req'[p].sid].user = req'[p].s.user
    BY DEF CopiesAgree
  <2>1. p # r /\ req'[p] = req[p] /\ sess'[req[p].sid] = sess[req[p].sid]
    BY <1>1, <1>3 DEF Busy
  <2> QED BY <1>3, <2>1 DEF SessInv, CopiesAgree, Busy
<1>12. LiveIsTracked'
  BY <1>3 DEF SessInv, LiveIsTracked
<1> QED BY <1>7, <1>8, <1>9, <1>10, <1>11, <1>12 DEF SessInv


(* sessions::create for the only sign-in of its user that is under way.      *)
LEMMA CapOpens == ASSUME ShapeInv, CapInv, NEW r \in Requests, req[r].pc = "create",
                         NEW sid \in Sessions, NEW x \in SsoSession, x.user = req[r].u,
                         sess' = [sess EXCEPT ![sid] = x], UNCHANGED <<raced, rushed, halfway>>,
                         NEW n, req' = [req EXCEPT ![r] = n], n.pc = "save"
                  PROVE  CapInv'
<1> SUFFICES ASSUME MaxConcurrent > 0, NEW u \in Users \ rushed
             PROVE  /\ Cardinality(SessionsOf(u)') <= MaxConcurrent
                    /\ \A p, q \in Opening(u)' : p = q
                    /\ Opening(u)' # {} => Cardinality(SessionsOf(u)') < MaxConcurrent
  BY DEF CapInv
<1>1. /\ req'[r].pc = "save" /\ \A p \in Requests \ {r} : req'[p] = req[p]
      /\ sess'[sid] = x /\ \A t \in Sessions \ {sid} : sess'[t] = sess[t]
  BY DEF ShapeInv, TypeOK
<1>2. Opening(u)' \subseteq Opening(u) \ {r}
  BY <1>1 DEF Opening
<1>3. CASE u # req[r].u
  <2>1. SessionsOf(u)' \subseteq SessionsOf(u)
    BY <1>1, <1>3 DEF SessionsOf
  <2> QED BY <1>2, <2>1, CapShrinks
<1>4. CASE u = req[r].u
  <2>1. r \in Opening(u)
    BY <1>4 DEF Opening
  <2>2. Opening(u)' = {}
    BY <1>2, <2>1 DEF CapInv
  <2>3. Cardinality(SessionsOf(u)) < MaxConcurrent
    BY <2>1 DEF CapInv
  <2> DEFINE S == SessionsOf(u) \cup {sid}
             T == SessionsOf(u)'
  <2>4. SessionsOf(u) \subseteq Sessions /\ T \subseteq S
    BY <1>1 DEF SessionsOf
  <2>5. /\ IsFiniteSet(SessionsOf(u)) /\ Cardinality(SessionsOf(u)) \in Nat
    BY <2>4, SessionsCount
  <2>6. Cardinality(S) <= Cardinality(SessionsOf(u)) + 1
    <3>1. Cardinality(S) = IF sid \in SessionsOf(u) THEN Cardinality(SessionsOf(u))
                           ELSE Cardinality(SessionsOf(u)) + 1
      BY <2>5, FS_AddElement
    <3> QED BY <2>5, <3>1
  <2>7. /\ Cardinality(S) \in Nat /\ Cardinality(T) \in Nat /\ Cardinality(T) <= Cardinality(S)
    <3>1. S \subseteq Sessions
      BY <2>4
    <3> HIDE DEF S, T
    <3> QED BY <2>4, <3>1, SessionsCount
  <2>8. MaxConcurrent \in Nat
    BY BoundsAssumption
  <2>9. Cardinality(T) <= MaxConcurrent
    <3> HIDE DEF S, T
    <3> QED BY <2>3, <2>5, <2>6, <2>7, <2>8
  <2> QED BY <2>2, <2>9
<1> QED BY <1>3, <1>4

(* A set of numbers of sessions has a least one.                             *)
LEMMA OldestOf == ASSUME NEW S, S \subseteq Sessions, S # {}
                  PROVE  \E m \in S : \A t \in S : t >= m
<1>1. S \subseteq Nat
  BY BoundsAssumption DEF Sessions
<1> DEFINE R == OpToRel(<, Nat)
<1>2. \A x, y \in Nat : <<y, x>> \in R <=> y < x
  BY DEF OpToRel
<1>3. IsWellFoundedOn(R, Nat)
  BY NatLessThanWellFounded, Zenon
<1> HIDE DEF R
<1>4. PICK m \in S : \A t \in S : ~ (<<t, m>> \in R)
  BY <1>1, <1>3, WFMin
<1>5. \A t \in S : ~ (t < m)
  BY <1>1, <1>2, <1>4
<1> QED BY <1>1, <1>5

(* What is left when the oldest sessions are ended has room for one more:    *)
(* the oldest left was not one too many.                                     *)
LEMMA RestFits == ASSUME ShapeInv, NEW u, MaxConcurrent > 0
                  PROVE  Cardinality(LiveOf(u) \ Excess(u)) < MaxConcurrent
<1> DEFINE S == LiveOf(u) \ Excess(u)
<1>1. LiveOf(u) \subseteq Sessions /\ MaxConcurrent \in Nat
  BY BoundsAssumption DEF LiveOf, ShapeInv, TypeOK
<1>2. CASE S = {}
  BY <1>1, <1>2, FS_EmptySet
<1>3. CASE S # {}
  <2>1. S \subseteq Sessions
    BY <1>1
  <2>2. PICK m \in S : \A t \in S : t >= m
    <3> HIDE DEF S
    <3> QED BY <1>3, <2>1, OldestOf
  <2> DEFINE T == {t \in LiveOf(u) : t >= m}
  <2>3. S \subseteq T /\ T \subseteq Sessions
    BY <1>1, <2>2
  <2>4. m \in LiveOf(u) /\ m \notin Excess(u)
    BY <2>2
  <2>5. ~ (Cardinality(T) + 1 > MaxConcurrent)
    BY <1>1, <2>4 DEF Excess
  <2> HIDE DEF S, T
  <2>6. Cardinality(S) \in Nat /\ Cardinality(T) \in Nat /\ Cardinality(S) <= Cardinality(T)
    BY <2>3, SessionsCount
  <2>7. Cardinality(S) < MaxConcurrent
    BY <1>1, <2>5, <2>6
  <2> QED BY <2>7 DEF S
<1> QED BY <1>2, <1>3

(* Making room: whoever is not alone has rushed.                             *)
LEMMA CapEvicts == ASSUME ShapeInv, SessInv, CapInv, NEW r \in Requests, EvictOldest(r)
                   PROVE  CapInv'
<1> SUFFICES ASSUME MaxConcurrent > 0, NEW u \in Users \ rushed'
             PROVE  /\ Cardinality(SessionsOf(u)') <= MaxConcurrent
                    /\ \A p, q \in Opening(u)' : p = q
                    /\ Opening(u)' # {} => Cardinality(SessionsOf(u)') < MaxConcurrent
  BY DEF CapInv
<1> DEFINE v == req[r].u
           n == [req[r] EXCEPT !.pc = "create", !.sid = None, !.s = None]
<1>1. /\ req[r].pc = "open" /\ EndAll(r, Excess(v)) /\ req' = [req EXCEPT ![r] = n]
      /\ rushed' = IF Opening(v) \ {r} = {} THEN rushed ELSE rushed \cup {v}
  <2>1. Opening(v) \ {r} = {p \in Requests \ {r} : req[p].pc = "create" /\ req[p].u = v}
    BY DEF Opening
  <2> QED BY <2>1 DEF EvictOldest
<1>2. PICK q \in RequestRecord : q = req[r]
  BY <1>1, AtStep
<1>3. n.pc = "create" /\ n.u = v
  BY <1>2 DEF RequestRecord
<1>4. req'[r] = n /\ \A p \in Requests \ {r} : req'[p] = req[p]
  BY <1>1 DEF ShapeInv, TypeOK
<1> HIDE DEF n, v
<1>5. /\ raced \subseteq raced' /\ UNCHANGED halfway
      /\ \A s \in Sessions : sess'[s] # None => s \notin Excess(v) /\ sess'[s] = sess[s]
  BY <1>1 DEF EvictOldest, EndAll, RacedBy
<1>6. u \notin rushed
  BY <1>1
<1>7. SessionsOf(u)' \subseteq SessionsOf(u)
  BY <1>5 DEF SessionsOf
<1>8. CASE u # v
  <2>1. Opening(u)' \subseteq Opening(u)
    BY <1>3, <1>4, <1>8 DEF Opening
  <2> QED BY <1>6, <1>7, <2>1, CapShrinks
<1>9. CASE u = v
  <2>1. Opening(u) \subseteq {r}
    BY <1>1, <1>9
  <2>2. Opening(u)' \subseteq {r}
    BY <1>4, <2>1 DEF Opening
  <2> DEFINE S == LiveOf(u) \ Excess(u)
             T == SessionsOf(u)'
  <2>3. SessionsOf(u) \subseteq LiveOf(u)
    BY DEF SessionsOf, LiveOf, SessInv, LiveIsTracked
  <2>4. T \subseteq S
    BY <1>5, <1>7, <1>9, <2>3 DEF SessionsOf
  <2>5. S \subseteq Sessions
    BY DEF LiveOf, ShapeInv, TypeOK
  <2>6. Cardinality(S) < MaxConcurrent
    BY RestFits
  <2>7. Cardinality(S) \in Nat /\ Cardinality(T) \in Nat /\ Cardinality(T) <= Cardinality(S)
    <3> HIDE DEF S, T
    <3> QED BY <2>4, <2>5, SessionsCount
  <2>8. MaxConcurrent \in Nat
    BY BoundsAssumption
  <2>9. Cardinality(T) < MaxConcurrent /\ Cardinality(T) <= MaxConcurrent
    <3> HIDE DEF S, T
    <3> QED BY <2>6, <2>7, <2>8
  <2> QED BY <2>2, <2>9
<1> QED BY <1>8, <1>9

(* Every step keeps the sessions that ended away, and the limit.            *)
LEMMA NextSess == ShapeInv /\ GrantInv /\ SessInv /\ CapInv /\ [Next]_vars
                     => SessInv' /\ CapInv'
<1> SUFFICES ASSUME ShapeInv, GrantInv, SessInv, CapInv, [Next]_vars PROVE SessInv' /\ CapInv'
  OBVIOUS
<1>1. ASSUME NEW r \in Requests, NEW f \in Flows, StartMfa(r, f)
      PROVE SessInv' /\ CapInv'
  <2> DEFINE n == Request("mfa", "factor", f, flows[f])
  <2>1. req[r].pc = "idle" /\ req' = [req EXCEPT ![r] = n] /\ UNCHANGED <<sess, rows, raced,
  rushed, tracked, halfway>>
    BY <1>1 DEF StartMfa, Load, Begin, Busy
  <2>2. n.pc \notin {"mark", "create"} /\ n.sid = None /\ n.s = None
    BY DEF Request
  <2> HIDE DEF n
  <2> QED BY <2>1, <2>2, SessBegins
<1>2. ASSUME NEW r \in Requests, NEW f \in Flows, StartAnswer(r, f)
      PROVE SessInv' /\ CapInv'
  <2> DEFINE n == Request("answer", "answer", f, flows[f])
  <2>1. req[r].pc = "idle" /\ req' = [req EXCEPT ![r] = n] /\ UNCHANGED <<sess, rows, raced,
  rushed, tracked, halfway>>
    BY <1>2 DEF StartAnswer, Load, Begin, Busy
  <2>2. n.pc \notin {"mark", "create"} /\ n.sid = None /\ n.s = None
    BY DEF Request
  <2> HIDE DEF n
  <2> QED BY <2>1, <2>2, SessBegins
<1>3. ASSUME NEW r \in Requests, NEW f \in Flows, StartOrganization(r, f)
      PROVE SessInv' /\ CapInv'
  <2> DEFINE n == Request("organization", "get", f, flows[f])
  <2>1. req[r].pc = "idle" /\ req' = [req EXCEPT ![r] = n] /\ UNCHANGED <<sess, rows, raced,
  rushed, tracked, halfway>>
    BY <1>3 DEF StartOrganization, Load, Begin, Busy
  <2>2. n.pc \notin {"mark", "create"} /\ n.sid = None /\ n.s = None
    BY DEF Request
  <2> HIDE DEF n
  <2> QED BY <2>1, <2>2, SessBegins
<1>4. ASSUME NEW r \in Requests, NEW f \in Flows, StartCancel(r, f)
      PROVE SessInv' /\ CapInv'
  <2> DEFINE n == Request("cancel", "delete", f, flows[f])
  <2>1. req[r].pc = "idle" /\ req' = [req EXCEPT ![r] = n] /\ UNCHANGED <<sess, rows, raced,
  rushed, tracked, halfway>>
    BY <1>4 DEF StartCancel, Load, Begin, Busy
  <2>2. n.pc \notin {"mark", "create"} /\ n.sid = None /\ n.s = None
    BY DEF Request
  <2> HIDE DEF n
  <2> QED BY <2>1, <2>2, SessBegins
<1>5. ASSUME NEW r \in Requests, NEW f \in Flows, StartConsent(r, f)
      PROVE SessInv' /\ CapInv'
  <2>1. PICK pc \in {"consent", "delete"} : Load(r, f, Request("consent", pc, f, flows[f]))
    BY <1>5 DEF StartConsent
  <2> DEFINE n == Request("consent", pc, f, flows[f])
  <2>2. req[r].pc = "idle" /\ req' = [req EXCEPT ![r] = n] /\ UNCHANGED <<sess, rows, raced,
  rushed, tracked, halfway>>
    BY <2>1 DEF Load, Begin, Busy
  <2>3. n.pc \notin {"mark", "create"} /\ n.sid = None /\ n.s = None
    BY DEF Request
  <2> HIDE DEF n
  <2> QED BY <2>2, <2>3, SessBegins
<1>6. ASSUME NEW r \in Requests, NEW f \in Flows, NEW u \in Users, NEW m \in Methods,
             StartFirstFactor(r, f, u, m)
      PROVE SessInv' /\ CapInv'
  <2> DEFINE n == [Request("first", "check", f, flows[f]) EXCEPT
                     !.u = u, !.method = m, !.sid = Current, !.s = RecordOf(Current)]
  <2>1. req[r].pc = "idle" /\ req' = [req EXCEPT ![r] = n] /\ UNCHANGED <<sess, rows, raced,
  rushed, tracked, halfway>>
    BY <1>6 DEF StartFirstFactor, Load, Begin, Busy
  <2>2. n.pc \notin {"mark", "create"} /\ n.sid = Current /\ n.s = RecordOf(Current)
    BY DEF Request
  <2> HIDE DEF n
  <2> QED BY <2>1, <2>2, SessBegins
<1>7. ASSUME NEW r \in Requests, NEW f \in Flows, NEW u \in Users, StartRegister(r, f, u)
      PROVE SessInv' /\ CapInv'
  <2> DEFINE n == [Request("signup", "register", f, flows[f]) EXCEPT !.u = u, !.method = "pwd"]
  <2>1. req[r].pc = "idle" /\ req' = [req EXCEPT ![r] = n] /\ UNCHANGED <<sess, rows, raced,
  rushed, tracked, halfway>>
    BY <1>7 DEF StartRegister, Load, Begin, Busy
  <2>2. n.pc \notin {"mark", "create"} /\ n.sid = None /\ n.s = None
    BY DEF Request
  <2> HIDE DEF n
  <2> QED BY <2>1, <2>2, SessBegins
<1>8. ASSUME NEW r \in Requests, NEW f \in Flows, StartFinish(r, f)
      PROVE SessInv' /\ CapInv'
  <2> DEFINE pc == IF flows[f].remember /\ ~flows[f].trusted THEN "store" ELSE "finish"
             n == [Request("finish", pc, f, flows[f]) EXCEPT
                     !.sid = Current, !.s = RecordOf(Current)]
  <2>1. req[r].pc = "idle" /\ req' = [req EXCEPT ![r] = n] /\ UNCHANGED <<sess, rows, raced,
  rushed, tracked, halfway>>
    BY <1>8 DEF StartFinish, Load, Begin, Busy
  <2>2. n.pc \notin {"mark", "create"} /\ n.sid = Current /\ n.s = RecordOf(Current)
    BY DEF Request
  <2> HIDE DEF n
  <2> QED BY <2>1, <2>2, SessBegins
<1>9. ASSUME NEW r \in Requests, NEW f \in Flows, Authorize(r, f)
      PROVE SessInv' /\ CapInv'
  <2> DEFINE n == [Request("authorize", "decide", f, NewFlow) EXCEPT
                     !.sid = Current, !.s = RecordOf(Current)]
  <2>1. req[r].pc = "idle" /\ req' = [req EXCEPT ![r] = n] /\ UNCHANGED <<sess, rows, raced,
  rushed, tracked, halfway>>
    BY <1>9 DEF Authorize, Load, Begin, Busy
  <2>2. n.pc \notin {"mark", "create"} /\ n.sid = Current /\ n.s = RecordOf(Current)
    BY DEF Request
  <2> HIDE DEF n
  <2> QED BY <2>1, <2>2, SessBegins
<1>10. ASSUME NEW r \in Requests, Touch(r)
       PROVE SessInv' /\ CapInv'
  <2> DEFINE n == [Request("touch", "store", None, NewFlow) EXCEPT
                     !.sid = Current, !.s = RecordOf(Current)]
  <2>1. req[r].pc = "idle" /\ req' = [req EXCEPT ![r] = n] /\ UNCHANGED <<sess, rows, raced,
  rushed, tracked, halfway>>
    BY <1>10 DEF Touch, Load, Begin, Busy
  <2>2. n.pc \notin {"mark", "create"} /\ n.sid = Current /\ n.s = RecordOf(Current)
    BY DEF Request
  <2> HIDE DEF n
  <2> QED BY <2>1, <2>2, SessBegins
<1>11. ASSUME NEW r \in Requests, NEW u \in Users, Disable(r, u)
       PROVE SessInv' /\ CapInv'
  <2> DEFINE n == [Request("disable", "endAll", None, NewFlow) EXCEPT !.u = u]
  <2>1. req[r].pc = "idle" /\ req' = [req EXCEPT ![r] = n] /\ UNCHANGED <<sess, rows, raced,
  rushed, tracked, halfway>>
    BY <1>11 DEF Disable, Load, Begin, Busy
  <2>2. n.pc \notin {"mark", "create"} /\ n.sid = None /\ n.s = None
    BY DEF Request
  <2> HIDE DEF n
  <2> QED BY <2>1, <2>2, SessBegins
<1>12. ASSUME NEW r \in Requests, NEW f \in Flows, NEW u \in Users, ConfirmEmail(r, f, u)
       PROVE SessInv' /\ CapInv'
  <2> DEFINE n == [Request("signup", "resume", f, NewFlow) EXCEPT !.u = u, !.method = "otp"]
  <2>1. req[r].pc = "idle" /\ req' = [req EXCEPT ![r] = n] /\ UNCHANGED <<sess, rows, raced,
  rushed, tracked, halfway>>
    BY <1>12 DEF ConfirmEmail, Load, Begin, Busy
  <2>2. n.pc \notin {"mark", "create"} /\ n.sid = None /\ n.s = None
    BY DEF Request
  <2> HIDE DEF n
  <2> QED BY <2>1, <2>2, SessBegins
<1>13. ASSUME NEW u \in Users, LockExpires(u)
       PROVE SessInv' /\ CapInv'
  BY <1>13 DEF LockExpires, SessInv, OpenedInOrder, OpenedIsHeld, MissingIsGone, GoneIsMissing,
      CopiesAgree, LiveIsTracked, Gone, Busy, CapInv, SessionsOf, Opening
<1>14. ASSUME NEW r \in Requests, CheckPassword(r)
       PROVE SessInv' /\ CapInv'
  <2>1. PICK q \in RequestRecord : q = req[r] /\ Shape(q)
    BY <1>14, AtStep DEF CheckPassword
  <2>2. q.pc = "check"
    BY <1>14, <2>1 DEF CheckPassword
  <2>3. UNCHANGED <<sess, rows, raced, rushed, tracked, halfway>>
    BY <1>14 DEF CheckPassword
  <2>4. CASE Goto(r, "attempts")
    <3> DEFINE n == MovedTo(q, "attempts")
    <3>1. n.pc = "attempts" /\ n.sid = q.sid /\ n.s = q.s
      BY Moved DEF Pcs
    <3>2. req' = [req EXCEPT ![r] = n]
      BY <2>1, <2>4 DEF Goto, MovedTo
    <3> HIDE DEF n
    <3> QED BY <2>1, <2>2, <2>3, <3>1, <3>2, SessGoes
  <2>5. CASE Goto(r, "reject")
    <3> DEFINE n == MovedTo(q, "reject")
    <3>1. n.pc = "reject" /\ n.sid = q.sid /\ n.s = q.s
      BY Moved DEF Pcs
    <3>2. req' = [req EXCEPT ![r] = n]
      BY <2>1, <2>5 DEF Goto, MovedTo
    <3> HIDE DEF n
    <3> QED BY <2>1, <2>2, <2>3, <3>1, <3>2, SessGoes
  <2>6. CASE Assessed(r, acct[req[r].u].owes \cap {"PasswordChange", "Expired"} # {})
    <3>1. PICK must : must = (acct[req[r].u].owes \cap {"PasswordChange", "Expired"} # {})
      OBVIOUS
    <3>2. PICK risk : req' = [req EXCEPT ![r] = Verdict(q, risk, must)]
      BY <2>1, <2>6, <3>1 DEF Assessed
    <3> DEFINE n == Verdict(q, risk, must)
    <3>3. n.pc \in {"delete", "record"} /\ n.sid = q.sid /\ n.s = q.s
      BY <3>1 DEF Verdict, RequestRecord
    <3>4. req' = [req EXCEPT ![r] = n]
      BY <3>2
    <3> HIDE DEF n
    <3> QED BY <2>1, <2>2, <2>3, <3>3, <3>4, SessGoes
  <2> QED BY <1>14, <2>4, <2>5, <2>6 DEF CheckPassword
<1>15. ASSUME NEW r \in Requests, CheckCode(r)
       PROVE SessInv' /\ CapInv'
  <2>1. PICK q \in RequestRecord : q = req[r] /\ Shape(q)
    BY <1>15, AtStep DEF CheckCode
  <2>2. q.pc = "check"
    BY <1>15, <2>1 DEF CheckCode
  <2>3. UNCHANGED <<sess, rows, raced, rushed, tracked, halfway>>
    BY <1>15 DEF CheckCode
  <2>4. CASE Goto(r, "attempts")
    <3> DEFINE n == MovedTo(q, "attempts")
    <3>1. n.pc = "attempts" /\ n.sid = q.sid /\ n.s = q.s
      BY Moved DEF Pcs
    <3>2. req' = [req EXCEPT ![r] = n]
      BY <2>1, <2>4 DEF Goto, MovedTo
    <3> HIDE DEF n
    <3> QED BY <2>1, <2>2, <2>3, <3>1, <3>2, SessGoes
  <2>5. CASE Finished(r)
    <3>1. req' = [req EXCEPT ![r] = Idle] /\ Idle.pc = "idle"
      BY <2>5 DEF Finished, Idle
    <3> QED BY <2>1, <2>2, <2>3, <3>1, SessGoes
  <2>6. CASE Assessed(r, "PasswordChange" \in acct[req[r].u].owes)
    <3>1. PICK must : must = ("PasswordChange" \in acct[req[r].u].owes)
      OBVIOUS
    <3>2. PICK risk : req' = [req EXCEPT ![r] = Verdict(q, risk, must)]
      BY <2>1, <2>6, <3>1 DEF Assessed
    <3> DEFINE n == Verdict(q, risk, must)
    <3>3. n.pc \in {"delete", "record"} /\ n.sid = q.sid /\ n.s = q.s
      BY <3>1 DEF Verdict, RequestRecord
    <3>4. req' = [req EXCEPT ![r] = n]
      BY <3>2
    <3> HIDE DEF n
    <3> QED BY <2>1, <2>2, <2>3, <3>3, <3>4, SessGoes
  <2> QED BY <1>15, <2>4, <2>5, <2>6 DEF CheckCode
<1>16. ASSUME NEW r \in Requests, RecordFailure(r)
       PROVE SessInv' /\ CapInv'
  <2>1. PICK q \in RequestRecord : q = req[r] /\ Shape(q)
    BY <1>16, AtStep DEF RecordFailure
  <2>2. q.pc = "reject"
    BY <1>16, <2>1 DEF RecordFailure
  <2>3. UNCHANGED <<sess, rows, raced, rushed, tracked, halfway>>
    BY <1>16 DEF RecordFailure
  <2>4. CASE Goto(r, "attempts")
    <3> DEFINE n == MovedTo(q, "attempts")
    <3>1. n.pc = "attempts" /\ n.sid = q.sid /\ n.s = q.s
      BY Moved DEF Pcs
    <3>2. req' = [req EXCEPT ![r] = n]
      BY <2>1, <2>4 DEF Goto, MovedTo
    <3> HIDE DEF n
    <3> QED BY <2>1, <2>2, <2>3, <3>1, <3>2, SessGoes
  <2> QED BY <1>16, <2>4 DEF RecordFailure
<1>17. ASSUME NEW r \in Requests, RecordSuccess(r)
       PROVE SessInv' /\ CapInv'
  <2>1. PICK q \in RequestRecord : q = req[r] /\ Shape(q)
    BY <1>17, AtStep DEF RecordSuccess
  <2>2. q.pc = "record"
    BY <1>17, <2>1 DEF RecordSuccess
  <2>3. UNCHANGED <<sess, rows, raced, rushed, tracked, halfway>>
    BY <1>17 DEF RecordSuccess
  <2>4. CASE Goto(r, "open")
    <3> DEFINE n == MovedTo(q, "open")
    <3>1. n.pc = "open" /\ n.sid = q.sid /\ n.s = q.s
      BY Moved DEF Pcs
    <3>2. req' = [req EXCEPT ![r] = n]
      BY <2>1, <2>4 DEF Goto, MovedTo
    <3> HIDE DEF n
    <3> QED BY <2>1, <2>2, <2>3, <3>1, <3>2, SessGoes
  <2> QED BY <1>17, <2>4 DEF RecordSuccess
<1>18. ASSUME NEW r \in Requests, WriteAnswer(r)
       PROVE SessInv' /\ CapInv'
  <2>1. PICK q \in RequestRecord : q = req[r] /\ Shape(q)
    BY <1>18, AtStep DEF WriteAnswer
  <2>2. q.pc = "answer"
    BY <1>18, <2>1 DEF WriteAnswer
  <2>3. UNCHANGED <<sess, rows, raced, rushed, tracked, halfway>>
    BY <1>18 DEF WriteAnswer
  <2>4. CASE Goto(r, "save")
    <3> DEFINE n == MovedTo(q, "save")
    <3>1. n.pc = "save" /\ n.sid = q.sid /\ n.s = q.s
      BY Moved DEF Pcs
    <3>2. req' = [req EXCEPT ![r] = n]
      BY <2>1, <2>4 DEF Goto, MovedTo
    <3> HIDE DEF n
    <3> QED BY <2>1, <2>2, <2>3, <3>1, <3>2, SessGoes
  <2> QED BY <1>18, <2>4 DEF WriteAnswer
<1>19. ASSUME NEW r \in Requests, RegisterUser(r)
       PROVE SessInv' /\ CapInv'
  <2>1. PICK q \in RequestRecord : q = req[r] /\ Shape(q)
    BY <1>19, AtStep DEF RegisterUser
  <2>2. q.pc = "register"
    BY <1>19, <2>1 DEF RegisterUser
  <2>3. UNCHANGED <<sess, rows, raced, rushed, tracked, halfway>>
    BY <1>19 DEF RegisterUser
  <2>4. CASE Goto(r, "pending")
    <3> DEFINE n == MovedTo(q, "pending")
    <3>1. n.pc = "pending" /\ n.sid = q.sid /\ n.s = q.s
      BY Moved DEF Pcs
    <3>2. req' = [req EXCEPT ![r] = n]
      BY <2>1, <2>4 DEF Goto, MovedTo
    <3> HIDE DEF n
    <3> QED BY <2>1, <2>2, <2>3, <3>1, <3>2, SessGoes
  <2>5. CASE Finished(r)
    <3>1. req' = [req EXCEPT ![r] = Idle] /\ Idle.pc = "idle"
      BY <2>5 DEF Finished, Idle
    <3> QED BY <2>1, <2>2, <2>3, <3>1, SessGoes
  <2>6. CASE Assessed(r, FALSE)
    <3>1. PICK must : must = (FALSE)
      OBVIOUS
    <3>2. PICK risk : req' = [req EXCEPT ![r] = Verdict(q, risk, must)]
      BY <2>1, <2>6, <3>1 DEF Assessed
    <3> DEFINE n == Verdict(q, risk, must)
    <3>3. n.pc \in {"delete", "record"} /\ n.sid = q.sid /\ n.s = q.s
      BY <3>1 DEF Verdict, RequestRecord
    <3>4. req' = [req EXCEPT ![r] = n]
      BY <3>2
    <3> HIDE DEF n
    <3> QED BY <2>1, <2>2, <2>3, <3>3, <3>4, SessGoes
  <2> QED BY <1>19, <2>4, <2>5, <2>6 DEF RegisterUser
<1>20. ASSUME NEW r \in Requests, CheckFactor(r)
       PROVE SessInv' /\ CapInv'
  <2>1. PICK q \in RequestRecord : q = req[r] /\ Shape(q)
    BY <1>20, AtStep DEF CheckFactor
  <2>2. q.pc = "factor"
    BY <1>20, <2>1 DEF CheckFactor
  <2>3. UNCHANGED <<sess, rows, raced, rushed, tracked, halfway>>
    BY <1>20 DEF CheckFactor
  <2>4. CASE Goto(r, "get")
    <3> DEFINE n == MovedTo(q, "get")
    <3>1. n.pc = "get" /\ n.sid = q.sid /\ n.s = q.s
      BY Moved DEF Pcs
    <3>2. req' = [req EXCEPT ![r] = n]
      BY <2>1, <2>4 DEF Goto, MovedTo
    <3> HIDE DEF n
    <3> QED BY <2>1, <2>2, <2>3, <3>1, <3>2, SessGoes
  <2>5. CASE Goto(r, "mfaReject")
    <3> DEFINE n == MovedTo(q, "mfaReject")
    <3>1. n.pc = "mfaReject" /\ n.sid = q.sid /\ n.s = q.s
      BY Moved DEF Pcs
    <3>2. req' = [req EXCEPT ![r] = n]
      BY <2>1, <2>5 DEF Goto, MovedTo
    <3> HIDE DEF n
    <3> QED BY <2>1, <2>2, <2>3, <3>1, <3>2, SessGoes
  <2>6. CASE Finished(r)
    <3>1. req' = [req EXCEPT ![r] = Idle] /\ Idle.pc = "idle"
      BY <2>6 DEF Finished, Idle
    <3> QED BY <2>1, <2>2, <2>3, <3>1, SessGoes
  <2> QED BY <1>20, <2>4, <2>5, <2>6 DEF CheckFactor
<1>21. ASSUME NEW r \in Requests, SaveAttempts(r)
       PROVE SessInv' /\ CapInv'
  <2>1. PICK q \in RequestRecord : q = req[r] /\ Shape(q)
    BY <1>21, AtStep DEF SaveAttempts
  <2>2. q.pc = "attempts"
    BY <1>21, <2>1 DEF SaveAttempts
  <2>3. UNCHANGED <<sess, rows, raced, rushed, tracked, halfway>>
    BY <1>21 DEF SaveAttempts
  <2>4. CASE Finished(r)
    <3>1. req' = [req EXCEPT ![r] = Idle] /\ Idle.pc = "idle"
      BY <2>4 DEF Finished, Idle
    <3> QED BY <2>1, <2>2, <2>3, <3>1, SessGoes
  <2> QED BY <1>21, <2>4 DEF SaveAttempts
<1>22. ASSUME NEW r \in Requests, SavePending(r)
       PROVE SessInv' /\ CapInv'
  <2>1. PICK q \in RequestRecord : q = req[r] /\ Shape(q)
    BY <1>22, AtStep DEF SavePending
  <2>2. q.pc = "pending"
    BY <1>22, <2>1 DEF SavePending
  <2>3. UNCHANGED <<sess, rows, raced, rushed, tracked, halfway>>
    BY <1>22 DEF SavePending
  <2>4. CASE Finished(r)
    <3>1. req' = [req EXCEPT ![r] = Idle] /\ Idle.pc = "idle"
      BY <2>4 DEF Finished, Idle
    <3> QED BY <2>1, <2>2, <2>3, <3>1, SessGoes
  <2> QED BY <1>22, <2>4 DEF SavePending
<1>23. ASSUME NEW r \in Requests, DeleteFlow(r)
       PROVE SessInv' /\ CapInv'
  <2>1. PICK q \in RequestRecord : q = req[r] /\ Shape(q)
    BY <1>23, AtStep DEF DeleteFlow
  <2>2. q.pc = "delete"
    BY <1>23, <2>1 DEF DeleteFlow
  <2>3. UNCHANGED <<sess, rows, raced, rushed, tracked, halfway>>
    BY <1>23 DEF DeleteFlow
  <2>4. CASE Finished(r)
    <3>1. req' = [req EXCEPT ![r] = Idle] /\ Idle.pc = "idle"
      BY <2>4 DEF Finished, Idle
    <3> QED BY <2>1, <2>2, <2>3, <3>1, SessGoes
  <2> QED BY <1>23, <2>4 DEF DeleteFlow
<1>24. ASSUME NEW r \in Requests, FinishFlow(r)
       PROVE SessInv' /\ CapInv'
  <2>1. PICK q \in RequestRecord : q = req[r] /\ Shape(q)
    BY <1>24, AtStep DEF FinishFlow
  <2>2. q.pc = "finish"
    BY <1>24, <2>1 DEF FinishFlow
  <2>3. UNCHANGED <<sess, rows, raced, rushed, tracked, halfway>>
    BY <1>24 DEF FinishFlow
  <2>4. CASE Finished(r)
    <3>1. req' = [req EXCEPT ![r] = Idle] /\ Idle.pc = "idle"
      BY <2>4 DEF Finished, Idle
    <3> QED BY <2>1, <2>2, <2>3, <3>1, SessGoes
  <2> QED BY <1>24, <2>4 DEF FinishFlow
<1>25. ASSUME NEW r \in Requests, MfaReject(r)
       PROVE SessInv' /\ CapInv'
  <2>1. PICK q \in RequestRecord : q = req[r] /\ Shape(q)
    BY <1>25, AtStep DEF MfaReject
  <2>2. q.pc = "mfaReject"
    BY <1>25, <2>1 DEF MfaReject
  <2>3. UNCHANGED <<sess, rows, raced, rushed, tracked, halfway>>
    BY <1>25 DEF MfaReject
  <2>4. CASE Finished(r)
    <3>1. req' = [req EXCEPT ![r] = Idle] /\ Idle.pc = "idle"
      BY <2>4 DEF Finished, Idle
    <3> QED BY <2>1, <2>2, <2>3, <3>1, SessGoes
  <2> QED BY <1>25, <2>4 DEF MfaReject
<1>26. ASSUME NEW r \in Requests, Decide(r)
       PROVE SessInv' /\ CapInv'
  <2>1. PICK q \in RequestRecord : q = req[r] /\ Shape(q)
    BY <1>26, AtStep DEF Decide
  <2>2. q.pc = "decide"
    BY <1>26, <2>1 DEF Decide
  <2>3. UNCHANGED <<sess, rows, raced, rushed, tracked, halfway>>
    BY <1>26 DEF Decide
  <2>4. CASE Finished(r)
    <3>1. req' = [req EXCEPT ![r] = Idle] /\ Idle.pc = "idle"
      BY <2>4 DEF Finished, Idle
    <3> QED BY <2>1, <2>2, <2>3, <3>1, SessGoes
  <2> QED BY <1>26, <2>4 DEF Decide
<1>27. ASSUME NEW r \in Requests, ResumeAfterVerification(r)
       PROVE SessInv' /\ CapInv'
  <2>1. PICK q \in RequestRecord : q = req[r] /\ Shape(q)
    BY <1>27, AtStep DEF ResumeAfterVerification
  <2>2. q.pc = "resume"
    BY <1>27, <2>1 DEF ResumeAfterVerification
  <2>3. UNCHANGED <<sess, rows, raced, rushed, tracked, halfway>>
    BY <1>27 DEF ResumeAfterVerification
  <2>4. CASE Finished(r)
    <3>1. req' = [req EXCEPT ![r] = Idle] /\ Idle.pc = "idle"
      BY <2>4 DEF Finished, Idle
    <3> QED BY <2>1, <2>2, <2>3, <3>1, SessGoes
  <2>5. CASE \E risk : req' = [req EXCEPT ![r] = Resumed(q, risk, flows[q.f])]
    <3>1. PICK risk : req' = [req EXCEPT ![r] = Resumed(q, risk, flows[q.f])]
      BY <2>5
    <3> DEFINE n == Resumed(q, risk, flows[q.f])
    <3>2. n.pc \in {"delete", "record"} /\ n.sid = q.sid /\ n.s = q.s
      BY DEF Resumed, Verdict, RequestRecord
    <3>3. req' = [req EXCEPT ![r] = n]
      BY <3>1
    <3> HIDE DEF n
    <3> QED BY <2>1, <2>2, <2>3, <3>2, <3>3, SessGoes
  <2> QED BY <1>27, <2>1, <2>4, <2>5 DEF ResumeAfterVerification, Resumed
<1>28. ASSUME NEW r \in Requests, GrantConsent(r)
       PROVE SessInv' /\ CapInv'
  <2>1. PICK q \in RequestRecord : q = req[r] /\ Shape(q)
    BY <1>28, AtStep DEF GrantConsent
  <2>2. q.pc = "consent"
    BY <1>28, <2>1 DEF GrantConsent
  <2>3. UNCHANGED <<sess, rows, raced, rushed, tracked, halfway>>
    BY <1>28 DEF GrantConsent
  <2> DEFINE n == Consented(q)
  <2>4. n.pc = "save" /\ n.sid = q.sid /\ n.s = q.s
    BY <2>1, <2>2 DEF Consented, RequestRecord
  <2>5. req' = [req EXCEPT ![r] = n]
    BY <1>28, <2>1 DEF GrantConsent, Consented
  <2> HIDE DEF n
  <2> QED BY <2>1, <2>2, <2>3, <2>4, <2>5, SessGoes
<1>29. ASSUME NEW r \in Requests, GetSession(r)
       PROVE SessInv' /\ CapInv'
  <2>1. PICK q \in RequestRecord : q = req[r] /\ Shape(q)
    BY <1>29, AtStep DEF GetSession
  <2>2. q.pc = "get"
    BY <1>29, <2>1 DEF GetSession
  <2>3. UNCHANGED <<sess, rows, raced, rushed, tracked, halfway>>
    BY <1>29 DEF GetSession
  <2> DEFINE s == sess[q.c.sid]
  <2>4. \/ /\ s # None /\ (q.op = "mfa" => s.user = q.u)
           /\ req' = [req EXCEPT ![r] = Fetched(q, s)]
        \/ Finished(r)
        \/ q.op = "organization" /\ req' = [req EXCEPT ![r] = Bound(q)]
    BY <1>29, <2>1 DEF GetSession, Fetched, Bound
  <2>5. q.c.sid \in Sessions /\ s \in SsoSession \cup {None}
    BY <2>1, <2>2, OpOf DEF Shape, Last, ShapeInv, TypeOK
  <2>6. CASE /\ s # None /\ (q.op = "mfa" => s.user = q.u)
             /\ req' = [req EXCEPT ![r] = Fetched(q, s)]
    <3> DEFINE n == Fetched(q, s)
    <3>1. n.pc = "store" /\ n.sid = q.c.sid /\ n.s = s /\ req' = [req EXCEPT ![r] = n]
      <4> HIDE DEF s
      <4> QED BY <2>1, <2>2, <2>5, <2>6, FetchedShape
    <3> HIDE DEF n
    <3>2. req'[r] = n /\ \A p \in Requests \ {r} : req'[p] = req[p]
      BY <3>1 DEF ShapeInv, TypeOK
    <3>3. /\ req'[r].sid \in Sessions /\ sess[req'[r].sid] # None
          /\ req'[r].s.user = sess[req'[r].sid].user
      BY <2>5, <2>6, <3>1, <3>2
    <3>4. req[r].pc # "mark" /\ req'[r].pc \notin {"mark", "create"}
      BY <2>1, <2>2, <3>1, <3>2
    <3> QED BY <2>3, <3>2, <3>3, <3>4, SessKeeps
  <2>7. CASE q.op = "organization" /\ req' = [req EXCEPT ![r] = Bound(q)]
    <3> DEFINE n == Bound(q)
    <3>1. n.pc = "save" /\ n.sid = q.sid /\ n.s = q.s
      BY <2>1 DEF Bound, RequestRecord
    <3>2. req' = [req EXCEPT ![r] = n]
      BY <2>7
    <3> HIDE DEF n
    <3> QED BY <2>1, <2>2, <2>3, <3>1, <3>2, SessGoes
  <2>8. CASE Finished(r)
    <3>1. req' = [req EXCEPT ![r] = Idle] /\ Idle.pc = "idle"
      BY <2>8 DEF Finished, Idle
    <3> QED BY <2>1, <2>2, <2>3, <3>1, SessGoes
  <2> QED BY <2>4, <2>6, <2>7, <2>8
<1>30. ASSUME NEW r \in Requests, SaveFlow(r)
       PROVE SessInv' /\ CapInv'
  <2>1. PICK q \in RequestRecord : q = req[r] /\ Shape(q)
    BY <1>30, AtStep DEF SaveFlow
  <2>2. q.pc = "save"
    BY <1>30, <2>1 DEF SaveFlow
  <2>3. Finished(r) /\ UNCHANGED <<sess, rows, raced, rushed, tracked, halfway>>
    BY <1>30 DEF SaveFlow
  <2>4. req' = [req EXCEPT ![r] = Idle] /\ Idle.pc = "idle"
    BY <2>3 DEF Finished, Idle
  <2> QED BY <2>1, <2>2, <2>3, <2>4, SessGoes
<1>31. ASSUME NEW r \in Requests, ReauthSession(r)
       PROVE SessInv' /\ CapInv'
  <2>1. PICK q \in RequestRecord : q = req[r] /\ Shape(q)
    BY <1>31, AtStep DEF ReauthSession
  <2>2. q.pc = "open"
    BY <1>31, <2>1 DEF ReauthSession
  <2> DEFINE n == SignedIn(q, q.sid)
             x == [q.s EXCEPT !.mfa = (q.method = "passkey")]
  <2>3. /\ sess' = [sess EXCEPT ![q.sid] = x] /\ req' = [req EXCEPT ![r] = n]
        /\ UNCHANGED <<rows, raced, rushed, tracked, halfway>> /\ q.s # None
    BY <1>31, <2>1 DEF ReauthSession, ReusesSession
  <2>4. q.sid \in Sessions /\ q.op \in {"first", "signup"}
    BY <2>1, <2>2, <2>3, OpOf DEF Shape, Last
  <2>5. n.pc = "save" /\ n.sid = q.sid /\ n.s = q.s
    BY <2>1, <2>2, <2>4, SignedInShape
  <2>6. x \in SsoSession /\ x.user = q.s.user
    BY <2>1, <2>3 DEF RequestRecord, SsoSession
  <2> HIDE DEF n, x
  <2>7. x # None
    BY <2>6, RecordsAssumption
  <2> QED BY <2>1, <2>2, <2>3, <2>4, <2>5, <2>6, <2>7, SessWrites
<1>32. ASSUME NEW r \in Requests, StoreSession(r)
       PROVE SessInv' /\ CapInv'
  <2>1. PICK q \in RequestRecord : q = req[r] /\ Shape(q)
    BY <1>32, AtStep DEF StoreSession
  <2>2. q.pc = "store"
    BY <1>32, <2>1 DEF StoreSession
  <2>3. q.s \in SsoSession /\ q.s # None /\ q.sid \in Sessions
    BY <2>1, <2>2, RecordsAssumption DEF Shape, Last
  <2>4. UNCHANGED <<rows, raced, rushed, tracked, halfway>>
    BY <1>32 DEF StoreSession
  <2>5. ASSUME NEW x \in SsoSession, x.user = q.s.user, sess' = [sess EXCEPT ![q.sid] = x],
               NEW n, req' = [req EXCEPT ![r] = n], n.pc \notin {"mark", "create"},
               n.pc = "idle" \/ (n.sid = q.sid /\ n.s = q.s)
        PROVE  SessInv' /\ CapInv'
    <3>1. x # None
      BY RecordsAssumption
    <3> QED BY <2>1, <2>2, <2>3, <2>4, <2>5, <3>1, SessWrites
  <2>6. CASE q.op = "mfa"
    <3> DEFINE x == [q.s EXCEPT !.mfa = TRUE]
               n == Passed(q)
    <3>1. sess' = [sess EXCEPT ![q.sid] = x] /\ req' = [req EXCEPT ![r] = n]
      BY <1>32, <2>1, <2>6 DEF StoreSession, Passed
    <3>2. x \in SsoSession /\ x.user = q.s.user
      BY <2>3 DEF SsoSession
    <3>3. n.pc = "save" /\ n.sid = q.sid /\ n.s = q.s
      BY <2>1 DEF Passed, RequestRecord
    <3> HIDE DEF x, n
    <3> QED BY <2>5, <3>1, <3>2, <3>3
  <2>7. CASE q.op = "organization"
    <3> DEFINE x == [q.s EXCEPT !.org = TRUE]
               n == Bound(q)
    <3>1. sess' = [sess EXCEPT ![q.sid] = x] /\ req' = [req EXCEPT ![r] = n]
      BY <1>32, <2>1, <2>7 DEF StoreSession, Bound
    <3>2. x \in SsoSession /\ x.user = q.s.user
      BY <2>3 DEF SsoSession
    <3>3. n.pc = "save" /\ n.sid = q.sid /\ n.s = q.s
      BY <2>1 DEF Bound, RequestRecord
    <3> HIDE DEF x, n
    <3> QED BY <2>5, <3>1, <3>2, <3>3
  <2>8. CASE q.op = "finish"
    <3> DEFINE n == MovedTo(q, "finish")
    <3>1. sess' = [sess EXCEPT ![q.sid] = q.s] /\ req' = [req EXCEPT ![r] = n]
      BY <1>32, <2>1, <2>8 DEF StoreSession, Goto, MovedTo
    <3>2. n.pc = "finish" /\ n.sid = q.sid /\ n.s = q.s
      BY Moved DEF Pcs
    <3> HIDE DEF n
    <3> QED BY <2>3, <2>5, <3>1, <3>2
  <2>9. CASE q.op = "touch"
    <3>1. sess' = [sess EXCEPT ![q.sid] = q.s] /\ req' = [req EXCEPT ![r] = Idle]
      BY <1>32, <2>1, <2>9 DEF StoreSession, Finished
    <3>2. Idle.pc = "idle"
      BY DEF Idle
    <3> QED BY <2>3, <2>5, <3>1, <3>2
  <2> QED BY <1>32, <2>1, <2>6, <2>7, <2>8, <2>9 DEF StoreSession
<1>33. ASSUME NEW r \in Requests, CreateSession(r)
       PROVE SessInv' /\ CapInv'
  <2>1. PICK q \in RequestRecord : q = req[r] /\ Shape(q)
    BY <1>33, AtStep DEF CreateSession
  <2>2. q.pc = "create"
    BY <1>33, <2>1 DEF CreateSession
  <2>3. q.op \in {"first", "signup"} /\ q.u \in Users
    BY <2>1, <2>2, OpOf DEF Shape, Last
  <2> DEFINE sid == Cardinality({s \in Sessions : rows[s] # "none"}) + 1
             x == [user |-> q.u, mfa |-> q.method = "passkey", org |-> FALSE]
             n == SignedIn(q, sid)
             opened == [sess EXCEPT ![sid] = x]
  <2>4. /\ sid \in Sessions /\ rows' = [rows EXCEPT ![sid] = "live"]
        /\ UNCHANGED <<raced, rushed>>
        /\ \/ /\ sess' = opened /\ tracked' = tracked \cup {sid}
              /\ req' = [req EXCEPT ![r] = n] /\ UNCHANGED halfway
           \/ /\ sess' \in {sess, opened} /\ halfway' = halfway \cup {sid}
              /\ req' = [req EXCEPT ![r] = Idle] /\ UNCHANGED tracked
    BY <1>33, <2>1 DEF CreateSession, Finished
  <2>5. PICK k \in 0..MaxSessions : \A s \in Sessions : rows[s] # "none" <=> s <= k
    BY DEF SessInv, OpenedInOrder
  <2>6. sid = k + 1
    BY <2>5, OpenedCount
  <2>7. x \in SsoSession /\ x # None
    <3>1. x \in SsoSession
      BY <2>3 DEF SsoSession
    <3> QED BY <3>1, RecordsAssumption
  <2>8. n.pc = "save" /\ n.sid = sid /\ n.s = q.s
    BY <2>1, <2>2, <2>3, <2>4, SignedInShape
  <2>9. q.s = None
    BY <2>1, <2>2 DEF GrantInv, RequestsVouched, Vouches, Busy
  <2>10. x.user = q.u
    OBVIOUS
  <2> HIDE DEF sid, x, n
  <2>11. CASE /\ sess' = opened /\ tracked' = tracked \cup {sid}
              /\ req' = [req EXCEPT ![r] = n] /\ UNCHANGED halfway
    <3>1. sess'[sid] = x
      BY <2>4, <2>11 DEF ShapeInv, TypeOK
    <3>2. SessInv'
      BY <2>1, <2>2, <2>4, <2>5, <2>6, <2>7, <2>8, <2>9, <2>11, <3>1, SessOpens
    <3>3. CapInv'
      BY <2>1, <2>2, <2>4, <2>7, <2>8, <2>10, <2>11, CapOpens
    <3> QED BY <3>2, <3>3
  <2>12. CASE /\ sess' \in {sess, opened} /\ halfway' = halfway \cup {sid}
              /\ req' = [req EXCEPT ![r] = Idle] /\ UNCHANGED tracked
    <3>1. Idle.pc = "idle" /\ halfway \subseteq halfway' /\ sid \in halfway'
      BY <2>12 DEF Idle
    <3>2. SessInv'
      BY <2>1, <2>2, <2>4, <2>5, <2>6, <2>7, <2>12, <3>1, SessOpens
    <3>3. \A s \in Sessions \ {sid} : sess'[s] = sess[s]
      BY <2>12 DEF ShapeInv, TypeOK
    <3>4. \A p \in Requests : req'[p].pc = "create" => req'[p] = req[p]
      BY <2>12, <3>1 DEF ShapeInv, TypeOK
    <3>5. CapInv'
      BY <2>4, <3>1, <3>3, <3>4, CapKeeps
    <3> QED BY <3>2, <3>5
  <2> QED BY <2>4, <2>11, <2>12
<1>34. ASSUME NEW r \in Requests, EvictOldest(r)
       PROVE SessInv' /\ CapInv'
  <2>1. PICK q \in RequestRecord : q = req[r] /\ Shape(q)
    BY <1>34, AtStep DEF EvictOldest
  <2>2. q.pc = "open"
    BY <1>34, <2>1 DEF EvictOldest
  <2> DEFINE n == Cleared(q)
  <2>3. req' = [req EXCEPT ![r] = n] /\ EndAll(r, Excess(q.u)) /\ UNCHANGED halfway
    BY <1>34, <2>1 DEF EvictOldest, Cleared
  <2>4. n.pc = "create" /\ n.sid = None /\ n.s = None
    BY <2>1, <2>2, ClearedShape
  <2> HIDE DEF n
  <2>5. Excess(q.u) \subseteq LiveOf(q.u)
    BY DEF Excess
  <2>6. SessInv'
    BY <2>1, <2>2, <2>3, <2>4, <2>5, SessEnds
  <2> QED BY <1>34, <2>6, CapEvicts
<1>35. ASSUME NEW r \in Requests, EndSessionsForUser(r)
       PROVE SessInv' /\ CapInv'
  <2>1. PICK q \in RequestRecord : q = req[r] /\ Shape(q)
    BY <1>35, AtStep DEF EndSessionsForUser
  <2>2. q.pc = "endAll"
    BY <1>35, <2>1 DEF EndSessionsForUser
  <2>3. /\ req' = [req EXCEPT ![r] = Idle] /\ EndAll(r, LiveOf(q.u)) /\ Idle.pc = "idle"
        /\ UNCHANGED <<rushed, halfway>>
    BY <1>35, <2>1 DEF EndSessionsForUser, Finished, Idle
  <2>4. SessInv'
    BY <2>1, <2>2, <2>3, SessEnds
  <2>5. CapInv'
    <3>1. raced \subseteq raced' /\ \A s \in Sessions : sess'[s] # None => sess'[s] = sess[s]
      BY <2>3 DEF EndAll, RacedBy
    <3>2. \A p \in Requests : req'[p].pc = "create" => req'[p] = req[p]
      BY <2>3 DEF ShapeInv, TypeOK
    <3> QED BY <2>3, <3>1, <3>2, CapKeeps
  <2> QED BY <2>4, <2>5
<1>36. ASSUME NEW r \in Requests, NEW s \in Sessions, Revoke(r, s)
       PROVE SessInv' /\ CapInv'
  <2> DEFINE n == [Request("revoke", "mark", None, NewFlow) EXCEPT !.sid = s, !.s = sess[s]]
  <2>1. /\ req[r].pc = "idle" /\ req' = [req EXCEPT ![r] = n] /\ rows[s] = "live"
        /\ sess' = [sess EXCEPT ![s] = None] /\ raced' = RacedBy(r, {s})
        /\ UNCHANGED <<rows, tracked, rushed, halfway>>
    BY <1>36 DEF Revoke, Begin, Busy
  <2>2. n.pc = "mark" /\ n.sid = s /\ n.s = sess[s]
    BY DEF Request
  <2> HIDE DEF n
  <2>3. /\ req'[r] = n /\ \A p \in Requests \ {r} : req'[p] = req[p]
        /\ sess'[s] = None /\ \A t \in Sessions \ {s} : sess'[t] = sess[t]
    BY <2>1 DEF ShapeInv, TypeOK
  <2>4. /\ raced \subseteq raced'
        /\ s \notin raced' => \A p \in Requests \ {r} : Busy(p) => req[p].sid # s
    BY <2>1 DEF RacedBy, SessionHolders
  <2>5. \A t : Gone(t)' <=> Gone(t) \/ t = s
    BY <2>1, <2>2, <2>3 DEF Gone
  <2>6. OpenedInOrder'
    BY <2>1 DEF SessInv, OpenedInOrder
  <2>7. OpenedIsHeld'
    BY <2>1, <2>2, <2>3 DEF SessInv, OpenedIsHeld, Busy
  <2>8. MissingIsGone'
    BY <2>1, <2>3, <2>5 DEF SessInv, MissingIsGone
  <2>9. GoneIsMissing'
    <3> SUFFICES ASSUME NEW t \in Sessions \ raced', Gone(t) \/ t = s
                 PROVE  /\ sess'[t] = None
                        /\ \A p \in Requests : Busy(p)' /\ req'[p].sid = t => req'[p].pc = "mark"
      BY <2>5 DEF GoneIsMissing
    <3>1. CASE t = s
      BY <2>2, <2>3, <2>4, <3>1 DEF Busy
    <3>2. CASE t # s
      BY <2>2, <2>3, <2>4, <3>2 DEF SessInv, GoneIsMissing, Busy
    <3> QED BY <3>1, <3>2
  <2>10. CopiesAgree'
    <3> SUFFICES ASSUME NEW p \in Requests, Busy(p)', req'[p].s # None,
                        req'[p].sid \in Sessions \ (raced' \cup halfway'),
                        sess'[req'[p].sid] # None
                 PROVE  sess'[req'[p].sid].user = req'[p].s.user
      BY DEF CopiesAgree
    <3>1. p # r /\ req'[p] = req[p] /\ Busy(p) /\ sess'[req[p].sid] = sess[req[p].sid]
      BY <2>2, <2>3 DEF Busy
    <3>2. req[p].sid \in Sessions \ (raced \cup halfway)
      BY <2>1, <2>4, <3>1
    <3>3. req[p].s # None /\ sess[req[p].sid] # None
      BY <3>1
    <3>4. sess[req[p].sid].user = req[p].s.user
      BY <3>1, <3>2, <3>3 DEF SessInv, CopiesAgree
    <3> QED BY <3>1, <3>4
  <2>11. LiveIsTracked'
    BY <2>1, <2>3, <2>4 DEF SessInv, LiveIsTracked
  <2>12. CapInv'
    <3>1. \A p \in Requests : req'[p].pc = "create" => req'[p] = req[p]
      BY <2>2, <2>3
    <3>2. \A t \in Sessions : sess'[t] # None => sess'[t] = sess[t]
      BY <2>3
    <3> QED BY <2>1, <2>4, <3>1, <3>2, CapKeeps
  <2> QED BY <2>6, <2>7, <2>8, <2>9, <2>10, <2>11, <2>12 DEF SessInv
<1>37. ASSUME NEW r \in Requests, MarkRevoked(r)
       PROVE SessInv' /\ CapInv'
  <2>1. PICK q \in RequestRecord : q = req[r] /\ Shape(q)
    BY <1>37, AtStep DEF MarkRevoked
  <2>2. q.pc = "mark"
    BY <1>37, <2>1 DEF MarkRevoked
  <2>3. /\ rows' = [rows EXCEPT ![q.sid] = "revoked"] /\ UNCHANGED <<sess, raced, rushed, halfway>>
        /\ tracked \ {q.sid} \subseteq tracked' /\ req' = [req EXCEPT ![r] = Idle]
    BY <1>37, <2>1 DEF MarkRevoked, Finished
  <2>4. q.sid \in Sessions
    BY <2>1, <2>2, OpOf DEF Shape, Last
  <2>5. rows[q.sid] # "none"
    BY <2>1, <2>2, <2>4, BoundsAssumption DEF SessInv, OpenedIsHeld, Busy, Sessions
  <2>6. /\ req'[r].pc = "idle" /\ \A p \in Requests \ {r} : req'[p] = req[p]
        /\ rows'[q.sid] = "revoked" /\ \A t \in Sessions \ {q.sid} : rows'[t] = rows[t]
    BY <2>3, <2>4 DEF ShapeInv, TypeOK, Idle
  <2>7. Gone(q.sid) /\ \A t \in Sessions : Gone(t)' <=> Gone(t)
    BY <2>1, <2>2, <2>6 DEF Gone
  <2>8. \A t \in Sessions : rows'[t] # "none" <=> rows[t] # "none"
    BY <2>5, <2>6
  <2>9. OpenedInOrder'
    BY <2>8 DEF SessInv, OpenedInOrder
  <2>10. OpenedIsHeld'
    <3>1. ASSUME NEW p \in Requests, Busy(p)', req'[p].sid # None PROVE rows'[req'[p].sid] # "none"
      <4>1. p # r /\ req'[p] = req[p] /\ Busy(p)
        BY <2>6, <3>1 DEF Busy
      <4>2. req[p].sid \in Sessions
        BY <3>1, <4>1, BusyRecord DEF Busy, ShapeInv, RequestRecord
      <4> QED BY <2>8, <3>1, <4>1, <4>2 DEF SessInv, OpenedIsHeld
    <3> QED BY <2>3, <2>8, <3>1 DEF SessInv, OpenedIsHeld
  <2>11. MissingIsGone'
    BY <2>3, <2>7, <2>8 DEF SessInv, MissingIsGone
  <2>12. GoneIsMissing'
    BY <2>3, <2>6, <2>7 DEF SessInv, GoneIsMissing, Busy
  <2>13. CopiesAgree'
    BY <2>3, <2>6 DEF SessInv, CopiesAgree, Busy
  <2>14. LiveIsTracked'
    BY <2>3, <2>7 DEF SessInv, LiveIsTracked, GoneIsMissing
  <2>15. CapInv'
    <3>1. \A p \in Requests : req'[p].pc = "create" => req'[p] = req[p]
      BY <2>6
    <3> QED BY <2>3, <3>1, CapKeeps
  <2> QED BY <2>9, <2>10, <2>11, <2>12, <2>13, <2>14, <2>15 DEF SessInv
<1>38. ASSUME NEW r \in Requests, BindOnTheWay(r)
       PROVE SessInv' /\ CapInv'
  <2>1. PICK q \in RequestRecord : q = req[r] /\ Shape(q)
    BY <1>38, AtStep DEF BindOnTheWay
  <2>2. q.pc = "save" /\ sess[q.c.sid] # None /\ q.c.sid \in Sessions
    BY <1>38, <2>1 DEF BindOnTheWay, BindingDue, RequestRecord, LoginFlowRecord
  <2>3. UNCHANGED <<sess, rows, raced, rushed, tracked, halfway>>
    BY <1>38 DEF BindOnTheWay
  <2> DEFINE n == [q EXCEPT !.pc = "bind", !.sid = q.c.sid, !.s = sess[q.c.sid]]
  <2>4. req' = [req EXCEPT ![r] = n]
    BY <1>38, <2>1 DEF BindOnTheWay
  <2>5. n.pc = "bind" /\ n.sid = q.c.sid /\ n.s = sess[q.c.sid]
    BY <2>1 DEF RequestRecord
  <2> HIDE DEF n
  <2>6. req'[r] = n /\ \A p \in Requests \ {r} : req'[p] = req[p]
    BY <2>4 DEF ShapeInv, TypeOK
  <2>7. /\ req'[r].sid \in Sessions /\ sess[req'[r].sid] # None
        /\ req'[r].s.user = sess[req'[r].sid].user
    BY <2>2, <2>5, <2>6
  <2>8. req[r].pc # "mark" /\ req'[r].pc \notin {"mark", "create"}
    BY <2>1, <2>2, <2>5, <2>6
  <2> QED BY <2>3, <2>6, <2>7, <2>8, SessKeeps
<1>39. ASSUME NEW r \in Requests, StoreBinding(r)
       PROVE SessInv' /\ CapInv'
  <2>1. PICK q \in RequestRecord : q = req[r] /\ Shape(q)
    BY <1>39, AtStep DEF StoreBinding
  <2>2. q.pc = "bind"
    BY <1>39, <2>1 DEF StoreBinding
  <2>3. q.s \in SsoSession /\ q.s # None /\ q.sid \in Sessions
    BY <2>1, <2>2, RecordsAssumption DEF Shape, Last
  <2> DEFINE x == [q.s EXCEPT !.org = TRUE]
             n == Bound(q)
  <2>4. /\ sess' = [sess EXCEPT ![q.sid] = x] /\ req' = [req EXCEPT ![r] = n]
        /\ UNCHANGED <<rows, raced, rushed, tracked, halfway>>
    BY <1>39, <2>1 DEF StoreBinding, Bound
  <2>5. x \in SsoSession /\ x.user = q.s.user
    BY <2>3 DEF SsoSession
  <2>6. n.pc = "save" /\ n.sid = q.sid /\ n.s = q.s
    BY <2>1 DEF Bound, RequestRecord
  <2> HIDE DEF x, n
  <2>7. x # None
    BY <2>5, RecordsAssumption
  <2> QED BY <2>1, <2>2, <2>3, <2>4, <2>5, <2>6, <2>7, SessWrites
<1>40. ASSUME NEW u \in Users, PasswordExpires(u) \/ ForcePasswordChange(u)
       PROVE SessInv' /\ CapInv'
  <2>1. UNCHANGED <<sess, rows, raced, rushed, tracked, halfway, req>>
    BY <1>40 DEF PasswordExpires, ForcePasswordChange
  <2> QED BY <2>1 DEF SessInv, OpenedInOrder, OpenedIsHeld, MissingIsGone, GoneIsMissing,
      CopiesAgree, LiveIsTracked, Gone, Busy, CapInv, SessionsOf, Opening
<1>41. ASSUME NEW r \in Requests, Fail(r)
       PROVE SessInv' /\ CapInv'
  <2>1. /\ req[r].pc # "idle" /\ req' = [req EXCEPT ![r] = Idle] /\ Idle.pc = "idle"
        /\ UNCHANGED <<sess, rows, raced, rushed, tracked>>
        /\ halfway' = IF req[r].pc = "mark" THEN halfway \cup {req[r].sid} ELSE halfway
    BY <1>41 DEF Fail, Busy, Finished, Idle
  <2>2. CASE req[r].pc # "mark"
    BY <2>1, <2>2, SessGoes
  <2>3. CASE req[r].pc = "mark"
    <3>1. /\ req'[r].pc = "idle" /\ \A p \in Requests \ {r} : req'[p] = req[p]
          /\ halfway' = halfway \cup {req[r].sid}
      BY <2>1, <2>3 DEF ShapeInv, TypeOK
    <3>2. \A s \in Sessions : /\ Gone(s)' => Gone(s)
                              /\ Gone(s) => Gone(s)' \/ s = req[r].sid
      BY <2>1, <3>1 DEF Gone
    <3>3. OpenedInOrder' /\ OpenedIsHeld'
      BY <2>1, <3>1 DEF SessInv, OpenedInOrder, OpenedIsHeld, Busy
    <3>4. MissingIsGone'
      BY <2>1, <3>1, <3>2 DEF SessInv, MissingIsGone
    <3>5. GoneIsMissing'
      <4> SUFFICES ASSUME NEW s \in Sessions \ raced, Gone(s)
                   PROVE  /\ sess[s] = None
                          /\ \A p \in Requests : Busy(p)' /\ req'[p].sid = s => req'[p].pc = "mark"
        BY <2>1, <3>2 DEF GoneIsMissing
      <4> QED BY <3>1 DEF SessInv, GoneIsMissing, Busy
    <3>6. CopiesAgree' /\ LiveIsTracked'
      BY <2>1, <3>1 DEF SessInv, CopiesAgree, LiveIsTracked, Busy
    <3>7. CapInv'
      <4>1. \A p \in Requests : req'[p].pc = "create" => req'[p] = req[p]
        BY <3>1
      <4> QED BY <2>1, <3>1, <4>1, CapKeeps
    <3> QED BY <3>3, <3>4, <3>5, <3>6, <3>7 DEF SessInv
  <2> QED BY <2>2, <2>3
<1>42. ASSUME UNCHANGED vars PROVE SessInv' /\ CapInv'
  BY <1>42 DEF vars, SessInv, OpenedInOrder, OpenedIsHeld, MissingIsGone, GoneIsMissing,
      CopiesAgree, LiveIsTracked, Gone, Busy, CapInv, SessionsOf, Opening
<1> QED
  BY <1>1, <1>2, <1>3, <1>4, <1>5, <1>6, <1>7, <1>8, <1>9, <1>10, <1>11, <1>12,
     <1>13, <1>14, <1>15, <1>16, <1>17, <1>18, <1>19, <1>20, <1>21, <1>22, <1>23,
     <1>24, <1>25, <1>26, <1>27, <1>28, <1>29, <1>30, <1>31, <1>32, <1>33, <1>34,
     <1>35, <1>36, <1>37, <1>38, <1>39, <1>40, <1>41, <1>42
     DEF Next

(* What is known of sessions holds throughout.                               *)
LEMMA SessionsRest == Spec => [](ShapeInv /\ SessInv /\ CapInv)
<1>1. Init => SessInv /\ CapInv
  <2> SUFFICES ASSUME Init PROVE SessInv /\ CapInv
    OBVIOUS
  <2>1. \A r \in Requests : req[r].pc = "idle"
    BY DEF Init, Idle
  <2>2. MaxSessions \in Nat /\ Sessions = 1..MaxSessions
    BY BoundsAssumption DEF Sessions
  <2>3. OpenedInOrder
    <3>1. 0 \in 0..MaxSessions /\ \A s \in Sessions : ~ (s <= 0)
      BY <2>2
    <3> QED BY <3>1 DEF Init, OpenedInOrder
  <2>4. CapInv
    <3>1. \A u : SessionsOf(u) = {} /\ Opening(u) = {}
      BY <2>1 DEF Init, SessionsOf, Opening
    <3>2. Cardinality({}) = 0 /\ MaxConcurrent \in Nat
      BY FS_EmptySet, BoundsAssumption
    <3> QED BY <3>1, <3>2 DEF CapInv
  <2> QED BY <2>1, <2>3, <2>4 DEF Init, SessInv, OpenedIsHeld, MissingIsGone, GoneIsMissing,
        CopiesAgree, LiveIsTracked, Gone, Busy
<1>2. ShapeInv /\ GrantInv /\ SessInv /\ CapInv /\ [Next]_vars => SessInv' /\ CapInv'
  BY NextSess
<1> QED BY <1>1, <1>2, GrantsRest, PTL DEF Spec

(* A session that was ended stays away, unless a request had it in hand when *)
(* it was.                                                                   *)
THEOREM EndedSessionsStayGone == Spec => []RevokedStaysGone
<1>1. SessInv => RevokedStaysGone
  BY DEF SessInv, GoneIsMissing, Gone, RevokedStaysGone
<1> QED BY <1>1, SessionsRest, PTL

(* No user has more live sessions than max_concurrent allows, unless two of  *)
(* the user's sign-ins counted at once; a session that was written back      *)
(* after its end, or whose opening or end failed half-way, is not counted.   *)
THEOREM LimitIsKept == Spec => []CapHolds
<1>1. CapInv => CapHolds
  BY DEF CapInv, SessionsOf, CapHolds
<1> QED BY <1>1, SessionsRest, PTL

=============================================================================
