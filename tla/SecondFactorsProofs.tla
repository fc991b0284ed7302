------------------------ MODULE SecondFactorsProofs ------------------------
(* Machine-checked proofs about SecondFactors, for every set of requests,    *)
(* scopes, destinations and codes, every skew and limit on attempts, and any *)
(* number of requests and faults.                                            *)
EXTENDS SecondFactors, NaturalsInduction, WellFoundedInduction, TLAPS

(* The types, and what each request has in hand.                            *)
TotpShape == [kind : {"totp"}, id : Nat, secret : Nat]
SmsShape == [kind : {"sms"}, id : Nat, scope : Scopes \cup {None}, proven : Destinations,
             sentTo : Destinations]
CodeShape == [n : Nat, to : Destinations, attempts : Nat]
Holding == SUBSET ({"set", "secret", "message"} \X Nat)

RegenerateReq ==
    [op : {"regenerate"}, pc : {"regen", "insertSet"}, seen : SUBSET Nat, holds : Holding]
RecoveryReq ==
    [op : {"recovery"}, pc : {"use"}, set : Nat, code : Codes, left : SUBSET Codes, holds : Holding]
RemoveReq ==
    [op : {"remove"}, pc : {"remove"}, cred : TotpShape \cup SmsShape,
     others : SUBSET (TotpShape \cup SmsShape), holds : Holding]
BeginReq == [op : {"begin"}, pc : {"claimSecret"}, scope : Scopes, holds : Holding]
TotpNewReq ==
    [op : {"totp"}, pc : {"insertTotp"}, scope : Scopes, secret : Nat, step : Nat, cred : {None},
     seen : SUBSET Nat, holds : Holding]
TotpReq ==
    [op : {"totp"}, pc : {"mark", "deleteSecret", "regen", "insertSet"}, scope : Scopes,
     secret : Nat, step : Nat, cred : TotpShape, seen : SUBSET Nat, holds : Holding]
ClaimReq ==
    [op : {"verify"}, pc : {"claimStep"}, secret : Nat, step : Nat, cred : TotpShape, at : Nat,
     holds : Holding]
SmsBeginReq ==
    [op : {"smsBegin"}, pc : {"switch", "note", "pause", "send"}, scope : Scopes,
     purpose : {"enrol"}, to : Destinations, previous : Destinations \cup {None}, holds : Holding]
SendReq ==
    [op : {"send"}, pc : {"pause", "send"}, scope : Scopes, purpose : {"verify"},
     to : Destinations, holds : Holding]
SmsNewReq ==
    [op : {"sms"}, pc : {"check"}, scope : Scopes, purpose : {"enrol"}, n : Nat,
     to : Destinations, copy : {None}, seen : SUBSET Nat, holds : Holding]
SmsReq ==
    [op : {"sms"}, pc : {"judge", "insertSms", "deletePending", "verified", "first", "regen",
                         "insertSet"},
     scope : Scopes, purpose : {"enrol"}, n : Nat, to : Destinations, copy : CodeShape,
     seen : SUBSET Nat, holds : Holding]
CheckNewReq ==
    [op : {"verify"}, pc : {"check"}, scope : Scopes, purpose : {"verify"}, n : Nat,
     to : {None}, copy : {None}, holds : Holding]
CheckReq ==
    [op : {"verify"}, pc : {"judge"}, scope : Scopes, purpose : {"verify"}, n : Nat,
     to : {None}, copy : CodeShape, holds : Holding]
ReqShape ==
    {Idle} \cup RegenerateReq \cup RecoveryReq \cup RemoveReq \cup BeginReq
      \cup TotpNewReq \cup TotpReq \cup ClaimReq \cup SmsBeginReq \cup SendReq
      \cup SmsNewReq \cup SmsReq \cup CheckNewReq \cup CheckReq

RowsShaped ==
    /\ creds \subseteq TotpShape \cup SmsShape
    /\ DOMAIN sets \subseteq Nat /\ sets \in [DOMAIN sets -> SUBSET Codes]
    /\ phone \in Destinations \cup {None}
KeysShaped ==
    /\ secretAt \in [Scopes -> Nat \cup {None}]
    /\ pending \in [Scopes -> Destinations \cup {None}]
    /\ codeAt \in [Scopes -> [Purposes -> CodeShape \cup {None}]]
    /\ marks \subseteq [cred : Nat, step : Nat, at : Nat]
RestShaped ==
    /\ clock \in Nat /\ made \in Nat
    /\ DOMAIN tries \subseteq Nat /\ tries \in [DOMAIN tries -> Nat]
    /\ tangled \in BOOLEAN
ReqShaped == req \in [Requests -> ReqShape]
Shaped == RowsShaped /\ KeysShaped /\ RestShaped /\ ReqShaped

(* Recovery codes: but for a change beside a removal, whoever is to make a  *)
(* set has a factor, and what a removal takes for the rest is there.        *)
Changes == {"totp", "sms", "regenerate", "remove"}
Enrolled == {"mark", "deleteSecret", "deletePending", "verified", "first", "regen", "insertSet"}
FactorInv ==
    ~ tangled =>
      /\ DOMAIN sets # {} => creds # {}
      /\ \A r \in Requests : req[r].pc \in Enrolled => creds # {}
      /\ \A r \in Requests : req[r].pc = "remove" =>
           /\ req[r].others \subseteq creds /\ req[r].cred \notin req[r].others
           /\ \A p \in Requests \ {r} : ~ (Busy(p) /\ req[p].op \in Changes)

(* Destinations: but where enrolments crossed, the code that is out went to *)
(* the destination that is pending, and so did the one a request has read.  *)
Engaged(r, s) == Busy(r) /\ req[r].op \in {"smsBegin", "sms"} /\ req[r].scope = s
CodeStraight(s) ==
    codeAt[s].enrol # None => pending[s] # None /\ codeAt[s].enrol.to = pending[s]
BeginStraight(r, s) ==
    Beginning(r, s) =>
      /\ req[r].pc = "switch" => req[r].previous = pending[s]
      /\ req[r].pc = "note" /\ codeAt[s].enrol # None => pending[s] = req[r].to
      /\ req[r].pc \in {"pause", "send"} => pending[s] = req[r].to
      /\ \A p \in Requests \ {r} : ~ Engaged(p, s)
ConfirmStraight(r, s) ==
    Engaged(r, s) /\ req[r].pc \in {"check", "judge", "insertSms", "deletePending"} =>
      /\ req[r].to = pending[s]
      /\ req[r].pc \in {"judge", "insertSms"} => req[r].copy.to = req[r].to
Straight(s) ==
    CodeStraight(s) /\ \A r \in Requests : BeginStraight(r, s) /\ ConfirmStraight(r, s)
StraightInv == ProvenWhereSent /\ \A s \in Scopes \ crossed : Straight(s)

(* One-time codes.  What is known by a number was made before.              *)
MadeInv ==
    /\ \A k \in DOMAIN sets : k <= made
    /\ \A s \in Scopes : secretAt[s] # None => secretAt[s] <= made
    /\ \A c \in creds : c.kind = "totp" => c.secret <= made
    /\ \A n \in DOMAIN tries : n <= made
    /\ \A code \in spent : code[2] \in Nat /\ code[2] <= made

(* What a request holds, and that but for two checks of an authenticator's  *)
(* code no two hold the same, unless it counts as shared.                   *)
HoldsWhat(r) ==
    \/ req[r].pc = "idle"
    \/ /\ req[r] \in RecoveryReq
       /\ req[r].holds = {<<"set", req[r].set>>}
    \/ /\ req[r] \in TotpNewReq \cup TotpReq \cup ClaimReq
       /\ req[r].holds = {<<"secret", req[r].secret>>}
    \/ /\ req[r] \in SmsReq \cup CheckReq
       /\ req[r].holds = {<<"message", req[r].copy.n>>}
    \/ /\ req[r] \in RegenerateReq \cup RemoveReq \cup BeginReq \cup SmsBeginReq \cup SendReq
                       \cup SmsNewReq \cup CheckNewReq
       /\ req[r].holds = {}
HeldByOne ==
    \A p, r \in Requests : p # r /\ Busy(p) /\ Busy(r) =>
        \A store \in req[p].holds \cap req[r].holds :
            store \in shared \/ (req[p].pc = "claimStep" /\ req[r].pc = "claimStep")
HandInv ==
    /\ \A r \in Requests : HoldsWhat(r)
    /\ \A r \in Requests : Busy(r) => \A store \in req[r].holds : store[2] <= made
    /\ HeldByOne

(* A set of recovery codes: neither it, nor a copy of it, has a code that   *)
(* was accepted.                                                            *)
SetOnce(k) ==
    /\ \A c \in Codes : <<"set", k, c>> \in spent /\ k \in DOMAIN sets => c \notin sets[k]
    /\ \A r \in Requests : req[r].pc = "use" /\ req[r].set = k =>
         /\ <<"set", k, req[r].code>> \notin spent
         /\ \A c \in req[r].left : c # req[r].code /\ <<"set", k, c>> \notin spent
SetInv == \A k \in Nat : <<"set", k>> \in shared \/ SetOnce(k)

(* A message: it has one key, which counts its wrong codes, as does a copy. *)
Placed(n, s, p) ==
    \/ codeAt[s][p] # None /\ codeAt[s][p].n = n
    \/ \E r \in Requests : /\ req[r].pc = "judge" /\ req[r].copy.n = n
                           /\ req[r].scope = s /\ req[r].purpose = p
MessageOnce(n) ==
    /\ tries[n] <= MaxOtpAttempts
    /\ \A s \in Scopes, p \in Purposes : codeAt[s][p] # None /\ codeAt[s][p].n = n =>
         /\ <<"message", n>> \notin spent
         /\ tries[n] = codeAt[s][p].attempts /\ codeAt[s][p].attempts < MaxOtpAttempts
    /\ \A r \in Requests : req[r].pc = "judge" /\ req[r].copy.n = n =>
         /\ <<"message", n>> \notin spent
         /\ tries[n] = req[r].copy.attempts /\ req[r].copy.attempts < MaxOtpAttempts
PlacedOnce ==
    \A n \in Nat, s \in Scopes, p \in Purposes : Placed(n, s, p) =>
        /\ n \in DOMAIN tries
        /\ \A t \in Scopes, q \in Purposes : Placed(n, t, q) => s = t /\ p = q
MessageInv ==
    PlacedOnce /\ \A n \in DOMAIN tries : <<"message", n>> \in shared \/ MessageOnce(n)

(* An authenticator's secret: the credentials that have it, or that a check *)
(* has in hand, are one, whose mark outlives the window of an accepted code.*)
Having(x) ==
    {c \in creds : c.kind = "totp" /\ c.secret = x} \cup
    {req[r].cred : r \in {r \in Requests : req[r].pc = "claimStep" /\ req[r].secret = x}}
Untouched(x) == Having(x) = {} /\ \A st \in Nat : <<"secret", x, st>> \notin spent
Proving(x, s) == \E r \in Requests : /\ req[r].pc \in {"mark", "deleteSecret"}
                                     /\ req[r].secret = x /\ req[r].scope = s
SecretOnce(x) ==
    /\ \A c, d \in Having(x) : c = d
    /\ \A s \in Scopes : secretAt[s] = x /\ x # None => Untouched(x) \/ Proving(x, s)
    /\ \A r \in Requests : req[r].pc = "insertTotp" /\ req[r].secret = x => Untouched(x)
    /\ \A r \in Requests : req[r].pc = "mark" /\ req[r].secret = x =>
         /\ Having(x) \subseteq {req[r].cred}
         /\ \A st \in Nat : <<"secret", x, st>> \in spent => st = req[r].step
    /\ \A st \in Nat : <<"secret", x, st>> \in spent /\ clock <= st + Skew =>
         \/ \A c \in Having(x) : Marked(c, st)
         \/ \E r \in Requests : req[r].pc = "mark" /\ req[r].secret = x
Dated ==
    /\ \A r \in Requests : req[r].pc \in {"insertTotp", "mark", "claimStep"} =>
         req[r].step <= clock + Skew
    /\ \A r \in Requests : req[r].pc = "claimStep" => req[r].at <= req[r].step + Skew
    /\ \A mark \in marks : mark.step <= mark.at + Skew
Scoped ==
    /\ \A s, t \in Scopes : secretAt[s] = secretAt[t] /\ secretAt[s] # None => s = t
    /\ \A r \in Requests, s \in Scopes :
         req[r].pc \in {"insertTotp", "mark", "deleteSecret"} /\ secretAt[s] = req[r].secret
           /\ secretAt[s] # None => s = req[r].scope
SecretInv ==
    Dated /\ Scoped /\ \A x \in Nat : <<"secret", x>> \in shared \/ SecretOnce(x)

TwiceInv == \A code \in twice : <<code[1], code[2]>> \in shared
OnceInv == MadeInv /\ HandInv /\ SetInv /\ MessageInv /\ SecretInv /\ TwiceInv


-----------------------------------------------------------------------------
(* The requests.                                                            *)

(* Where a request stands tells what it is, and what it has in hand.        *)
LEMMA ByPlace ==
    ASSUME ReqShaped, NEW r \in Requests
    PROVE  LET q == req[r] IN
           /\ q.pc = "idle" => q = Idle
           /\ q.pc \in {"regen", "insertSet"} => q \in RegenerateReq \cup TotpReq \cup SmsReq
           /\ q.pc = "use" => q \in RecoveryReq
           /\ q.pc = "remove" => q \in RemoveReq
           /\ q.pc = "claimSecret" => q \in BeginReq
           /\ q.pc = "insertTotp" => q \in TotpNewReq
           /\ q.pc \in {"mark", "deleteSecret"} => q \in TotpReq
           /\ q.pc = "claimStep" => q \in ClaimReq
           /\ q.pc \in {"switch", "note"} => q \in SmsBeginReq
           /\ q.pc \in {"pause", "send"} => q \in SmsBeginReq \cup SendReq
           /\ q.pc = "check" => q \in SmsNewReq \cup CheckNewReq
           /\ q.pc = "judge" => q \in SmsReq \cup CheckReq
           /\ q.pc \in {"insertSms", "deletePending", "verified", "first"} => q \in SmsReq
<1> DEFINE q == req[r]
<1>0. q \in ReqShape
  BY DEF ReqShaped
<1> HIDE DEF q
<1>1. q = Idle => q.pc = "idle"
  BY DEF Idle
<1>2. q \in RegenerateReq => q.pc \in {"regen", "insertSet"}
  BY DEF RegenerateReq
<1>3. q \in RecoveryReq => q.pc = "use"
  BY DEF RecoveryReq
<1>4. q \in RemoveReq => q.pc = "remove"
  BY DEF RemoveReq
<1>5. q \in BeginReq => q.pc = "claimSecret"
  BY DEF BeginReq
<1>6. /\ q \in TotpReq => q.pc \in {"mark", "deleteSecret", "regen", "insertSet"}
      /\ q \in TotpNewReq => q.pc = "insertTotp"
  BY DEF TotpReq, TotpNewReq
<1>7. q \in ClaimReq => q.pc = "claimStep"
  BY DEF ClaimReq
<1>8. q \in SmsBeginReq => q.pc \in {"switch", "note", "pause", "send"}
  BY DEF SmsBeginReq
<1>9. q \in SendReq => q.pc \in {"pause", "send"}
  BY DEF SendReq
<1>10. /\ q \in SmsNewReq => q.pc = "check"
       /\ q \in SmsReq => q.pc \in {"judge", "insertSms", "deletePending", "verified",
                                    "first", "regen", "insertSet"}
  BY DEF SmsNewReq, SmsReq
<1>11. (q \in CheckNewReq => q.pc = "check") /\ (q \in CheckReq => q.pc = "judge")
  BY DEF CheckNewReq, CheckReq
<1>12. \/ q = Idle \/ q \in RegenerateReq \/ q \in RecoveryReq \/ q \in RemoveReq
       \/ q \in BeginReq \/ q \in TotpNewReq \/ q \in TotpReq \/ q \in ClaimReq \/ q \in SmsBeginReq
       \/ q \in SendReq \/ q \in SmsNewReq \/ q \in SmsReq
       \/ q \in CheckNewReq \/ q \in CheckReq
  BY <1>0 DEF ReqShape
<1>13. /\ q.pc = "idle" => q = Idle
       /\ q.pc \in {"regen", "insertSet"} => q \in RegenerateReq \cup TotpReq \cup SmsReq
       /\ q.pc = "use" => q \in RecoveryReq
       /\ q.pc = "remove" => q \in RemoveReq
       /\ q.pc = "claimSecret" => q \in BeginReq
       /\ q.pc = "insertTotp" => q \in TotpNewReq
       /\ q.pc \in {"mark", "deleteSecret"} => q \in TotpReq
       /\ q.pc = "claimStep" => q \in ClaimReq
       /\ q.pc \in {"switch", "note"} => q \in SmsBeginReq
       /\ q.pc \in {"pause", "send"} => q \in SmsBeginReq \cup SendReq
       /\ q.pc = "check" => q \in SmsNewReq \cup CheckNewReq
       /\ q.pc = "judge" => q \in SmsReq \cup CheckReq
       /\ q.pc \in {"insertSms", "deletePending", "verified", "first"} => q \in SmsReq
  BY <1>1, <1>2, <1>3, <1>4, <1>5, <1>6, <1>7, <1>8, <1>9, <1>10, <1>11, <1>12
<1> QED BY <1>13 DEF q

(* What a request is tells where it stands.                                 *)
LEMMA ByKind ==
    ASSUME ReqShaped, NEW r \in Requests, Busy(r)
    PROVE  LET q == req[r] IN
           /\ q.op \in {"regenerate", "recovery", "remove", "begin", "totp", "verify", "smsBegin",
                        "send", "sms"}
           /\ q.holds \in Holding
           /\ q.op = "regenerate" => q \in RegenerateReq
           /\ q.op = "remove" => q \in RemoveReq
           /\ q.op = "totp" => q \in TotpNewReq \cup TotpReq
           /\ q.op = "smsBegin" => q \in SmsBeginReq
           /\ q.op = "sms" => q \in SmsNewReq \cup SmsReq
           /\ q.op = "verify" => q \in ClaimReq \cup CheckNewReq \cup CheckReq
<1> DEFINE q == req[r]
<1>0. q \in ReqShape /\ q.pc # "idle"
  BY DEF ReqShaped, Busy
<1> HIDE DEF q
<1>1. q # Idle
  BY <1>0 DEF Idle
<1>2. q \in RegenerateReq => q.op = "regenerate" /\ q.holds \in Holding
  BY DEF RegenerateReq
<1>3. q \in RecoveryReq => q.op = "recovery" /\ q.holds \in Holding
  BY DEF RecoveryReq
<1>4. q \in RemoveReq => q.op = "remove" /\ q.holds \in Holding
  BY DEF RemoveReq
<1>5. q \in BeginReq => q.op = "begin" /\ q.holds \in Holding
  BY DEF BeginReq
<1>6. q \in TotpNewReq \cup TotpReq => q.op = "totp" /\ q.holds \in Holding
  BY DEF TotpReq, TotpNewReq
<1>7. q \in ClaimReq => q.op = "verify" /\ q.holds \in Holding
  BY DEF ClaimReq
<1>8. q \in SmsBeginReq => q.op = "smsBegin" /\ q.holds \in Holding
  BY DEF SmsBeginReq
<1>9. q \in SendReq => q.op = "send" /\ q.holds \in Holding
  BY DEF SendReq
<1>10. q \in SmsNewReq \cup SmsReq => q.op = "sms" /\ q.holds \in Holding
  BY DEF SmsNewReq, SmsReq
<1>11. q \in CheckNewReq \cup CheckReq => q.op = "verify" /\ q.holds \in Holding
  BY DEF CheckNewReq, CheckReq
<1>12. \/ q \in RegenerateReq \/ q \in RecoveryReq \/ q \in RemoveReq
       \/ q \in BeginReq \/ q \in TotpNewReq \/ q \in TotpReq \/ q \in ClaimReq \/ q \in SmsBeginReq
       \/ q \in SendReq \/ q \in SmsNewReq \/ q \in SmsReq
       \/ q \in CheckNewReq \/ q \in CheckReq
  BY <1>0, <1>1 DEF ReqShape
<1>13. /\ q.op \in {"regenerate", "recovery", "remove", "begin", "totp", "verify", "smsBegin",
                    "send", "sms"}
       /\ q.holds \in Holding
       /\ q.op = "regenerate" => q \in RegenerateReq
       /\ q.op = "remove" => q \in RemoveReq
       /\ q.op = "totp" => q \in TotpNewReq \cup TotpReq
       /\ q.op = "smsBegin" => q \in SmsBeginReq
       /\ q.op = "sms" => q \in SmsNewReq \cup SmsReq
       /\ q.op = "verify" => q \in ClaimReq \cup CheckNewReq \cup CheckReq
  BY <1>2, <1>3, <1>4, <1>5, <1>6, <1>7, <1>8, <1>9, <1>10, <1>11, <1>12
<1> QED BY <1>13 DEF q

(* How a request starts.                                                    *)
LEMMA Starts ==
    ASSUME ReqShaped, NEW r \in Requests, NEW q, Start(r, q)
    PROVE  /\ req'[r] = q /\ req[r].pc = "idle" /\ req[r] = Idle
           /\ \A p \in Requests \ {r} : req'[p] = req[p]
           /\ q \in ReqShape => ReqShaped'
  BY ByPlace DEF Start, Busy, ReqShaped

(* How a request ends.                                                      *)
LEMMA Ends ==
    ASSUME ReqShaped, NEW r \in Requests, Finished(r)
    PROVE  /\ req'[r] = Idle /\ req'[r].pc = "idle" /\ ReqShaped'
           /\ \A p \in Requests \ {r} : req'[p] = req[p]
  BY DEF Finished, ReqShaped, ReqShape, Idle

(* How a request moves on.                                                  *)
LEMMA MovesOn ==
    ASSUME ReqShaped, NEW r \in Requests, NEW pc, Goto(r, pc), Busy(r)
    PROVE  /\ req'[r] = [req[r] EXCEPT !.pc = pc]
           /\ \A p \in Requests \ {r} : req'[p] = req[p]
           /\ [req[r] EXCEPT !.pc = pc] \in ReqShape => ReqShaped'
           /\ req[r] \in TotpReq =>
                /\ req'[r].pc = pc /\ req'[r].op = "totp" /\ req'[r].holds = req[r].holds
                /\ req'[r].scope = req[r].scope /\ req'[r].secret = req[r].secret
                /\ req'[r].step = req[r].step /\ req'[r].cred = req[r].cred
                /\ pc \in {"mark", "deleteSecret", "regen", "insertSet"} =>
                     ReqShaped' /\ req'[r] \in TotpReq
           /\ req[r].op = "smsBegin" =>
                /\ req'[r].pc = pc /\ req'[r].op = "smsBegin" /\ req'[r].holds = req[r].holds
                /\ req'[r].scope = req[r].scope /\ req'[r].to = req[r].to
                /\ req'[r].previous = req[r].previous
                /\ pc \in {"switch", "note", "pause", "send"} =>
                     ReqShaped' /\ req'[r] \in SmsBeginReq
           /\ req[r] \in SendReq =>
                /\ req'[r].pc = pc /\ req'[r].op = "send" /\ req'[r].holds = req[r].holds
                /\ pc \in {"pause", "send"} => ReqShaped' /\ req'[r] \in SendReq
           /\ req[r] \in SmsReq =>
                /\ req'[r].pc = pc /\ req'[r].op = "sms" /\ req'[r].holds = req[r].holds
                /\ req'[r].scope = req[r].scope /\ req'[r].to = req[r].to
                /\ req'[r].copy = req[r].copy
                /\ pc \in {"judge", "insertSms", "deletePending", "verified", "first",
                           "regen", "insertSet"} => ReqShaped' /\ req'[r] \in SmsReq
<1>1. /\ req'[r] = [req[r] EXCEPT !.pc = pc]
      /\ \A p \in Requests \ {r} : req'[p] = req[p]
      /\ [req[r] EXCEPT !.pc = pc] \in ReqShape => ReqShaped'
  BY DEF Goto, ReqShaped
<1>2. ASSUME req[r] \in TotpReq
      PROVE  /\ req'[r].pc = pc /\ req'[r].op = "totp" /\ req'[r].holds = req[r].holds
             /\ req'[r].scope = req[r].scope /\ req'[r].secret = req[r].secret
             /\ req'[r].step = req[r].step /\ req'[r].cred = req[r].cred
             /\ pc \in {"mark", "deleteSecret", "regen", "insertSet"} =>
                  ReqShaped' /\ req'[r] \in TotpReq
  <2>1. req[r] \in TotpReq
    BY <1>2
  <2>2. pc \in {"mark", "deleteSecret", "regen", "insertSet"} => req'[r] \in TotpReq
    BY <1>1, <2>1 DEF TotpReq
  <2>3. /\ req'[r].pc = pc /\ req'[r].op = "totp" /\ req'[r].holds = req[r].holds
        /\ req'[r].scope = req[r].scope /\ req'[r].secret = req[r].secret
        /\ req'[r].step = req[r].step /\ req'[r].cred = req[r].cred
    BY <1>1, <1>2, <2>1 DEF TotpReq
  <2> QED BY <1>1, <2>2, <2>3 DEF ReqShape
<1>3. ASSUME req[r].op = "smsBegin"
      PROVE  /\ req'[r].pc = pc /\ req'[r].op = "smsBegin" /\ req'[r].holds = req[r].holds
             /\ req'[r].scope = req[r].scope /\ req'[r].to = req[r].to
             /\ req'[r].previous = req[r].previous
             /\ pc \in {"switch", "note", "pause", "send"} =>
                  ReqShaped' /\ req'[r] \in SmsBeginReq
  <2>1. req[r] \in SmsBeginReq
    BY <1>3, ByKind
  <2>2. pc \in {"switch", "note", "pause", "send"} => req'[r] \in SmsBeginReq
    BY <1>1, <2>1 DEF SmsBeginReq
  <2>3. /\ req'[r].pc = pc /\ req'[r].op = "smsBegin" /\ req'[r].holds = req[r].holds
        /\ req'[r].scope = req[r].scope /\ req'[r].to = req[r].to
        /\ req'[r].previous = req[r].previous
    BY <1>1, <1>3, <2>1 DEF SmsBeginReq
  <2> QED BY <1>1, <2>2, <2>3 DEF ReqShape
<1>4. ASSUME req[r] \in SendReq
      PROVE  /\ req'[r].pc = pc /\ req'[r].op = "send" /\ req'[r].holds = req[r].holds
             /\ pc \in {"pause", "send"} => ReqShaped' /\ req'[r] \in SendReq
  <2>2. pc \in {"pause", "send"} => req'[r] \in SendReq
    BY <1>1, <1>4 DEF SendReq
  <2>3. req'[r].pc = pc /\ req'[r].op = "send" /\ req'[r].holds = req[r].holds
    BY <1>1, <1>4 DEF SendReq
  <2> QED BY <1>1, <2>2, <2>3 DEF ReqShape
<1>5. ASSUME req[r] \in SmsReq
      PROVE  /\ req'[r].pc = pc /\ req'[r].op = "sms" /\ req'[r].holds = req[r].holds
             /\ req'[r].scope = req[r].scope /\ req'[r].to = req[r].to
             /\ req'[r].copy = req[r].copy
             /\ pc \in {"judge", "insertSms", "deletePending", "verified", "first",
                        "regen", "insertSet"} => ReqShaped' /\ req'[r] \in SmsReq
  <2>1. req[r] \in SmsReq
    BY <1>5
  <2>2. pc \in {"judge", "insertSms", "deletePending", "verified", "first",
                "regen", "insertSet"} => req'[r] \in SmsReq
    BY <1>1, <2>1 DEF SmsReq
  <2>3. /\ req'[r].pc = pc /\ req'[r].op = "sms" /\ req'[r].holds = req[r].holds
        /\ req'[r].scope = req[r].scope /\ req'[r].to = req[r].to
        /\ req'[r].copy = req[r].copy
    BY <1>1, <1>5, <2>1 DEF SmsReq
  <2> QED BY <1>1, <2>2, <2>3 DEF ReqShape
<1> QED BY <1>1, <1>2, <1>3, <1>4, <1>5

(* The steps, by what they are about.                                       *)
RecoveryStep(r) ==
    \/ RegenDelete(r) \/ RegenInsert(r) \/ FirstCodes(r) \/ Regenerate(r) \/ UseRecovery(r)
    \/ RemoveCommit(r)
    \/ \E k \in DOMAIN sets, code \in Codes : VerifyRecovery(r, k, code)
    \/ \E c \in creds : Remove(r, c)
TotpStep(r) ==
    \/ ClaimSecret(r) \/ InsertTotp(r) \/ MarkProof(r) \/ DeleteSecret(r) \/ ClaimStep(r)
    \/ \E s \in Scopes : TotpBegin(r, s)
    \/ \E s \in Scopes, step \in Nat : TotpConfirm(r, s, step)
    \/ \E c \in Kind("totp"), step \in Nat : VerifyTotp(r, c.secret, step)
MessageStep(r) ==
    \/ Switch(r) \/ NotePending(r) \/ ClaimPause(r) \/ StoreCode(r) \/ CheckGet(r)
    \/ Judge(r) \/ InsertSms(r) \/ DeletePending(r) \/ MarkVerified(r)
    \/ \E s \in Scopes : SendCode(r, s)
    \/ \E s \in Scopes, d \in Destinations : SmsBegin(r, s, d)
    \/ \E s \in Scopes, n \in Typed : SmsConfirm(r, s, n) \/ SmsVerify(r, s, n)

(* Every step is one of them, time passing, or a request that dies.         *)
LEMMA Steps ==
    ASSUME SecondFactorsAssumption, Next
    PROVE  \/ \E r \in Requests : RecoveryStep(r) \/ TotpStep(r) \/ MessageStep(r) \/ Die(r)
           \/ \E s \in Scopes : Lapse(s)
           \/ Tick
<1>1. 0..(MaxClock + Skew) \subseteq Nat
  BY DEF SecondFactorsAssumption
<1> QED BY <1>1, Zenon DEF Next, RecoveryStep, TotpStep, MessageStep

(* A set of numbers that is not empty has a least one.                      *)
LEMMA LeastOf == ASSUME NEW S \in SUBSET Nat, S # {}
                 PROVE  \E m \in S : \A t \in S : m <= t
<1> DEFINE R == OpToRel(<, Nat)
<1>1. \A x, y \in Nat : <<y, x>> \in R <=> y < x
  BY DEF OpToRel
<1>2. IsWellFoundedOn(R, Nat)
  BY NatLessThanWellFounded, Zenon
<1> HIDE DEF R
<1>3. PICK m \in S : \A t \in S : ~ (<<t, m>> \in R)
  BY <1>2, WFMin
<1>4. \A t \in S : ~ (t < m)
  BY <1>1, <1>3
<1> QED BY <1>3, <1>4

(* The row verify_totp takes is one of those it has.                        *)
LEMMA FirstRow ==
    ASSUME NEW mine \in SUBSET TotpShape, mine # {}
    PROVE  (CHOOSE c \in mine : \A d \in mine : c.id <= d.id) \in mine
<1> DEFINE ids == {c.id : c \in mine}
<1>1. ids \in SUBSET Nat /\ ids # {}
  BY DEF TotpShape
<1>2. PICK m \in ids : \A t \in ids : m <= t
  BY <1>1, LeastOf
<1>3. PICK c \in mine : c.id = m
  OBVIOUS
<1>4. \A d \in mine : c.id <= d.id
  BY <1>2, <1>3
<1> QED BY <1>3, <1>4

-----------------------------------------------------------------------------
(* Every step keeps the types.                                              *)

(* The credentials of each kind.                                            *)
LEMMA Kinds ==
    ASSUME RowsShaped
    PROVE  Kind("totp") \subseteq TotpShape /\ Kind("sms") \subseteq SmsShape
<1>1. \A c \in TotpShape : c.kind = "totp"
  BY DEF TotpShape
<1>2. \A c \in SmsShape : c.kind = "sms"
  BY DEF SmsShape
<1> QED BY <1>1, <1>2 DEF Kind, RowsShaped

(* What a new request looks like.                                           *)
LEMMA Shapes ==
    /\ \A h \in Holding : \A seen \in SUBSET Nat :
         [op |-> "regenerate", pc |-> "regen", seen |-> seen, holds |-> h] \in ReqShape
    /\ \A h \in Holding, k \in Nat, code \in Codes, left \in SUBSET Codes :
         [op |-> "recovery", pc |-> "use", set |-> k, code |-> code, left |-> left, holds |-> h]
           \in ReqShape
    /\ \A h \in Holding, c \in TotpShape \cup SmsShape, o \in SUBSET (TotpShape \cup SmsShape) :
         [op |-> "remove", pc |-> "remove", cred |-> c, others |-> o, holds |-> h] \in ReqShape
    /\ \A h \in Holding, s \in Scopes :
         [op |-> "begin", pc |-> "claimSecret", scope |-> s, holds |-> h] \in ReqShape
    /\ \A h \in Holding, s \in Scopes, x \in Nat, st \in Nat :
         [op |-> "totp", pc |-> "insertTotp", scope |-> s, secret |-> x,
          step |-> st, cred |-> None, seen |-> {}, holds |-> h] \in ReqShape
    /\ \A h \in Holding, x \in Nat, st \in Nat, c \in TotpShape, at \in Nat :
         [op |-> "verify", pc |-> "claimStep", secret |-> x, step |-> st, cred |-> c, at |-> at,
          holds |-> h] \in ReqShape
    /\ \A h \in Holding, s \in Scopes, d \in Destinations, e \in Destinations \cup {None} :
         [op |-> "smsBegin", pc |-> "switch", scope |-> s, purpose |-> "enrol",
          to |-> d, previous |-> e, holds |-> h] \in ReqShape
    /\ \A h \in Holding, s \in Scopes, d \in Destinations :
         [op |-> "send", pc |-> "pause", scope |-> s, purpose |-> "verify", to |-> d,
          holds |-> h] \in ReqShape
    /\ \A h \in Holding, s \in Scopes, n \in Nat, d \in Destinations :
         [op |-> "sms", pc |-> "check", scope |-> s, purpose |-> "enrol", n |-> n,
          to |-> d, copy |-> None, seen |-> {}, holds |-> h] \in ReqShape
    /\ \A h \in Holding, s \in Scopes, n \in Nat :
         [op |-> "verify", pc |-> "check", scope |-> s, purpose |-> "verify", n |-> n,
          to |-> None, copy |-> None, holds |-> h] \in ReqShape
<1>1. \A h \in Holding : \A seen \in SUBSET Nat :
         [op |-> "regenerate", pc |-> "regen", seen |-> seen, holds |-> h] \in ReqShape
  BY DEF ReqShape, RegenerateReq
<1>2. \A h \in Holding, k \in Nat, code \in Codes, left \in SUBSET Codes :
         [op |-> "recovery", pc |-> "use", set |-> k, code |-> code, left |-> left, holds |-> h]
           \in ReqShape
  BY DEF ReqShape, RecoveryReq
<1>3. \A h \in Holding, c \in TotpShape \cup SmsShape, o \in SUBSET (TotpShape \cup SmsShape) :
         [op |-> "remove", pc |-> "remove", cred |-> c, others |-> o, holds |-> h] \in ReqShape
  BY DEF ReqShape, RemoveReq
<1>4. \A h \in Holding, s \in Scopes :
         [op |-> "begin", pc |-> "claimSecret", scope |-> s, holds |-> h] \in ReqShape
  BY DEF ReqShape, BeginReq
<1>5. \A h \in Holding, s \in Scopes, x \in Nat, st \in Nat :
         [op |-> "totp", pc |-> "insertTotp", scope |-> s, secret |-> x,
          step |-> st, cred |-> None, seen |-> {}, holds |-> h] \in ReqShape
  BY DEF ReqShape, TotpNewReq
<1>6. \A h \in Holding, x \in Nat, st \in Nat, c \in TotpShape, at \in Nat :
         [op |-> "verify", pc |-> "claimStep", secret |-> x, step |-> st, cred |-> c, at |-> at,
          holds |-> h] \in ReqShape
  BY DEF ReqShape, ClaimReq
<1>7. \A h \in Holding, s \in Scopes, d \in Destinations, e \in Destinations \cup {None} :
         [op |-> "smsBegin", pc |-> "switch", scope |-> s, purpose |-> "enrol",
          to |-> d, previous |-> e, holds |-> h] \in ReqShape
  BY DEF ReqShape, SmsBeginReq
<1>8. \A h \in Holding, s \in Scopes, d \in Destinations :
         [op |-> "send", pc |-> "pause", scope |-> s, purpose |-> "verify", to |-> d,
          holds |-> h] \in ReqShape
  BY DEF ReqShape, SendReq
<1>9. \A h \in Holding, s \in Scopes, n \in Nat, d \in Destinations :
         [op |-> "sms", pc |-> "check", scope |-> s, purpose |-> "enrol", n |-> n,
          to |-> d, copy |-> None, seen |-> {}, holds |-> h] \in ReqShape
  BY DEF ReqShape, SmsNewReq
<1>10. \A h \in Holding, s \in Scopes, n \in Nat :
         [op |-> "verify", pc |-> "check", scope |-> s, purpose |-> "verify", n |-> n,
          to |-> None, copy |-> None, holds |-> h] \in ReqShape
  BY DEF ReqShape, CheckNewReq
<1> QED BY <1>1, <1>2, <1>3, <1>4, <1>5, <1>6, <1>7, <1>8, <1>9, <1>10

(* What a request may hold.                                                 *)
LEMMA MayHold ==
    /\ {} \in Holding
    /\ \A n \in Nat : {<<"set", n>>} \in Holding /\ {<<"secret", n>>} \in Holding
                      /\ {<<"message", n>>} \in Holding
  BY DEF Holding

(* Recovery codes.                                                          *)
LEMMA RecoveryShaped ==
    ASSUME SecondFactorsAssumption, Shaped, NEW r \in Requests, RecoveryStep(r)
    PROVE  Shaped'
<1> USE DEF Shaped
<1>1. CASE RegenDelete(r)
  <2>1. req[r] \in RegenerateReq \cup TotpReq \cup SmsReq
    BY <1>1, ByPlace DEF RegenDelete
  <2>2. DOMAIN sets \in SUBSET Nat
    BY DEF RowsShaped
  <2>3. req' = [req EXCEPT ![r] = [req[r] EXCEPT !.pc = "insertSet", !.seen = DOMAIN sets]]
    BY <1>1 DEF RegenDelete, ReqShaped
  <2>4. [req[r] EXCEPT !.pc = "insertSet", !.seen = DOMAIN sets]
          \in RegenerateReq \cup TotpReq \cup SmsReq
    <3>1. CASE req[r] \in RegenerateReq
      BY <2>2, <3>1 DEF RegenerateReq
    <3>2. CASE req[r] \in TotpReq
      BY <2>2, <3>2 DEF TotpReq
    <3>3. CASE req[r] \in SmsReq
      BY <2>2, <3>3 DEF SmsReq
    <3> QED BY <2>1, <3>1, <3>2, <3>3
  <2>5. ReqShaped'
    BY <2>3, <2>4 DEF ReqShaped, ReqShape
  <2> QED
    BY <1>1, <2>5 DEF RegenDelete, RowsShaped, KeysShaped, RestShaped, rows, keys, history
<1>2. CASE RegenInsert(r)
  <2>1. ReqShaped'
    BY <1>2, Ends DEF RegenInsert
  <2>2. RowsShaped'
    BY <1>2 DEF RegenInsert, RowsShaped, RestShaped
  <2> QED
    BY <1>2, <2>1, <2>2 DEF RegenInsert, KeysShaped, RestShaped, keys, history
<1>3. CASE FirstCodes(r)
  <2>1. req[r] \in SmsReq /\ Busy(r) /\ req[r].op = "sms"
    BY <1>3, ByPlace DEF FirstCodes, SmsReq, Busy
  <2>2. ReqShaped'
    BY <1>3, <2>1, Ends, MovesOn DEF FirstCodes
  <2> QED
    BY <1>3, <2>2 DEF FirstCodes, RowsShaped, KeysShaped, RestShaped, rows, keys, history
<1>4. CASE Regenerate(r)
  <2>1. ReqShaped'
    <3> DEFINE q == [op |-> "regenerate", pc |-> "regen", seen |-> {}, holds |-> {}]
    <3>1. Start(r, q)
      BY <1>4 DEF Regenerate
    <3>2. q \in ReqShape
      BY Shapes, MayHold
    <3> HIDE DEF q
    <3> QED BY <3>1, <3>2, Starts
  <2>2. tangled' \in BOOLEAN
    BY <1>4 DEF Regenerate, Tangle
  <2> QED
    BY <1>4, <2>1, <2>2 DEF Regenerate, RowsShaped, KeysShaped, RestShaped, rows, keys
<1>5. CASE UseRecovery(r)
  <2>1. req[r] \in RecoveryReq
    BY <1>5, ByPlace DEF UseRecovery
  <2>2. ReqShaped'
    BY <1>5, Ends DEF UseRecovery
  <2>3. RowsShaped'
    BY <1>5, <2>1 DEF UseRecovery, RowsShaped, RecoveryReq
  <2> QED
    BY <1>5, <2>2, <2>3 DEF UseRecovery, KeysShaped, RestShaped, keys
<1>6. CASE RemoveCommit(r)
  <2>1. ReqShaped'
    BY <1>6, Ends DEF RemoveCommit
  <2>2. RowsShaped'
    BY <1>6 DEF RemoveCommit, RowsShaped
  <2> QED
    BY <1>6, <2>1, <2>2 DEF RemoveCommit, KeysShaped, RestShaped, keys, history
<1>7. ASSUME NEW k \in DOMAIN sets, NEW code \in Codes, VerifyRecovery(r, k, code)
      PROVE  Shaped'
  <2>1. k \in Nat /\ sets[k] \ {code} \in SUBSET Codes
    BY DEF RowsShaped
  <2>2. ReqShaped'
    <3> DEFINE q == [op |-> "recovery", pc |-> "use", set |-> k, code |-> code,
                    left |-> sets[k] \ {code}, holds |-> {<<"set", k>>}]
    <3>1. Start(r, q)
      BY <1>7 DEF VerifyRecovery
    <3>2. q \in ReqShape
      BY <2>1, Shapes, MayHold
    <3> HIDE DEF q
    <3> QED BY <3>1, <3>2, Starts
  <2> QED
    BY <1>7, <2>2 DEF VerifyRecovery, RowsShaped, KeysShaped, RestShaped, rows, keys
<1>8. ASSUME NEW c \in creds, Remove(r, c) PROVE Shaped'
  <2>1. c \in TotpShape \cup SmsShape /\ creds \ {c} \in SUBSET (TotpShape \cup SmsShape)
    BY DEF RowsShaped
  <2>2. ReqShaped'
    <3> DEFINE q == [op |-> "remove", pc |-> "remove", cred |-> c, others |-> creds \ {c},
                    holds |-> {}]
    <3>1. Start(r, q)
      BY <1>8 DEF Remove
    <3>2. q \in ReqShape
      BY <2>1, Shapes, MayHold
    <3> HIDE DEF q
    <3> QED BY <3>1, <3>2, Starts
  <2>3. tangled' \in BOOLEAN
    BY <1>8 DEF Remove, Tangle
  <2> QED
    BY <1>8, <2>2, <2>3 DEF Remove, RowsShaped, KeysShaped, RestShaped, rows, keys
<1> QED BY <1>1, <1>2, <1>3, <1>4, <1>5, <1>6, <1>7, <1>8 DEF RecoveryStep

(* Authenticator apps.                                                      *)
LEMMA TotpShaped ==
    ASSUME SecondFactorsAssumption, Shaped, NEW r \in Requests, TotpStep(r)
    PROVE  Shaped'
<1> USE DEF Shaped
<1>1. CASE ClaimSecret(r)
  <2>1. req[r] \in BeginReq
    BY <1>1, ByPlace DEF ClaimSecret
  <2>2. ReqShaped'
    BY <1>1, Ends DEF ClaimSecret
  <2>3. made \in Nat /\ made + 1 \in Nat /\ secretAt \in [Scopes -> Nat \cup {None}]
    BY DEF KeysShaped, RestShaped
  <2>4. \/ UNCHANGED <<secretAt, made>>
        \/ made' = made + 1 /\ secretAt' = [secretAt EXCEPT ![req[r].scope] = made + 1]
    BY <1>1 DEF ClaimSecret
  <2>5. made' \in Nat /\ secretAt' \in [Scopes -> Nat \cup {None}]
    BY <2>3, <2>4
  <2> QED
    BY <1>1, <2>2, <2>5 DEF ClaimSecret, RowsShaped, KeysShaped, RestShaped, rows, history
<1>2. CASE InsertTotp(r)
  <2>1. req[r] \in TotpNewReq
    BY <1>2, ByPlace DEF InsertTotp
  <2>2. Totp(made + 1, req[r].secret) \in TotpShape /\ made' \in Nat
    BY <1>2, <2>1 DEF InsertTotp, RestShaped, TotpNewReq, TotpShape, Totp
  <2>3. req' = [req EXCEPT ![r] = [req[r] EXCEPT !.pc = "mark",
                                                 !.cred = Totp(made + 1, req[r].secret)]]
    BY <1>2 DEF InsertTotp, ReqShaped
  <2>4. [req[r] EXCEPT !.pc = "mark", !.cred = Totp(made + 1, req[r].secret)] \in TotpReq
    BY <2>1, <2>2 DEF TotpReq, TotpNewReq
  <2>5. ReqShaped'
    BY <2>3, <2>4 DEF ReqShaped, ReqShape
  <2>6. RowsShaped'
    BY <1>2, <2>2 DEF InsertTotp, RowsShaped
  <2> QED
    BY <1>2, <2>2, <2>5, <2>6 DEF InsertTotp, KeysShaped, RestShaped, keys
<1>3. CASE MarkProof(r)
  <2>1. req[r] \in TotpReq /\ Busy(r) /\ req[r].op = "totp"
    BY <1>3, ByPlace DEF MarkProof, TotpReq, Busy
  <2>2. ReqShaped'
    BY <1>3, <2>1, MovesOn DEF MarkProof
  <2>3. UNCHANGED <<rows, secretAt, pending, codeAt, clock, made, tries, tangled>>
    BY <1>3 DEF MarkProof, history
  <2>4. RowsShaped' /\ RestShaped'
    BY <2>3 DEF RowsShaped, RestShaped, rows
  <2>5. [cred |-> req[r].cred.id, step |-> req[r].step, at |-> clock]
          \in [cred : Nat, step : Nat, at : Nat]
    BY <2>1 DEF TotpReq, TotpShape, RestShaped
  <2>6. marks' \subseteq [cred : Nat, step : Nat, at : Nat]
    BY <1>3, <2>5 DEF MarkProof, MarkUsed, KeysShaped
  <2> QED BY <2>2, <2>3, <2>4, <2>6 DEF KeysShaped
<1>4. CASE DeleteSecret(r)
  <2>1. req[r] \in TotpReq /\ Busy(r) /\ req[r].op = "totp"
    BY <1>4, ByPlace DEF DeleteSecret, TotpReq, Busy
  <2>2. ReqShaped'
    BY <1>4, <2>1, MovesOn DEF DeleteSecret
  <2>3. secretAt' \in [Scopes -> Nat \cup {None}]
    BY <1>4 DEF DeleteSecret, KeysShaped
  <2> QED
    BY <1>4, <2>2, <2>3 DEF DeleteSecret, RowsShaped, KeysShaped, RestShaped, rows, history
<1>5. CASE ClaimStep(r)
  <2>1. req[r] \in ClaimReq
    BY <1>5, ByPlace DEF ClaimStep
  <2>2. ReqShaped'
    BY <1>5, Ends DEF ClaimStep
  <2>3. [cred |-> req[r].cred.id, step |-> req[r].step, at |-> clock]
          \in [cred : Nat, step : Nat, at : Nat]
    BY <2>1 DEF ClaimReq, TotpShape, RestShaped
  <2>4. marks' \subseteq [cred : Nat, step : Nat, at : Nat]
    BY <1>5, <2>3 DEF ClaimStep, MarkUsed, KeysShaped
  <2> QED
    BY <1>5, <2>2, <2>4 DEF ClaimStep, RowsShaped, KeysShaped, RestShaped, rows
<1>6. ASSUME NEW s \in Scopes, TotpBegin(r, s) PROVE Shaped'
  <2>1. ReqShaped'
    <3> DEFINE q == [op |-> "begin", pc |-> "claimSecret", scope |-> s, holds |-> {}]
    <3>1. Start(r, q)
      BY <1>6 DEF TotpBegin
    <3>2. q \in ReqShape
      BY Shapes, MayHold
    <3> HIDE DEF q
    <3> QED BY <3>1, <3>2, Starts
  <2> QED
    BY <1>6, <2>1 DEF TotpBegin, RowsShaped, KeysShaped, RestShaped, rows, keys, history
<1>7. ASSUME NEW s \in Scopes, NEW step \in Nat, TotpConfirm(r, s, step) PROVE Shaped'
  <2>1. secretAt[s] \in Nat
    BY <1>7 DEF TotpConfirm, KeysShaped
  <2>2. ReqShaped'
    <3> DEFINE q == [op |-> "totp", pc |-> "insertTotp", scope |-> s, secret |-> secretAt[s],
                    step |-> step, cred |-> None, seen |-> {},
                    holds |-> {<<"secret", secretAt[s]>>}]
    <3>1. Start(r, q)
      BY <1>7 DEF TotpConfirm
    <3>2. q \in ReqShape
      BY <2>1, Shapes, MayHold
    <3> HIDE DEF q
    <3> QED BY <3>1, <3>2, Starts
  <2>3. tangled' \in BOOLEAN
    BY <1>7 DEF TotpConfirm, Tangle
  <2> QED
    BY <1>7, <2>2, <2>3 DEF TotpConfirm, RowsShaped, KeysShaped, RestShaped, rows, keys
<1>8. ASSUME NEW c \in Kind("totp"), NEW step \in Nat, VerifyTotp(r, c.secret, step) PROVE Shaped'
  <2> DEFINE mine == {d \in Kind("totp") : d.secret = c.secret}
             first == CHOOSE a \in mine : \A d \in mine : a.id <= d.id
  <2>1. mine \in SUBSET TotpShape /\ mine # {} /\ c.secret \in Nat
    BY Kinds DEF TotpShape
  <2>2. first \in TotpShape
    BY <2>1, FirstRow
  <2> HIDE DEF first
  <2>3. clock \in Nat
    BY DEF RestShaped
  <2>4. ReqShaped'
    <3> DEFINE q == [op |-> "verify", pc |-> "claimStep", secret |-> c.secret, step |-> step,
                    cred |-> first, at |-> clock, holds |-> {<<"secret", c.secret>>}]
    <3>1. Start(r, q)
      BY <1>8 DEF VerifyTotp, first
    <3>2. q \in ReqShape
      BY <2>1, <2>2, <2>3, Shapes, MayHold
    <3> HIDE DEF q
    <3> QED BY <3>1, <3>2, Starts
  <2> QED
    BY <1>8, <2>4 DEF VerifyTotp, RowsShaped, KeysShaped, RestShaped, rows, keys
<1> QED BY <1>1, <1>2, <1>3, <1>4, <1>5, <1>6, <1>7, <1>8 DEF TotpStep

(* Codes by message.                                                        *)
LEMMA MessageShaped ==
    ASSUME SecondFactorsAssumption, Shaped, NEW r \in Requests, MessageStep(r)
    PROVE  Shaped'
<1> USE DEF Shaped
<1>1. CASE Switch(r)
  <2>1. req[r] \in SmsBeginReq /\ Busy(r) /\ req[r].op = "smsBegin"
    BY <1>1, ByPlace DEF Switch, SmsBeginReq, Busy
  <2>2. ReqShaped'
    BY <1>1, <2>1, MovesOn DEF Switch
  <2>3. codeAt' \in [Scopes -> [Purposes -> CodeShape \cup {None}]]
    BY <1>1 DEF Switch, KeysShaped
  <2> QED
    BY <1>1, <2>2, <2>3 DEF Switch, RowsShaped, KeysShaped, RestShaped, rows, history
<1>2. CASE NotePending(r)
  <2>1. req[r] \in SmsBeginReq /\ Busy(r) /\ req[r].op = "smsBegin"
    BY <1>2, ByPlace DEF NotePending, SmsBeginReq, Busy
  <2>2. ReqShaped'
    BY <1>2, <2>1, MovesOn DEF NotePending
  <2>3. pending' \in [Scopes -> Destinations \cup {None}]
    BY <1>2, <2>1 DEF NotePending, KeysShaped, SmsBeginReq
  <2> QED
    BY <1>2, <2>2, <2>3 DEF NotePending, RowsShaped, KeysShaped, RestShaped, rows, history
<1>3. CASE ClaimPause(r)
  <2>1. req[r] \in SmsBeginReq \cup SendReq /\ Busy(r)
    BY <1>3, ByPlace DEF ClaimPause, Busy
  <2>2. req[r] \in SmsBeginReq => req[r].op = "smsBegin"
    BY DEF SmsBeginReq
  <2>3. ReqShaped'
    BY <1>3, <2>1, <2>2, MovesOn, Ends DEF ClaimPause
  <2> QED
    BY <1>3, <2>3 DEF ClaimPause, RowsShaped, KeysShaped, RestShaped, rows, history
<1>4. CASE StoreCode(r)
  <2>1. req[r] \in SmsBeginReq \cup SendReq
    BY <1>4, ByPlace DEF StoreCode
  <2>2. req[r].to \in Destinations
    BY <2>1 DEF SmsBeginReq, SendReq
  <2>3. ReqShaped'
    BY <1>4, Ends DEF StoreCode
  <2>4. [n |-> made + 1, to |-> req[r].to, attempts |-> 0] \in CodeShape /\ made + 1 \in Nat
    BY <2>2 DEF CodeShape, RestShaped
  <2>5. CASE UNCHANGED <<codeAt, made, tries>>
    BY <1>4, <2>3, <2>5 DEF StoreCode, RowsShaped, KeysShaped, RestShaped, rows
  <2>6. CASE /\ made' = made + 1
             /\ codeAt' = [codeAt EXCEPT ![req[r].scope][req[r].purpose] =
                             [n |-> made + 1, to |-> req[r].to, attempts |-> 0]]
             /\ tries' = [n \in DOMAIN tries \cup {made + 1} |->
                            IF n = made + 1 THEN 0 ELSE tries[n]]
    <3>1. codeAt' \in [Scopes -> [Purposes -> CodeShape \cup {None}]]
      BY <2>4, <2>6 DEF KeysShaped
    <3>2. DOMAIN tries' \subseteq Nat /\ tries' \in [DOMAIN tries' -> Nat] /\ made' \in Nat
      BY <2>4, <2>6 DEF RestShaped
    <3> QED
      BY <1>4, <2>3, <3>1, <3>2 DEF StoreCode, RowsShaped, KeysShaped, RestShaped, rows
  <2> QED BY <1>4, <2>5, <2>6 DEF StoreCode
<1>5. CASE CheckGet(r)
  <2> DEFINE found == codeAt[req[r].scope][req[r].purpose]
  <2>1. req[r] \in SmsNewReq \cup CheckNewReq
    BY <1>5, ByPlace DEF CheckGet
  <2>2. req[r].scope \in Scopes /\ req[r].purpose \in Purposes
    BY <2>1 DEF SmsNewReq, CheckNewReq, Purposes
  <2>3. found \in CodeShape \cup {None}
    BY <2>2 DEF KeysShaped
  <2>4. ReqShaped'
    <3>1. CASE found = None
      BY <1>5, <3>1, Ends DEF CheckGet
    <3>2. CASE found # None
      <4> DEFINE q == [req[r] EXCEPT !.pc = "judge", !.copy = found,
                                     !.holds = {<<"message", found.n>>}]
      <4>1. req' = [req EXCEPT ![r] = q]
        BY <1>5, <3>2 DEF CheckGet, ReqShaped
      <4>2. found \in CodeShape /\ {<<"message", found.n>>} \in Holding
        BY <2>3, <3>2, MayHold DEF CodeShape
      <4> HIDE DEF found
      <4>3. q \in SmsReq \cup CheckReq
        <5>1. CASE req[r] \in SmsNewReq
          BY <4>2, <5>1 DEF SmsNewReq, SmsReq
        <5>2. CASE req[r] \in CheckNewReq
          BY <4>2, <5>2 DEF CheckNewReq, CheckReq
        <5> QED BY <2>1, <5>1, <5>2
      <4> HIDE DEF q
      <4> QED BY <4>1, <4>3 DEF ReqShaped, ReqShape
    <3> QED BY <3>1, <3>2
  <2> QED
    BY <1>5, <2>4 DEF CheckGet, RowsShaped, KeysShaped, RestShaped, rows, keys
<1>6. CASE Judge(r)
  <2> DEFINE q == req[r]
             counted == [q.copy EXCEPT !.attempts = @ + 1]
             after == IF q.n = q.copy.n \/ counted.attempts >= MaxOtpAttempts THEN None ELSE counted
  <2>1. q \in SmsReq \cup CheckReq /\ Busy(r)
    BY <1>6, ByPlace DEF Judge, Busy
  <2>2. /\ q.scope \in Scopes /\ q.purpose \in Purposes /\ q.copy \in CodeShape
        /\ q.op = "sms" <=> q \in SmsReq
    BY <2>1 DEF SmsReq, CheckReq, Purposes
  <2>3. ReqShaped'
    <3>1. CASE Finished(r)
      BY <3>1, Ends
    <3>2. CASE q.op = "sms" /\ Goto(r, "insertSms")
      BY <2>1, <2>2, <3>2, MovesOn
    <3> QED BY <1>6, <3>1, <3>2 DEF Judge
  <2>4. counted \in CodeShape
    BY <2>2 DEF CodeShape
  <2>5. codeAt' = [codeAt EXCEPT ![q.scope][q.purpose] = after]
    BY <1>6 DEF Judge
  <2>6. after \in CodeShape \cup {None}
    BY <2>4
  <2> HIDE DEF after
  <2>7. KeysShaped'
    <3>1. codeAt' \in [Scopes -> [Purposes -> CodeShape \cup {None}]]
      BY <2>5, <2>6 DEF KeysShaped
    <3>2. UNCHANGED <<secretAt, pending, marks>>
      BY <1>6 DEF Judge
    <3> QED BY <3>1, <3>2 DEF KeysShaped
  <2>8. DOMAIN tries' \subseteq Nat /\ tries' \in [DOMAIN tries' -> Nat]
    BY <1>6 DEF Judge, RestShaped
  <2> QED
    BY <1>6, <2>3, <2>7, <2>8 DEF Judge, RowsShaped, RestShaped, rows
<1>7. CASE InsertSms(r)
  <2>1. req[r] \in SmsReq /\ Busy(r)
    BY <1>7, ByPlace DEF InsertSms, Busy
  <2>2. ReqShaped'
    BY <1>7, <2>1, MovesOn DEF InsertSms
  <2>3. Sms(made + 1, req[r].scope, req[r].to, req[r].copy.to) \in SmsShape /\ made' \in Nat
    BY <1>7, <2>1 DEF InsertSms, RestShaped, SmsReq, SmsShape, CodeShape, Sms
  <2>4. RowsShaped'
    BY <1>7, <2>3 DEF InsertSms, RowsShaped
  <2> QED
    BY <1>7, <2>2, <2>3, <2>4 DEF InsertSms, KeysShaped, RestShaped, keys, history
<1>8. CASE DeletePending(r)
  <2>1. req[r] \in SmsReq /\ Busy(r)
    BY <1>8, ByPlace DEF DeletePending, Busy
  <2>2. ReqShaped'
    BY <1>8, <2>1, MovesOn DEF DeletePending
  <2>3. pending' \in [Scopes -> Destinations \cup {None}]
    BY <1>8 DEF DeletePending, KeysShaped
  <2> QED
    BY <1>8, <2>2, <2>3 DEF DeletePending, RowsShaped, KeysShaped, RestShaped, rows
<1>9. CASE MarkVerified(r)
  <2>1. req[r] \in SmsReq /\ Busy(r)
    BY <1>9, ByPlace DEF MarkVerified, Busy
  <2>2. ReqShaped'
    BY <1>9, <2>1, MovesOn DEF MarkVerified
  <2>3. phone' \in Destinations
    BY <1>9, <2>1 DEF MarkVerified, SmsReq
  <2> QED
    BY <1>9, <2>2, <2>3 DEF MarkVerified, RowsShaped, KeysShaped, RestShaped, keys, history
<1>10. ASSUME NEW s \in Scopes, SendCode(r, s) PROVE Shaped'
  <2>1. ReqShaped'
    <3> DEFINE q == [op |-> "send", pc |-> "pause", scope |-> s, purpose |-> "verify",
                     to |-> phone, holds |-> {}]
    <3>1. Start(r, q) /\ phone \in Destinations
      BY <1>10 DEF SendCode, RowsShaped
    <3>2. q \in ReqShape
      BY <3>1, Shapes, MayHold
    <3> HIDE DEF q
    <3> QED BY <3>1, <3>2, Starts
  <2> QED
    BY <1>10, <2>1 DEF SendCode, RowsShaped, KeysShaped, RestShaped, rows, keys, history
<1>11. ASSUME NEW s \in Scopes, NEW d \in Destinations, SmsBegin(r, s, d) PROVE Shaped'
  <2>1. ReqShaped'
    <3> DEFINE q == [op |-> "smsBegin", pc |-> "switch", scope |-> s, purpose |-> "enrol",
                     to |-> d, previous |-> pending[s], holds |-> {}]
    <3>1. Start(r, q) /\ pending[s] \in Destinations \cup {None}
      BY <1>11 DEF SmsBegin, KeysShaped
    <3>2. q \in ReqShape
      BY <3>1, Shapes, MayHold
    <3> HIDE DEF q
    <3> QED BY <3>1, <3>2, Starts
  <2> QED
    BY <1>11, <2>1 DEF SmsBegin, RowsShaped, KeysShaped, RestShaped, rows, keys
<1>12. ASSUME NEW s \in Scopes, NEW n \in Typed, SmsConfirm(r, s, n) PROVE Shaped'
  <2>1. ReqShaped'
    <3> DEFINE q == [op |-> "sms", pc |-> "check", scope |-> s, purpose |-> "enrol", n |-> n,
                     to |-> pending[s], copy |-> None, seen |-> {}, holds |-> {}]
    <3>1. Start(r, q) /\ pending[s] \in Destinations /\ n \in Nat
      BY <1>12 DEF SmsConfirm, KeysShaped, RestShaped, Typed
    <3>2. q \in ReqShape
      BY <3>1, Shapes, MayHold
    <3> HIDE DEF q
    <3> QED BY <3>1, <3>2, Starts
  <2>2. tangled' \in BOOLEAN
    BY <1>12 DEF SmsConfirm, Tangle
  <2> QED
    BY <1>12, <2>1, <2>2 DEF SmsConfirm, RowsShaped, KeysShaped, RestShaped, rows, keys
<1>13. ASSUME NEW s \in Scopes, NEW n \in Typed, SmsVerify(r, s, n) PROVE Shaped'
  <2>1. ReqShaped'
    <3> DEFINE q == [op |-> "verify", pc |-> "check", scope |-> s, purpose |-> "verify",
                     n |-> n, to |-> None, copy |-> None, holds |-> {}]
    <3>1. Start(r, q) /\ n \in Nat
      BY <1>13 DEF SmsVerify, RestShaped, Typed
    <3>2. q \in ReqShape
      BY <3>1, Shapes, MayHold
    <3> HIDE DEF q
    <3> QED BY <3>1, <3>2, Starts
  <2> QED
    BY <1>13, <2>1 DEF SmsVerify, RowsShaped, KeysShaped, RestShaped, rows, keys, history
<1> QED
  BY <1>1, <1>2, <1>3, <1>4, <1>5, <1>6, <1>7, <1>8, <1>9, <1>10, <1>11, <1>12, <1>13
  DEF MessageStep

(* Time, and requests that die.                                             *)
LEMMA TimeShaped ==
    ASSUME SecondFactorsAssumption, Shaped,
           Tick \/ (\E s \in Scopes : Lapse(s)) \/ (\E r \in Requests : Die(r))
    PROVE  Shaped'
<1> USE DEF Shaped
<1>1. CASE Tick
  <2>1. marks' \subseteq marks /\ clock' \in Nat
    BY <1>1 DEF Tick, RestShaped
  <2> QED
    BY <1>1, <2>1 DEF Tick, RowsShaped, KeysShaped, RestShaped, ReqShaped, rows, history
<1>2. ASSUME NEW s \in Scopes, Lapse(s) PROVE Shaped'
  <2>1. /\ secretAt' \in {secretAt, [secretAt EXCEPT ![s] = None]}
        /\ pending' \in {pending, [pending EXCEPT ![s] = None]}
        /\ codeAt' = codeAt \/ \E p \in Purposes : codeAt' = [codeAt EXCEPT ![s][p] = None]
    BY <1>2 DEF Lapse
  <2>2. secretAt' \in [Scopes -> Nat \cup {None}]
    BY <2>1 DEF KeysShaped
  <2>3. pending' \in [Scopes -> Destinations \cup {None}]
    BY <2>1 DEF KeysShaped
  <2>4. codeAt' \in [Scopes -> [Purposes -> CodeShape \cup {None}]]
    <3>1. codeAt \in [Scopes -> [Purposes -> CodeShape \cup {None}]]
      BY DEF KeysShaped
    <3>2. ASSUME NEW p \in Purposes, codeAt' = [codeAt EXCEPT ![s][p] = None]
          PROVE  codeAt' \in [Scopes -> [Purposes -> CodeShape \cup {None}]]
      BY <3>1, <3>2
    <3> QED BY <2>1, <3>1, <3>2
  <2> QED
    BY <1>2, <2>2, <2>3, <2>4 DEF Lapse, RowsShaped, KeysShaped, RestShaped, ReqShaped, rows
<1>3. ASSUME NEW r \in Requests, Die(r) PROVE Shaped'
  <2>1. ReqShaped'
    BY <1>3, Ends DEF Die
  <2> QED
    BY <1>3, <2>1 DEF Die, RowsShaped, KeysShaped, RestShaped, rows, keys
<1> QED BY <1>1, <1>2, <1>3

(* The types hold to begin with.                                            *)
LEMMA InitShaped == ASSUME SecondFactorsAssumption, Init PROVE Shaped
<1>1. RowsShaped
  <2>1. PICK d \in Destinations, held \in InitiallyHeld :
          /\ creds = {c \in {Totp(1, 1), Sms(2, None, d, d)} : c.kind \in held}
          /\ sets = [k \in IF held = {} THEN {} ELSE {3} |-> Codes]
          /\ phone = IF "sms" \in held THEN d ELSE None
    BY DEF Init
  <2>2. Totp(1, 1) \in TotpShape /\ Sms(2, None, d, d) \in SmsShape
    BY DEF Totp, Sms, TotpShape, SmsShape
  <2>3. DOMAIN sets \subseteq Nat /\ sets \in [DOMAIN sets -> SUBSET Codes]
    BY <2>1
  <2> QED BY <2>1, <2>2, <2>3 DEF RowsShaped
<1>2. KeysShaped
  BY DEF Init, KeysShaped
<1>3. RestShaped
  BY DEF Init, RestShaped
<1>4. ReqShaped
  BY DEF Init, ReqShaped, ReqShape
<1> QED BY <1>1, <1>2, <1>3, <1>4 DEF Shaped

(* So does every step keep them.                                            *)
LEMMA NextShaped == ASSUME SecondFactorsAssumption, Shaped, [Next]_vars PROVE Shaped'
<1> SUFFICES ASSUME Next PROVE Shaped'
  BY DEF vars, rows, keys, history, Shaped, RowsShaped, KeysShaped, RestShaped, ReqShaped
<1> QED BY Steps, RecoveryShaped, TotpShaped, MessageShaped, TimeShaped

-----------------------------------------------------------------------------
(* Recovery codes go with the last factor.                                  *)

(* A step of a request that neither begins nor completes a change.          *)
LEMMA FactorFrame ==
    ASSUME FactorInv, NEW r \in Requests,
           creds' = creds, DOMAIN sets' # {} => DOMAIN sets # {} \/ creds # {}, tangled' = tangled,
           \A p \in Requests \ {r} : req'[p] = req[p],
           req'[r].pc \in Enrolled => req[r].pc \in Enrolled,
           req'[r].pc = "remove" => req'[r] = req[r],
           req'[r].pc # "idle" /\ req'[r].op \in Changes => Busy(r) /\ req[r].op \in Changes
    PROVE  FactorInv'
<1> SUFFICES ASSUME ~ tangled PROVE FactorInv'
  BY DEF FactorInv
<1>1. /\ DOMAIN sets # {} => creds # {}
      /\ \A p \in Requests : req[p].pc \in Enrolled => creds # {}
      /\ \A p \in Requests : req[p].pc = "remove" =>
           /\ req[p].others \subseteq creds /\ req[p].cred \notin req[p].others
           /\ \A o \in Requests \ {p} : ~ (Busy(o) /\ req[o].op \in Changes)
  BY DEF FactorInv
<1>2. DOMAIN sets' # {} => creds' # {}
  BY <1>1
<1>3. \A p \in Requests : req'[p].pc \in Enrolled => creds' # {}
  BY <1>1
<1>4. ASSUME NEW p \in Requests, req'[p].pc = "remove"
      PROVE  /\ req'[p].others \subseteq creds' /\ req'[p].cred \notin req'[p].others
             /\ \A o \in Requests \ {p} : ~ (req'[o].pc # "idle" /\ req'[o].op \in Changes)
  <2>1. req'[p] = req[p]
    BY <1>4
  <2> QED BY <1>1, <1>4, <2>1 DEF Busy
<1> QED BY <1>2, <1>3, <1>4 DEF FactorInv, Busy

(* A step of no request.                                                    *)
LEMMA FactorStill ==
    ASSUME FactorInv, creds' = creds, sets' = sets, tangled' = tangled, req' = req
    PROVE  FactorInv'
  BY DEF FactorInv, Busy

(* Who begins a change beside a removal tangles them.                       *)
LEMMA Untangled ==
    ASSUME ReqShaped, NEW r \in Requests, NEW op, Tangle(r, op), ~ tangled'
    PROVE  /\ ~ tangled
           /\ \A p \in Requests \ {r} : Busy(p) /\ req[p].op = "remove" => op \notin Changes
           /\ op = "remove" => \A p \in Requests \ {r} : ~ (Busy(p) /\ req[p].op \in Changes)
  BY DEF Tangle, Changing, Others, Changes

(* A change of another kind than a removal begins.                          *)
LEMMA FactorBegin ==
    ASSUME ReqShaped, FactorInv, NEW r \in Requests, NEW q, Start(r, q),
           NEW op \in {"totp", "sms", "regenerate"}, Tangle(r, op),
           creds' = creds, sets' = sets, q.pc # "remove", q.pc \in Enrolled => creds # {}
    PROVE  FactorInv'
<1> SUFFICES ASSUME ~ tangled' PROVE FactorInv'
  BY DEF FactorInv
<1>1. /\ ~ tangled
      /\ \A p \in Requests \ {r} : ~ (Busy(p) /\ req[p].op = "remove")
  BY Untangled DEF Changes
<1>2. /\ DOMAIN sets # {} => creds # {}
      /\ \A p \in Requests : req[p].pc \in Enrolled => creds # {}
  BY <1>1 DEF FactorInv
<1>3. req'[r] = q /\ \A p \in Requests \ {r} : req'[p] = req[p]
  BY Starts
<1>4. \A p \in Requests : req'[p].pc \in Enrolled => creds' # {}
  BY <1>2, <1>3
<1>5. ASSUME NEW p \in Requests, req'[p].pc = "remove" PROVE FALSE
  <2>1. p # r /\ req[p].pc = "remove"
    BY <1>3, <1>5
  <2>2. Busy(p) /\ req[p].op = "remove"
    BY <2>1, ByPlace DEF Busy, RemoveReq
  <2> QED BY <1>1, <2>1, <2>2
<1> QED BY <1>2, <1>4, <1>5 DEF FactorInv

(* A change of another kind adds a factor.                                  *)
LEMMA FactorAdd ==
    ASSUME ReqShaped, FactorInv, NEW r \in Requests, Busy(r), req[r].op \in {"totp", "sms"},
           NEW c, creds' = creds \cup {c}, sets' = sets, tangled' = tangled,
           \A p \in Requests \ {r} : req'[p] = req[p], req'[r].pc # "remove"
    PROVE  FactorInv'
<1> SUFFICES ASSUME ~ tangled PROVE FactorInv'
  BY DEF FactorInv
<1>1. ASSUME NEW p \in Requests, req'[p].pc = "remove" PROVE FALSE
  <2>1. p # r /\ req[p].pc = "remove"
    BY <1>1
  <2>2. ~ (Busy(r) /\ req[r].op \in Changes)
    BY <2>1 DEF FactorInv
  <2> QED BY <2>2 DEF Changes
<1>2. creds' # {}
  OBVIOUS
<1> QED BY <1>1, <1>2 DEF FactorInv

(* The recovery-code steps.                                                 *)
LEMMA FactorRecovery ==
    ASSUME SecondFactorsAssumption, Shaped, FactorInv, NEW r \in Requests, RecoveryStep(r)
    PROVE  FactorInv'
<1> USE DEF Shaped
<1>1. CASE RegenDelete(r)
  <2>1. req[r] \in RegenerateReq \cup TotpReq \cup SmsReq /\ req[r].pc = "regen"
    BY <1>1, ByPlace DEF RegenDelete
  <2>2. /\ req'[r] = [req[r] EXCEPT !.pc = "insertSet", !.seen = DOMAIN sets]
        /\ \A p \in Requests \ {r} : req'[p] = req[p]
    BY <1>1 DEF RegenDelete, ReqShaped
  <2>3. req'[r].pc = "insertSet" /\ req[r].op \in Changes
    <3>1. CASE req[r] \in RegenerateReq
      BY <2>2, <3>1 DEF RegenerateReq, Changes
    <3>2. CASE req[r] \in TotpReq
      BY <2>2, <3>2 DEF TotpReq, Changes
    <3>3. CASE req[r] \in SmsReq
      BY <2>2, <3>3 DEF SmsReq, Changes
    <3> QED BY <2>1, <3>1, <3>2, <3>3
  <2>4. UNCHANGED <<creds, sets, tangled>>
    BY <1>1 DEF RegenDelete, rows, history
  <2>5. req[r].pc \in Enrolled /\ Busy(r)
    BY <2>1 DEF Enrolled, Busy
  <2> QED BY <2>2, <2>3, <2>4, <2>5, FactorFrame
<1>2. CASE RegenInsert(r)
  <2>1. req'[r].pc = "idle" /\ \A p \in Requests \ {r} : req'[p] = req[p]
    BY <1>2, Ends DEF RegenInsert
  <2>2. UNCHANGED <<creds, tangled>>
    BY <1>2 DEF RegenInsert, history
  <2>3. tangled \/ creds # {}
    BY <1>2 DEF RegenInsert, FactorInv, Enrolled
  <2>4. CASE tangled
    BY <2>2, <2>4 DEF FactorInv
  <2>5. CASE creds # {}
    BY <2>1, <2>2, <2>5, FactorFrame DEF Enrolled
  <2> QED BY <2>3, <2>4, <2>5
<1>3. CASE FirstCodes(r)
  <2>1. req[r] \in SmsReq /\ Busy(r) /\ req[r].op = "sms" /\ req[r].pc \in Enrolled
    BY <1>3, ByPlace DEF FirstCodes, SmsReq, Busy, Enrolled
  <2>2. /\ req'[r].pc \in {"idle", "regen"}
        /\ \A p \in Requests \ {r} : req'[p] = req[p]
    BY <1>3, <2>1, Ends, MovesOn DEF FirstCodes
  <2>3. UNCHANGED <<creds, sets, tangled>>
    BY <1>3 DEF FirstCodes, rows, history
  <2> QED BY <2>1, <2>2, <2>3, FactorFrame DEF Changes
<1>4. CASE Regenerate(r)
  <2> DEFINE q == [op |-> "regenerate", pc |-> "regen", seen |-> {}, holds |-> {}]
  <2>1. Start(r, q) /\ Tangle(r, "regenerate") /\ creds # {} /\ UNCHANGED <<creds, sets>>
    BY <1>4 DEF Regenerate, rows
  <2>2. q.pc # "remove"
    OBVIOUS
  <2> HIDE DEF q
  <2> QED BY <2>1, <2>2, FactorBegin
<1>5. CASE UseRecovery(r)
  <2>1. req'[r].pc = "idle" /\ \A p \in Requests \ {r} : req'[p] = req[p]
    BY <1>5, Ends DEF UseRecovery
  <2>2. UNCHANGED <<creds, tangled>> /\ DOMAIN sets' = DOMAIN sets
    BY <1>5 DEF UseRecovery
  <2> QED BY <2>1, <2>2, FactorFrame DEF Enrolled
<1>6. CASE RemoveCommit(r)
  <2> SUFFICES ASSUME ~ tangled PROVE FactorInv'
    BY <1>6 DEF FactorInv, RemoveCommit, history
  <2>1. req'[r] = Idle /\ req'[r].pc = "idle" /\ \A p \in Requests \ {r} : req'[p] = req[p]
    BY <1>6, Ends DEF RemoveCommit
  <2>2. /\ req[r].others \subseteq creds /\ req[r].cred \notin req[r].others
        /\ \A p \in Requests \ {r} : ~ (Busy(p) /\ req[p].op \in Changes)
    BY <1>6 DEF RemoveCommit, FactorInv
  <2>3. /\ creds' = creds \ {req[r].cred}
        /\ sets' = IF req[r].others = {} THEN [k \in {} |-> {}] ELSE sets
    BY <1>6 DEF RemoveCommit
  <2>4. req[r].others # {} => creds' # {}
    BY <2>2, <2>3
  <2>5. DOMAIN sets' # {} => creds' # {}
    BY <2>3, <2>4
  <2>6. ASSUME NEW p \in Requests, req'[p].pc \in Enrolled \cup {"remove"} PROVE FALSE
    <3>1. p # r /\ req[p].pc \in Enrolled \cup {"remove"}
      BY <2>1, <2>6 DEF Enrolled
    <3>2. Busy(p) /\ req[p] \in RegenerateReq \cup TotpReq \cup SmsReq \cup RemoveReq
      BY <3>1, ByPlace DEF Enrolled, Busy
    <3>3. req[p].op \in Changes
      <4>1. req[p] \in RegenerateReq => req[p].op = "regenerate"
        BY DEF RegenerateReq
      <4>2. req[p] \in TotpReq => req[p].op = "totp"
        BY DEF TotpReq
      <4>3. req[p] \in SmsReq => req[p].op = "sms"
        BY DEF SmsReq
      <4>4. req[p] \in RemoveReq => req[p].op = "remove"
        BY DEF RemoveReq
      <4> QED BY <3>2, <4>1, <4>2, <4>3, <4>4 DEF Changes
    <3> QED BY <2>2, <3>1, <3>2, <3>3
  <2> QED BY <2>5, <2>6 DEF FactorInv
<1>7. ASSUME NEW k \in DOMAIN sets, NEW code \in Codes, VerifyRecovery(r, k, code)
      PROVE  FactorInv'
  <2> DEFINE q == [op |-> "recovery", pc |-> "use", set |-> k, code |-> code,
                   left |-> sets[k] \ {code}, holds |-> {<<"set", k>>}]
  <2>1. Start(r, q) /\ UNCHANGED <<creds, sets, tangled>>
    BY <1>7 DEF VerifyRecovery, rows
  <2>2. q.pc = "use" /\ q.op = "recovery"
    OBVIOUS
  <2> HIDE DEF q
  <2>3. req'[r] = q /\ \A p \in Requests \ {r} : req'[p] = req[p]
    BY <2>1, Starts
  <2> QED BY <2>1, <2>2, <2>3, FactorFrame DEF Enrolled, Changes
<1>8. ASSUME NEW c \in creds, Remove(r, c) PROVE FactorInv'
  <2> SUFFICES ASSUME ~ tangled' PROVE FactorInv'
    BY DEF FactorInv
  <2> DEFINE q == [op |-> "remove", pc |-> "remove", cred |-> c, others |-> creds \ {c},
                   holds |-> {}]
  <2>1. Start(r, q) /\ Tangle(r, "remove") /\ UNCHANGED <<creds, sets>>
    BY <1>8 DEF Remove, rows
  <2>2. q.pc = "remove" /\ q.cred = c /\ q.others = creds \ {c}
    OBVIOUS
  <2> HIDE DEF q
  <2>3. req'[r] = q /\ \A p \in Requests \ {r} : req'[p] = req[p]
    BY <2>1, Starts
  <2>4. ~ tangled /\ \A p \in Requests \ {r} : ~ (Busy(p) /\ req[p].op \in Changes)
    BY <2>1, Untangled
  <2>5. /\ DOMAIN sets # {} => creds # {}
        /\ \A p \in Requests : req[p].pc \in Enrolled => creds # {}
    BY <2>4 DEF FactorInv
  <2>6. \A p \in Requests : req'[p].pc \in Enrolled => creds' # {}
    BY <2>1, <2>2, <2>3, <2>5 DEF Enrolled
  <2>7. ASSUME NEW p \in Requests, req'[p].pc = "remove" PROVE p = r
    <3> SUFFICES ASSUME p # r PROVE FALSE
      OBVIOUS
    <3>1. req[p].pc = "remove"
      BY <2>3, <2>7
    <3>2. Busy(p) /\ req[p].op \in Changes
      BY <3>1, ByPlace DEF Busy, RemoveReq, Changes
    <3> QED BY <2>4, <3>2
  <2>8. /\ req'[r].others \subseteq creds' /\ req'[r].cred \notin req'[r].others
        /\ \A p \in Requests \ {r} : ~ (req'[p].pc # "idle" /\ req'[p].op \in Changes)
    BY <2>1, <2>2, <2>3, <2>4 DEF Busy
  <2> QED BY <2>1, <2>5, <2>6, <2>7, <2>8 DEF FactorInv, Busy
<1> QED BY <1>1, <1>2, <1>3, <1>4, <1>5, <1>6, <1>7, <1>8 DEF RecoveryStep

(* The steps of authenticator apps.                                         *)
LEMMA FactorTotp ==
    ASSUME SecondFactorsAssumption, Shaped, FactorInv, NEW r \in Requests, TotpStep(r)
    PROVE  FactorInv'
<1> USE DEF Shaped
<1>1. CASE ClaimSecret(r) \/ ClaimStep(r)
  <2>1. req'[r].pc = "idle" /\ \A p \in Requests \ {r} : req'[p] = req[p]
    BY <1>1, Ends DEF ClaimSecret, ClaimStep
  <2>2. UNCHANGED <<creds, sets, tangled>>
    BY <1>1 DEF ClaimSecret, ClaimStep, rows, history
  <2> QED BY <2>1, <2>2, FactorFrame DEF Enrolled
<1>2. CASE InsertTotp(r)
  <2>1. req[r] \in TotpNewReq /\ Busy(r)
    BY <1>2, ByPlace DEF InsertTotp, Busy
  <2>2. /\ req'[r] = [req[r] EXCEPT !.pc = "mark", !.cred = Totp(made + 1, req[r].secret)]
        /\ \A p \in Requests \ {r} : req'[p] = req[p]
    BY <1>2 DEF InsertTotp, ReqShaped
  <2>3. req'[r].pc = "mark" /\ req[r].op = "totp"
    BY <2>1, <2>2 DEF TotpNewReq
  <2>4. /\ creds' = creds \cup {Totp(made + 1, req[r].secret)}
        /\ UNCHANGED <<sets, tangled>>
    BY <1>2 DEF InsertTotp
  <2> QED BY <2>1, <2>2, <2>3, <2>4, FactorAdd
<1>3. CASE MarkProof(r) \/ DeleteSecret(r)
  <2>1. req[r] \in TotpReq /\ Busy(r) /\ req[r].op = "totp" /\ req[r].pc \in Enrolled
    BY <1>3, ByPlace DEF MarkProof, DeleteSecret, TotpReq, Busy, Enrolled
  <2>2. /\ req'[r].pc \in {"deleteSecret", "regen"}
        /\ \A p \in Requests \ {r} : req'[p] = req[p]
    BY <1>3, <2>1, MovesOn DEF MarkProof, DeleteSecret
  <2>3. UNCHANGED <<creds, sets, tangled>>
    BY <1>3 DEF MarkProof, DeleteSecret, rows, history
  <2> QED BY <2>1, <2>2, <2>3, FactorFrame DEF Changes
<1>4. ASSUME NEW s \in Scopes, TotpBegin(r, s) PROVE FactorInv'
  <2> DEFINE q == [op |-> "begin", pc |-> "claimSecret", scope |-> s, holds |-> {}]
  <2>1. Start(r, q) /\ UNCHANGED <<creds, sets, tangled>>
    BY <1>4 DEF TotpBegin, rows, history
  <2>2. q.pc = "claimSecret" /\ q.op = "begin"
    OBVIOUS
  <2> HIDE DEF q
  <2>3. req'[r] = q /\ \A p \in Requests \ {r} : req'[p] = req[p]
    BY <2>1, Starts
  <2> QED BY <2>1, <2>2, <2>3, FactorFrame DEF Enrolled, Changes
<1>5. ASSUME NEW s \in Scopes, NEW step \in Nat, TotpConfirm(r, s, step) PROVE FactorInv'
  <2> DEFINE q == [op |-> "totp", pc |-> "insertTotp", scope |-> s, secret |-> secretAt[s],
                   step |-> step, cred |-> None, seen |-> {},
                   holds |-> {<<"secret", secretAt[s]>>}]
  <2>1. Start(r, q) /\ Tangle(r, "totp") /\ UNCHANGED <<creds, sets>>
    BY <1>5 DEF TotpConfirm, rows
  <2>2. q.pc = "insertTotp"
    OBVIOUS
  <2> HIDE DEF q
  <2> QED BY <2>1, <2>2, FactorBegin DEF Enrolled
<1>6. ASSUME NEW c \in Kind("totp"), NEW step \in Nat, VerifyTotp(r, c.secret, step)
      PROVE  FactorInv'
  <2> DEFINE mine == {d \in Kind("totp") : d.secret = c.secret}
             first == CHOOSE a \in mine : \A d \in mine : a.id <= d.id
             q == [op |-> "verify", pc |-> "claimStep", secret |-> c.secret, step |-> step,
                   cred |-> first, at |-> clock, holds |-> {<<"secret", c.secret>>}]
  <2>1. Start(r, q) /\ UNCHANGED <<creds, sets, tangled>>
    BY <1>6 DEF VerifyTotp, rows
  <2> HIDE DEF first
  <2>2. q.pc = "claimStep" /\ q.op = "verify"
    OBVIOUS
  <2> HIDE DEF q
  <2>3. req'[r] = q /\ \A p \in Requests \ {r} : req'[p] = req[p]
    BY <2>1, Starts
  <2> QED BY <2>1, <2>2, <2>3, FactorFrame DEF Enrolled, Changes
<1> QED BY <1>1, <1>2, <1>3, <1>4, <1>5, <1>6 DEF TotpStep

(* The steps of codes by message.                                           *)
LEMMA FactorMessage ==
    ASSUME SecondFactorsAssumption, Shaped, FactorInv, NEW r \in Requests, MessageStep(r)
    PROVE  FactorInv'
<1> USE DEF Shaped
<1>1. CASE Switch(r) \/ NotePending(r) \/ ClaimPause(r) \/ StoreCode(r)
  <2>1. req[r] \in SmsBeginReq \cup SendReq /\ Busy(r)
    BY <1>1, ByPlace DEF Switch, NotePending, ClaimPause, StoreCode, Busy
  <2>2. req[r] \in SmsBeginReq => req[r].op = "smsBegin"
    BY DEF SmsBeginReq
  <2>3. \A p \in Requests \ {r} : req'[p] = req[p]
    BY <1>1, <2>1, MovesOn, Ends DEF Switch, NotePending, ClaimPause, StoreCode
  <2>4. \/ req'[r].pc = "idle"
        \/ req'[r].pc \in {"note", "pause", "send"} /\ req'[r].op \in {"smsBegin", "send"}
    BY <1>1, <2>1, <2>2, MovesOn, Ends DEF Switch, NotePending, ClaimPause, StoreCode
  <2>5. UNCHANGED <<creds, sets, tangled>>
    BY <1>1 DEF Switch, NotePending, ClaimPause, StoreCode, rows, history
  <2> QED BY <2>3, <2>4, <2>5, FactorFrame DEF Enrolled, Changes
<1>2. CASE CheckGet(r)
  <2> DEFINE found == codeAt[req[r].scope][req[r].purpose]
  <2>1. req[r] \in SmsNewReq \cup CheckNewReq /\ Busy(r)
    BY <1>2, ByPlace DEF CheckGet, Busy
  <2>2. /\ \A p \in Requests \ {r} : req'[p] = req[p]
        /\ \/ req'[r].pc = "idle"
           \/ req'[r] = [req[r] EXCEPT !.pc = "judge", !.copy = found,
                                       !.holds = {<<"message", found.n>>}]
    <3>1. CASE found = None
      BY <1>2, <3>1, Ends DEF CheckGet
    <3>2. CASE found # None
      BY <1>2, <3>2 DEF CheckGet, ReqShaped
    <3> QED BY <3>1, <3>2
  <2> HIDE DEF found
  <2>3. req'[r].pc = "idle" \/ (req'[r].pc = "judge" /\ req'[r].op = req[r].op)
    BY <2>1, <2>2 DEF SmsNewReq, CheckNewReq
  <2>4. UNCHANGED <<creds, sets, tangled>>
    BY <1>2 DEF CheckGet, rows
  <2> QED BY <2>1, <2>2, <2>3, <2>4, FactorFrame DEF Enrolled
<1>3. CASE Judge(r)
  <2>1. req[r] \in SmsReq \cup CheckReq /\ Busy(r) /\ (req[r] \in CheckReq => req[r].op = "verify")
    BY <1>3, ByPlace DEF Judge, Busy, CheckReq
  <2>2. Finished(r) \/ (Goto(r, "insertSms") /\ req[r] \in SmsReq /\ req[r].op = "sms")
    BY <1>3, <2>1 DEF Judge
  <2>3. /\ \A p \in Requests \ {r} : req'[p] = req[p]
        /\ req'[r].pc = "idle" \/ (req'[r].pc = "insertSms" /\ req'[r].op = req[r].op)
    <3>1. CASE Finished(r)
      BY <3>1, Ends
    <3>2. CASE Goto(r, "insertSms") /\ req[r] \in SmsReq /\ req[r].op = "sms"
      BY <2>1, <3>2, MovesOn
    <3> QED BY <2>2, <3>1, <3>2
  <2>4. UNCHANGED <<creds, sets, tangled>>
    BY <1>3 DEF Judge, rows
  <2> QED BY <2>1, <2>3, <2>4, FactorFrame DEF Enrolled
<1>4. CASE InsertSms(r)
  <2>1. req[r] \in SmsReq /\ Busy(r) /\ req[r].op = "sms"
    BY <1>4, ByPlace DEF InsertSms, Busy, SmsReq
  <2>2. req'[r].pc = "deletePending" /\ \A p \in Requests \ {r} : req'[p] = req[p]
    BY <1>4, <2>1, MovesOn DEF InsertSms
  <2>3. /\ creds' = creds \cup {Sms(made + 1, req[r].scope, req[r].to, req[r].copy.to)}
        /\ UNCHANGED <<sets, tangled>>
    BY <1>4 DEF InsertSms, history
  <2> QED BY <2>1, <2>2, <2>3, FactorAdd
<1>5. CASE DeletePending(r) \/ MarkVerified(r)
  <2>1. req[r] \in SmsReq /\ Busy(r) /\ req[r].op = "sms" /\ req[r].pc \in Enrolled
    BY <1>5, ByPlace DEF DeletePending, MarkVerified, Busy, SmsReq, Enrolled
  <2>2. /\ req'[r].pc \in {"verified", "first"}
        /\ \A p \in Requests \ {r} : req'[p] = req[p]
    BY <1>5, <2>1, MovesOn DEF DeletePending, MarkVerified
  <2>3. UNCHANGED <<creds, sets, tangled>>
    BY <1>5 DEF DeletePending, MarkVerified, rows, history
  <2> QED BY <2>1, <2>2, <2>3, FactorFrame DEF Changes
<1>6. ASSUME NEW s \in Scopes, SendCode(r, s) PROVE FactorInv'
  <2> DEFINE q == [op |-> "send", pc |-> "pause", scope |-> s, purpose |-> "verify",
                   to |-> phone, holds |-> {}]
  <2>1. Start(r, q) /\ UNCHANGED <<creds, sets, tangled>>
    BY <1>6 DEF SendCode, rows, history
  <2>2. q.pc = "pause" /\ q.op = "send"
    OBVIOUS
  <2> HIDE DEF q
  <2>3. req'[r] = q /\ \A p \in Requests \ {r} : req'[p] = req[p]
    BY <2>1, Starts
  <2> QED BY <2>1, <2>2, <2>3, FactorFrame DEF Enrolled, Changes
<1>7. ASSUME NEW s \in Scopes, NEW d \in Destinations, SmsBegin(r, s, d) PROVE FactorInv'
  <2> DEFINE q == [op |-> "smsBegin", pc |-> "switch", scope |-> s, purpose |-> "enrol",
                   to |-> d, previous |-> pending[s], holds |-> {}]
  <2>1. Start(r, q) /\ UNCHANGED <<creds, sets, tangled>>
    BY <1>7 DEF SmsBegin, rows
  <2>2. q.pc = "switch" /\ q.op = "smsBegin"
    OBVIOUS
  <2> HIDE DEF q
  <2>3. req'[r] = q /\ \A p \in Requests \ {r} : req'[p] = req[p]
    BY <2>1, Starts
  <2> QED BY <2>1, <2>2, <2>3, FactorFrame DEF Enrolled, Changes
<1>8. ASSUME NEW s \in Scopes, NEW n \in Typed, SmsConfirm(r, s, n) PROVE FactorInv'
  <2> DEFINE q == [op |-> "sms", pc |-> "check", scope |-> s, purpose |-> "enrol", n |-> n,
                   to |-> pending[s], copy |-> None, seen |-> {}, holds |-> {}]
  <2>1. Start(r, q) /\ Tangle(r, "sms") /\ UNCHANGED <<creds, sets>>
    BY <1>8 DEF SmsConfirm, rows
  <2>2. q.pc = "check"
    OBVIOUS
  <2> HIDE DEF q
  <2> QED BY <2>1, <2>2, FactorBegin DEF Enrolled
<1>9. ASSUME NEW s \in Scopes, NEW n \in Typed, SmsVerify(r, s, n) PROVE FactorInv'
  <2> DEFINE q == [op |-> "verify", pc |-> "check", scope |-> s, purpose |-> "verify", n |-> n,
                   to |-> None, copy |-> None, holds |-> {}]
  <2>1. Start(r, q) /\ UNCHANGED <<creds, sets, tangled>>
    BY <1>9 DEF SmsVerify, rows, history
  <2>2. q.pc = "check" /\ q.op = "verify"
    OBVIOUS
  <2> HIDE DEF q
  <2>3. req'[r] = q /\ \A p \in Requests \ {r} : req'[p] = req[p]
    BY <2>1, Starts
  <2> QED BY <2>1, <2>2, <2>3, FactorFrame DEF Enrolled, Changes
<1> QED BY <1>1, <1>2, <1>3, <1>4, <1>5, <1>6, <1>7, <1>8, <1>9 DEF MessageStep


(* Time, and requests that die.                                             *)
LEMMA FactorTime ==
    ASSUME SecondFactorsAssumption, Shaped, FactorInv,
           Tick \/ (\E s \in Scopes : Lapse(s)) \/ (\E r \in Requests : Die(r))
    PROVE  FactorInv'
<1>1. CASE Tick
  BY <1>1, FactorStill DEF Tick, rows, history
<1>2. ASSUME NEW s \in Scopes, Lapse(s) PROVE FactorInv'
  BY <1>2, FactorStill DEF Lapse, rows
<1>3. ASSUME NEW r \in Requests, Die(r) PROVE FactorInv'
  <2>1. req'[r].pc = "idle" /\ \A p \in Requests \ {r} : req'[p] = req[p]
    BY <1>3, Ends DEF Die, Shaped
  <2>2. UNCHANGED <<creds, sets, tangled>>
    BY <1>3 DEF Die, rows
  <2> QED BY <2>1, <2>2, FactorFrame DEF Enrolled
<1> QED BY <1>1, <1>2, <1>3

(* It holds to begin with.                                                  *)
LEMMA FactorInit == ASSUME SecondFactorsAssumption, Init PROVE FactorInv
<1>1. PICK d \in Destinations, held \in InitiallyHeld :
        /\ creds = {c \in {Totp(1, 1), Sms(2, None, d, d)} : c.kind \in held}
        /\ sets = [k \in IF held = {} THEN {} ELSE {3} |-> Codes]
  BY DEF Init
<1>2. held \subseteq {"totp", "sms"}
  BY DEF SecondFactorsAssumption
<1>3. Totp(1, 1).kind = "totp" /\ Sms(2, None, d, d).kind = "sms"
  BY DEF Totp, Sms
<1>4. held # {} => creds # {}
  BY <1>1, <1>2, <1>3
<1>5. DOMAIN sets # {} => creds # {}
  BY <1>1, <1>4
<1>6. \A r \in Requests : req[r].pc = "idle"
  BY DEF Init, Idle
<1> QED BY <1>5, <1>6 DEF FactorInv, Enrolled

(* The shapes hold throughout.                                              *)
THEOREM ShapesKept == Spec => []Shaped
<1>1. Init => Shaped
  BY SecondFactorsAssumption, InitShaped
<1>2. Shaped /\ [Next]_vars => Shaped'
  BY SecondFactorsAssumption, NextShaped
<1> QED BY <1>1, <1>2, PTL DEF Spec

(* No recovery codes are left without a factor: remove_credential takes     *)
(* them with the last one, unless it runs beside another change.            *)
THEOREM NeedAFactor == Spec => []CodesNeedAFactor
<1>1. Init => FactorInv
  BY SecondFactorsAssumption, FactorInit
<1>2. Shaped /\ FactorInv /\ [Next]_vars => FactorInv'
  <2> SUFFICES ASSUME Shaped, FactorInv, [Next]_vars PROVE FactorInv'
    OBVIOUS
  <2>1. CASE UNCHANGED vars
    BY <2>1, FactorStill DEF vars, rows, history
  <2>2. CASE Next
    BY <2>2, SecondFactorsAssumption, Steps, FactorRecovery, FactorTotp, FactorMessage, FactorTime
  <2> QED BY <2>1, <2>2
<1>3. FactorInv => CodesNeedAFactor
  BY DEF FactorInv, CodesNeedAFactor
<1> QED BY <1>1, <1>2, <1>3, ShapesKept, PTL DEF Spec

-----------------------------------------------------------------------------
(* A code proves the destination it was sent to.                            *)

(* A step of a request that leaves what is pending as it is.                *)
LEMMA StraightStep ==
    ASSUME NEW r \in Requests, NEW s \in Scopes, Straight(s),
           \A p \in Requests \ {r} : req'[p] = req[p],
           pending'[s] = pending[s], Engaged(r, s)' => Engaged(r, s),
           codeAt'[s].enrol # None => codeAt[s].enrol # None \/ Engaged(r, s),
           CodeStraight(s)',
           Beginning(r, s)' => /\ Beginning(r, s)
                               /\ req'[r].pc = "switch" => req'[r].previous = pending[s]
                               /\ req'[r].pc = "note" /\ codeAt'[s].enrol # None =>
                                    pending[s] = req'[r].to
                               /\ req'[r].pc \in {"pause", "send"} => pending[s] = req'[r].to,
           ConfirmStraight(r, s)'
    PROVE  Straight(s)'
<1>1. \A p \in Requests : BeginStraight(p, s) /\ ConfirmStraight(p, s)
  BY DEF Straight
<1>2. \A p \in Requests \ {r} : Engaged(p, s)' <=> Engaged(p, s)
  BY DEF Engaged, Busy
<1>3. \A p \in Requests \ {r} : Beginning(p, s)' <=> Beginning(p, s)
  BY DEF Beginning, Busy
<1>4. BeginStraight(r, s)'
  <2> SUFFICES ASSUME Beginning(r, s)' PROVE BeginStraight(r, s)'
    BY DEF BeginStraight
  <2>1. \A p \in Requests \ {r} : ~ Engaged(p, s)
    BY <1>1 DEF BeginStraight
  <2> QED BY <1>2, <2>1 DEF BeginStraight
<1>5. ASSUME NEW p \in Requests \ {r} PROVE BeginStraight(p, s)'
  <2> SUFFICES ASSUME Beginning(p, s)' PROVE BeginStraight(p, s)'
    BY DEF BeginStraight
  <2>1. Beginning(p, s) /\ BeginStraight(p, s) /\ req'[p] = req[p]
    BY <1>1, <1>3
  <2>2. ~ Engaged(r, s) /\ \A o \in Requests \ {p} : ~ Engaged(o, s)
    BY <2>1 DEF BeginStraight
  <2>3. \A o \in Requests \ {p} : ~ Engaged(o, s)'
    BY <1>2, <2>2
  <2> QED BY <2>1, <2>2, <2>3 DEF BeginStraight
<1>6. ASSUME NEW p \in Requests \ {r} PROVE ConfirmStraight(p, s)'
  BY <1>1, <1>2 DEF ConfirmStraight
<1> QED BY <1>4, <1>5, <1>6 DEF Straight

(* A step of a request that has nothing to do with enrolling the channel.   *)
LEMMA StraightAside ==
    ASSUME NEW r \in Requests, NEW s \in Scopes, Straight(s),
           \A p \in Requests \ {r} : req'[p] = req[p], pending'[s] = pending[s],
           ~ Engaged(r, s)', codeAt'[s].enrol \in {codeAt[s].enrol, None}
    PROVE  Straight(s)'
<1>1. CodeStraight(s)'
  BY DEF Straight, CodeStraight
<1>2. ~ Beginning(r, s)' /\ ConfirmStraight(r, s)'
  BY DEF Beginning, Engaged, ConfirmStraight
<1> QED BY <1>1, <1>2, StraightStep

(* A step after which no other request is engaged.                          *)
LEMMA StraightAlone ==
    ASSUME NEW r \in Requests, NEW s \in Scopes, CodeStraight(s)',
           BeginStraight(r, s)' /\ ConfirmStraight(r, s)',
           \A p \in Requests \ {r} : ~ Engaged(p, s)'
    PROVE  Straight(s)'
  BY DEF Straight, BeginStraight, ConfirmStraight, Beginning, Engaged

(* What the invariant asks of a step that adds no channel.                  *)
LEMMA StraightAll ==
    ASSUME StraightInv, crossed \subseteq crossed',
           \A c \in creds' : c \in creds \/ c.kind = "totp",
           \A s \in Scopes \ crossed' : Straight(s) => Straight(s)'
    PROVE  StraightInv'
<1>1. ProvenWhereSent'
  BY DEF StraightInv, ProvenWhereSent, Kind
<1>2. \A s \in Scopes \ crossed' : Straight(s)'
  BY DEF StraightInv
<1> QED BY <1>1, <1>2 DEF StraightInv

(* A request that is none of the channel's, or has ended.                   *)
LEMMA StraightBeside ==
    ASSUME StraightInv, NEW r \in Requests,
           crossed' = crossed, pending' = pending, codeAt' = codeAt,
           \A c \in creds' : c \in creds \/ c.kind = "totp",
           \A p \in Requests \ {r} : req'[p] = req[p],
           req'[r].pc = "idle" \/ req'[r].op \notin {"smsBegin", "sms"}
    PROVE  StraightInv'
<1>1. \A s \in Scopes : ~ Engaged(r, s)'
  BY DEF Engaged, Busy
<1>2. \A s \in Scopes : Straight(s) => Straight(s)'
  BY <1>1, StraightAside
<1> QED BY <1>2, StraightAll

(* A request of the channel, after the destination is proven.               *)
LEMMA StraightAfter ==
    ASSUME StraightInv, NEW r \in Requests,
           UNCHANGED <<creds, crossed, pending, codeAt>>,
           \A p \in Requests \ {r} : req'[p] = req[p],
           Busy(r), req[r].op = "sms", req'[r].op = "sms", req'[r].scope = req[r].scope,
           req'[r].pc \in {"verified", "first", "regen", "insertSet"}
    PROVE  StraightInv'
<1>1. ASSUME NEW s \in Scopes, Straight(s) PROVE Straight(s)'
  <2>1. Engaged(r, s)' => Engaged(r, s)
    BY DEF Engaged, Busy
  <2>2. CodeStraight(s)'
    BY <1>1 DEF Straight, CodeStraight
  <2>3. ~ Beginning(r, s)' /\ ConfirmStraight(r, s)'
    BY DEF Beginning, ConfirmStraight
  <2> QED BY <1>1, <2>1, <2>2, <2>3, StraightStep
<1> QED BY <1>1, StraightAll

(* The recovery-code steps.                                                 *)
LEMMA StraightRecovery ==
    ASSUME SecondFactorsAssumption, Shaped, StraightInv, NEW r \in Requests, RecoveryStep(r)
    PROVE  StraightInv'
<1> USE DEF Shaped
<1>1. CASE RegenDelete(r)
  <2>1. req[r] \in RegenerateReq \cup TotpReq \cup SmsReq /\ Busy(r)
    BY <1>1, ByPlace DEF RegenDelete, Busy
  <2>2. /\ req'[r] = [req[r] EXCEPT !.pc = "insertSet", !.seen = DOMAIN sets]
        /\ \A p \in Requests \ {r} : req'[p] = req[p]
    BY <1>1 DEF RegenDelete, ReqShaped
  <2>3. UNCHANGED <<creds, crossed, pending, codeAt>>
    BY <1>1 DEF RegenDelete, rows, keys, history
  <2>4. CASE req[r] \in RegenerateReq
    <3>1. req'[r].op = "regenerate"
      BY <2>2, <2>4 DEF RegenerateReq
    <3> QED BY <2>2, <2>3, <3>1, StraightBeside
  <2>5. CASE req[r] \in TotpReq
    <3>1. req'[r].op = "totp"
      BY <2>2, <2>5 DEF TotpReq
    <3> QED BY <2>2, <2>3, <3>1, StraightBeside
  <2>6. CASE req[r] \in SmsReq
    <3>1. /\ req[r].op = "sms" /\ req'[r].op = "sms" /\ req'[r].scope = req[r].scope
          /\ req'[r].pc = "insertSet"
      BY <2>2, <2>6 DEF SmsReq
    <3> QED BY <2>1, <2>2, <2>3, <3>1, StraightAfter
  <2> QED BY <2>1, <2>4, <2>5, <2>6
<1>2. CASE RegenInsert(r) \/ UseRecovery(r) \/ RemoveCommit(r)
  <2>1. req'[r].pc = "idle" /\ \A p \in Requests \ {r} : req'[p] = req[p]
    BY <1>2, Ends DEF RegenInsert, UseRecovery, RemoveCommit
  <2>2. UNCHANGED <<crossed, pending, codeAt>> /\ creds' \subseteq creds
    BY <1>2 DEF RegenInsert, UseRecovery, RemoveCommit, keys, history
  <2> QED BY <2>1, <2>2, StraightBeside
<1>3. CASE FirstCodes(r)
  <2>1. req[r] \in SmsReq /\ Busy(r) /\ req[r].op = "sms"
    BY <1>3, ByPlace DEF FirstCodes, SmsReq, Busy
  <2>2. UNCHANGED <<creds, crossed, pending, codeAt>>
    BY <1>3 DEF FirstCodes, rows, keys, history
  <2>3. CASE Finished(r)
    BY <2>2, <2>3, Ends, StraightBeside
  <2>4. CASE Goto(r, "regen")
    <3>1. /\ req'[r].pc = "regen" /\ req'[r].op = "sms" /\ req'[r].scope = req[r].scope
          /\ \A p \in Requests \ {r} : req'[p] = req[p]
      <4>1. ReqShaped
        OBVIOUS
      <4> QED BY <2>1, <2>4, <4>1, MovesOn DEF Busy
    <3> QED BY <2>1, <2>2, <3>1, StraightAfter
  <2> QED BY <1>3, <2>3, <2>4 DEF FirstCodes
<1>4. CASE Regenerate(r)
  <2> DEFINE q == [op |-> "regenerate", pc |-> "regen", seen |-> {}, holds |-> {}]
  <2>1. Start(r, q) /\ UNCHANGED <<creds, crossed, pending, codeAt>>
    BY <1>4 DEF Regenerate, rows, keys
  <2>2. q.op = "regenerate"
    OBVIOUS
  <2> HIDE DEF q
  <2> QED BY <2>1, <2>2, Starts, StraightBeside
<1>5. ASSUME NEW k \in DOMAIN sets, NEW code \in Codes, VerifyRecovery(r, k, code)
      PROVE  StraightInv'
  <2> DEFINE q == [op |-> "recovery", pc |-> "use", set |-> k, code |-> code,
                   left |-> sets[k] \ {code}, holds |-> {<<"set", k>>}]
  <2>1. Start(r, q) /\ UNCHANGED <<creds, crossed, pending, codeAt>>
    BY <1>5 DEF VerifyRecovery, rows, keys
  <2>2. q.op = "recovery"
    OBVIOUS
  <2> HIDE DEF q
  <2> QED BY <2>1, <2>2, Starts, StraightBeside
<1>6. ASSUME NEW c \in creds, Remove(r, c) PROVE StraightInv'
  <2> DEFINE q == [op |-> "remove", pc |-> "remove", cred |-> c, others |-> creds \ {c},
                   holds |-> {}]
  <2>1. Start(r, q) /\ UNCHANGED <<creds, crossed, pending, codeAt>>
    BY <1>6 DEF Remove, rows, keys
  <2>2. q.op = "remove"
    OBVIOUS
  <2> HIDE DEF q
  <2> QED BY <2>1, <2>2, Starts, StraightBeside
<1> QED BY <1>1, <1>2, <1>3, <1>4, <1>5, <1>6 DEF RecoveryStep

(* The steps of authenticator apps.                                         *)
LEMMA StraightTotp ==
    ASSUME SecondFactorsAssumption, Shaped, StraightInv, NEW r \in Requests, TotpStep(r)
    PROVE  StraightInv'
<1> USE DEF Shaped
<1>1. CASE ClaimSecret(r) \/ ClaimStep(r)
  <2>1. req'[r].pc = "idle" /\ \A p \in Requests \ {r} : req'[p] = req[p]
    BY <1>1, Ends DEF ClaimSecret, ClaimStep
  <2>2. UNCHANGED <<creds, crossed, pending, codeAt>>
    BY <1>1 DEF ClaimSecret, ClaimStep, rows, history
  <2> QED BY <2>1, <2>2, StraightBeside
<1>2. CASE InsertTotp(r)
  <2>1. req[r] \in TotpNewReq
    BY <1>2, ByPlace DEF InsertTotp
  <2>2. /\ req'[r] = [req[r] EXCEPT !.pc = "mark", !.cred = Totp(made + 1, req[r].secret)]
        /\ \A p \in Requests \ {r} : req'[p] = req[p]
    BY <1>2 DEF InsertTotp, ReqShaped
  <2>3. req'[r].op = "totp"
    BY <2>1, <2>2 DEF TotpNewReq
  <2>4. creds' = creds \cup {Totp(made + 1, req[r].secret)}
        /\ UNCHANGED <<crossed, pending, codeAt>>
    BY <1>2 DEF InsertTotp, keys
  <2>5. Totp(made + 1, req[r].secret).kind = "totp"
    BY DEF Totp
  <2> QED BY <2>2, <2>3, <2>4, <2>5, StraightBeside
<1>3. CASE MarkProof(r) \/ DeleteSecret(r)
  <2>1. req[r] \in TotpReq /\ Busy(r)
    BY <1>3, ByPlace DEF MarkProof, DeleteSecret, Busy
  <2>2. req'[r].op = "totp" /\ \A p \in Requests \ {r} : req'[p] = req[p]
    BY <1>3, <2>1, MovesOn DEF MarkProof, DeleteSecret
  <2>3. UNCHANGED <<creds, crossed, pending, codeAt>>
    BY <1>3 DEF MarkProof, DeleteSecret, rows, history
  <2> QED BY <2>2, <2>3, StraightBeside
<1>4. ASSUME NEW s \in Scopes, TotpBegin(r, s) PROVE StraightInv'
  <2> DEFINE q == [op |-> "begin", pc |-> "claimSecret", scope |-> s, holds |-> {}]
  <2>1. Start(r, q) /\ UNCHANGED <<creds, crossed, pending, codeAt>>
    BY <1>4 DEF TotpBegin, rows, keys, history
  <2>2. q.op = "begin"
    OBVIOUS
  <2> HIDE DEF q
  <2> QED BY <2>1, <2>2, Starts, StraightBeside
<1>5. ASSUME NEW s \in Scopes, NEW step \in Nat, TotpConfirm(r, s, step) PROVE StraightInv'
  <2> DEFINE q == [op |-> "totp", pc |-> "insertTotp", scope |-> s, secret |-> secretAt[s],
                   step |-> step, cred |-> None, seen |-> {},
                   holds |-> {<<"secret", secretAt[s]>>}]
  <2>1. Start(r, q) /\ UNCHANGED <<creds, crossed, pending, codeAt>>
    BY <1>5 DEF TotpConfirm, rows, keys
  <2>2. q.op = "totp"
    OBVIOUS
  <2> HIDE DEF q
  <2> QED BY <2>1, <2>2, Starts, StraightBeside
<1>6. ASSUME NEW c \in Kind("totp"), NEW step \in Nat, VerifyTotp(r, c.secret, step)
      PROVE  StraightInv'
  <2> DEFINE mine == {d \in Kind("totp") : d.secret = c.secret}
             first == CHOOSE a \in mine : \A d \in mine : a.id <= d.id
             q == [op |-> "verify", pc |-> "claimStep", secret |-> c.secret, step |-> step,
                   cred |-> first, at |-> clock, holds |-> {<<"secret", c.secret>>}]
  <2>1. Start(r, q) /\ UNCHANGED <<creds, crossed, pending, codeAt>>
    BY <1>6 DEF VerifyTotp, rows, keys
  <2> HIDE DEF first
  <2>2. q.op = "verify"
    OBVIOUS
  <2> HIDE DEF q
  <2> QED BY <2>1, <2>2, Starts, StraightBeside
<1> QED BY <1>1, <1>2, <1>3, <1>4, <1>5, <1>6 DEF TotpStep

(* Beginning to enrol.                                                      *)
LEMMA StraightBegins ==
    ASSUME SecondFactorsAssumption, Shaped, StraightInv, NEW r \in Requests,
           \/ Switch(r) \/ NotePending(r) \/ ClaimPause(r) \/ StoreCode(r)
    PROVE  StraightInv'
<1> USE DEF Shaped
<1>1. ASSUME Switch(r) PROVE StraightInv'
  <2>1. req[r] \in SmsBeginReq /\ Busy(r) /\ req[r].op = "smsBegin" /\ req[r].pc = "switch"
    BY <1>1, ByPlace DEF Switch, SmsBeginReq, Busy
  <2>2. /\ req'[r].pc = "note" /\ req'[r].op = "smsBegin" /\ req'[r].scope = req[r].scope
        /\ req'[r].to = req[r].to /\ \A p \in Requests \ {r} : req'[p] = req[p]
    BY <1>1, <2>1, MovesOn DEF Switch
  <2>3. UNCHANGED <<creds, crossed, pending>>
    BY <1>1 DEF Switch, rows, history
  <2>4. ASSUME NEW s \in Scopes, Straight(s) PROVE Straight(s)'
    <3>1. CASE s # req[r].scope
      <4>1. codeAt'[s] = codeAt[s]
        BY <1>1, <3>1 DEF Switch, KeysShaped
      <4>2. ~ Engaged(r, s)'
        BY <2>2, <3>1 DEF Engaged
      <4> QED BY <2>2, <2>3, <2>4, <4>1, <4>2, StraightAside
    <3>2. CASE s = req[r].scope
      <4>1. /\ codeAt'[s].enrol \in {codeAt[s].enrol, None}
            /\ codeAt'[s].enrol # None => req[r].previous \in {None, req[r].to}
        BY <1>1, <3>2 DEF Switch, KeysShaped, Purposes
      <4>2. Beginning(r, s) /\ Engaged(r, s)
        BY <2>1, <3>2 DEF Beginning, Engaged
      <4>3. req[r].previous = pending[s]
        BY <2>1, <2>4, <4>2 DEF Straight, BeginStraight
      <4>4. CodeStraight(s)'
        BY <2>3, <2>4, <4>1 DEF Straight, CodeStraight
      <4>5. codeAt'[s].enrol # None => pending[s] = req'[r].to
        BY <2>2, <2>4, <4>1, <4>3 DEF Straight, CodeStraight
      <4>6. ConfirmStraight(r, s)'
        BY <2>2 DEF ConfirmStraight
      <4> QED BY <2>2, <2>3, <2>4, <4>1, <4>2, <4>4, <4>5, <4>6, StraightStep
    <3> QED BY <3>1, <3>2
  <2> QED BY <2>3, <2>4, StraightAll
<1>2. ASSUME NotePending(r) PROVE StraightInv'
  <2>1. req[r] \in SmsBeginReq /\ Busy(r) /\ req[r].op = "smsBegin" /\ req[r].pc = "note"
    BY <1>2, ByPlace DEF NotePending, SmsBeginReq, Busy
  <2>2. /\ req'[r].pc = "pause" /\ req'[r].op = "smsBegin" /\ req'[r].scope = req[r].scope
        /\ req'[r].to = req[r].to /\ \A p \in Requests \ {r} : req'[p] = req[p]
    BY <1>2, <2>1, MovesOn DEF NotePending
  <2>3. UNCHANGED <<creds, crossed, codeAt>> /\ req[r].to \in Destinations
    BY <1>2, <2>1 DEF NotePending, rows, history, SmsBeginReq
  <2>4. ASSUME NEW s \in Scopes, Straight(s) PROVE Straight(s)'
    <3>1. CASE s # req[r].scope
      <4>1. pending'[s] = pending[s]
        BY <1>2, <3>1 DEF NotePending, KeysShaped
      <4>2. ~ Engaged(r, s)'
        BY <2>2, <3>1 DEF Engaged
      <4> QED BY <2>2, <2>3, <2>4, <4>1, <4>2, StraightAside
    <3>2. CASE s = req[r].scope
      <4>1. pending'[s] = req[r].to
        BY <1>2, <3>2 DEF NotePending, KeysShaped
      <4>2. Beginning(r, s)
        BY <2>1, <3>2 DEF Beginning
      <4>3. /\ codeAt[s].enrol # None => pending[s] = req[r].to
            /\ \A p \in Requests \ {r} : ~ Engaged(p, s)
        BY <2>1, <2>4, <4>2 DEF Straight, BeginStraight
      <4>4. \A p \in Requests \ {r} : ~ Engaged(p, s)'
        BY <2>2, <4>3 DEF Engaged, Busy
      <4>5. CodeStraight(s)'
        BY <2>3, <2>4, <4>1, <4>3, SecondFactorsAssumption
        DEF Straight, CodeStraight, SecondFactorsAssumption
      <4>6. BeginStraight(r, s)' /\ ConfirmStraight(r, s)'
        BY <2>2, <4>1, <4>4 DEF BeginStraight, ConfirmStraight
      <4> QED BY <4>4, <4>5, <4>6, StraightAlone
    <3> QED BY <3>1, <3>2
  <2> QED BY <2>3, <2>4, StraightAll
<1>3. ASSUME ClaimPause(r) PROVE StraightInv'
  <2>1. req[r] \in SmsBeginReq \cup SendReq /\ Busy(r) /\ req[r].pc = "pause"
    BY <1>3, ByPlace DEF ClaimPause, Busy
  <2>2. UNCHANGED <<creds, crossed, pending, codeAt>>
    BY <1>3 DEF ClaimPause, rows, history
  <2>3. CASE Finished(r)
    BY <2>2, <2>3, Ends, StraightBeside
  <2>4. CASE Goto(r, "send") /\ req[r] \in SendReq
    <3>1. req'[r].op = "send" /\ \A p \in Requests \ {r} : req'[p] = req[p]
      BY <2>1, <2>4, MovesOn
    <3> QED BY <2>2, <3>1, StraightBeside
  <2>5. CASE Goto(r, "send") /\ req[r] \in SmsBeginReq
    <3>0. req[r].op = "smsBegin"
      BY <2>5 DEF SmsBeginReq
    <3>1. /\ req'[r].pc = "send" /\ req'[r].op = "smsBegin" /\ req'[r].scope = req[r].scope
          /\ req'[r].to = req[r].to /\ \A p \in Requests \ {r} : req'[p] = req[p]
      BY <2>1, <2>5, <3>0, MovesOn
    <3>2. ASSUME NEW s \in Scopes, Straight(s) PROVE Straight(s)'
      <4>1. Engaged(r, s)' => Engaged(r, s)
        BY <2>1, <3>0, <3>1 DEF Engaged
      <4>2. CodeStraight(s)' /\ ConfirmStraight(r, s)'
        BY <2>2, <3>1, <3>2 DEF Straight, CodeStraight, ConfirmStraight
      <4>3. Beginning(r, s)' => Beginning(r, s) /\ pending[s] = req'[r].to
        <5>1. Beginning(r, s)' => Beginning(r, s)
          BY <2>1, <3>0, <3>1 DEF Beginning
        <5>2. Beginning(r, s) => pending[s] = req[r].to
          BY <2>1, <3>2 DEF Straight, BeginStraight
        <5> QED BY <3>1, <5>1, <5>2
      <4> QED BY <2>2, <3>1, <3>2, <4>1, <4>2, <4>3, StraightStep
    <3> QED BY <2>2, <3>2, StraightAll
  <2> QED BY <1>3, <2>1, <2>3, <2>4, <2>5 DEF ClaimPause
<1>4. ASSUME StoreCode(r) PROVE StraightInv'
  <2> DEFINE code == [n |-> made + 1, to |-> req[r].to, attempts |-> 0]
  <2>1. req[r] \in SmsBeginReq \cup SendReq /\ Busy(r) /\ req[r].pc = "send"
    BY <1>4, ByPlace DEF StoreCode, Busy
  <2>2. UNCHANGED <<creds, crossed, pending>>
    BY <1>4 DEF StoreCode, rows
  <2>3. req'[r].pc = "idle" /\ \A p \in Requests \ {r} : req'[p] = req[p]
    BY <1>4, Ends DEF StoreCode
  <2>4. \A s \in Scopes : ~ Engaged(r, s)'
    BY <2>3 DEF Engaged, Busy
  <2>5. codeAt' = codeAt \/ codeAt' = [codeAt EXCEPT ![req[r].scope][req[r].purpose] = code]
    BY <1>4 DEF StoreCode
  <2>6. code.to = req[r].to
    OBVIOUS
  <2> HIDE DEF code
  <2>7. CASE codeAt' = codeAt
    BY <2>2, <2>3, <2>7, StraightBeside
  <2>8. CASE req[r] \in SendReq /\ codeAt' = [codeAt EXCEPT ![req[r].scope][req[r].purpose] = code]
    <3>1. req[r].purpose = "verify"
      BY <2>8 DEF SendReq
    <3>2. \A s \in Scopes : codeAt'[s].enrol = codeAt[s].enrol
      BY <2>8, <3>1 DEF KeysShaped, Purposes
    <3>3. \A s \in Scopes : Straight(s) => Straight(s)'
      BY <2>2, <2>3, <2>4, <3>2, StraightAside
    <3> QED BY <2>2, <3>3, StraightAll
  <2>9. CASE req[r] \in SmsBeginReq
             /\ codeAt' = [codeAt EXCEPT ![req[r].scope][req[r].purpose] = code]
    <3>1. req[r].purpose = "enrol" /\ req[r].op = "smsBegin" /\ req[r].to \in Destinations
      BY <2>9 DEF SmsBeginReq
    <3>2. ASSUME NEW s \in Scopes, Straight(s) PROVE Straight(s)'
      <4>1. CASE s # req[r].scope
        <5>1. codeAt'[s] = codeAt[s]
          BY <2>9, <4>1 DEF KeysShaped
        <5> QED BY <2>2, <2>3, <2>4, <3>2, <5>1, StraightAside
      <4>2. CASE s = req[r].scope
        <5>1. codeAt'[s].enrol = code
          BY <2>9, <3>1, <4>2 DEF KeysShaped, Purposes
        <5>2. Beginning(r, s) /\ Engaged(r, s)
          BY <2>1, <3>1, <4>2 DEF Beginning, Engaged
        <5>3. pending[s] = req[r].to
          BY <2>1, <3>2, <5>2 DEF Straight, BeginStraight
        <5>4. CodeStraight(s)'
          BY <2>2, <2>6, <3>1, <5>1, <5>3, SecondFactorsAssumption
          DEF CodeStraight, SecondFactorsAssumption
        <5>5. ~ Beginning(r, s)' /\ ConfirmStraight(r, s)'
          BY <2>4 DEF Beginning, Engaged, ConfirmStraight
        <5> QED BY <2>2, <2>3, <2>4, <3>2, <5>2, <5>4, <5>5, StraightStep
      <4> QED BY <4>1, <4>2
    <3> QED BY <2>2, <3>2, StraightAll
  <2> QED BY <2>1, <2>5, <2>7, <2>8, <2>9
<1> QED BY <1>1, <1>2, <1>3, <1>4

(* Confirming, and the check of a code.                                     *)
LEMMA StraightConfirms ==
    ASSUME SecondFactorsAssumption, Shaped, StraightInv, NEW r \in Requests,
           CheckGet(r) \/ Judge(r) \/ InsertSms(r) \/ DeletePending(r) \/ MarkVerified(r)
    PROVE  StraightInv'
<1> USE DEF Shaped
<1>1. ASSUME CheckGet(r) PROVE StraightInv'
  <2> DEFINE found == codeAt[req[r].scope][req[r].purpose]
             store == {<<"message", found.n>>}
  <2>1. req[r] \in SmsNewReq \cup CheckNewReq /\ Busy(r) /\ req[r].pc = "check"
    BY <1>1, ByPlace DEF CheckGet, Busy
  <2>2. UNCHANGED <<creds, crossed, pending, codeAt>>
    BY <1>1 DEF CheckGet, rows, keys
  <2>3. CASE found = None
    BY <1>1, <2>2, <2>3, Ends, StraightBeside DEF CheckGet
  <2>4. CASE found # None
    <3>1. /\ req'[r] = [req[r] EXCEPT !.pc = "judge", !.copy = found, !.holds = store]
          /\ \A p \in Requests \ {r} : req'[p] = req[p]
      BY <1>1, <2>4 DEF CheckGet, ReqShaped
    <3>2. CASE req[r] \in CheckNewReq
      <4> HIDE DEF found, store
      <4>1. req'[r].op = "verify"
        BY <3>1, <3>2 DEF CheckNewReq
      <4> QED BY <2>2, <3>1, <4>1, StraightBeside
    <3>3. CASE req[r] \in SmsNewReq
      <4>1. found = codeAt[req[r].scope].enrol
        BY <3>3 DEF SmsNewReq
      <4> HIDE DEF found, store
      <4>2. /\ req'[r].pc = "judge" /\ req'[r].op = "sms" /\ req'[r].scope = req[r].scope
            /\ req'[r].to = req[r].to /\ req'[r].copy = found /\ req[r].op = "sms"
        BY <3>1, <3>3 DEF SmsNewReq
      <4>3. ASSUME NEW s \in Scopes, Straight(s) PROVE Straight(s)'
        <5>1. Engaged(r, s)' => Engaged(r, s)
          BY <2>1, <4>2 DEF Engaged
        <5>2. CodeStraight(s)' /\ ~ Beginning(r, s)'
          BY <2>2, <4>2, <4>3 DEF Straight, CodeStraight, Beginning
        <5>3. ConfirmStraight(r, s)'
          <6> SUFFICES ASSUME req[r].scope = s PROVE ConfirmStraight(r, s)'
            BY <4>2 DEF ConfirmStraight, Engaged
          <6>1. Engaged(r, s)
            BY <2>1, <4>2 DEF Engaged
          <6>2. req[r].to = pending[s]
            BY <2>1, <4>3, <6>1 DEF Straight, ConfirmStraight
          <6>3. found.to = pending[s]
            BY <2>4, <4>1, <4>3 DEF Straight, CodeStraight
          <6> QED BY <2>2, <4>2, <6>2, <6>3 DEF ConfirmStraight
        <5> QED BY <2>2, <3>1, <4>3, <5>1, <5>2, <5>3, StraightStep
      <4> QED BY <2>2, <4>3, StraightAll
    <3> QED BY <2>1, <3>2, <3>3
  <2> QED BY <2>3, <2>4
<1>2. ASSUME Judge(r) PROVE StraightInv'
  <2> DEFINE q == req[r]
             counted == [q.copy EXCEPT !.attempts = @ + 1]
             after == IF q.n = q.copy.n \/ counted.attempts >= MaxOtpAttempts THEN None ELSE counted
  <2>1. q \in SmsReq \cup CheckReq /\ Busy(r) /\ q.pc = "judge"
    BY <1>2, ByPlace DEF Judge, Busy
  <2>2. UNCHANGED <<creds, crossed, pending>>
    BY <1>2 DEF Judge, rows
  <2>3. codeAt' = [codeAt EXCEPT ![q.scope][q.purpose] = after]
    BY <1>2 DEF Judge
  <2>4. q.copy \in CodeShape
    BY <2>1 DEF SmsReq, CheckReq
  <2>5. after = None \/ after.to = q.copy.to
    BY <2>4 DEF CodeShape
  <2> HIDE DEF after
  <2>6. CASE q \in CheckReq
    <3>1. q.op = "verify" /\ q.purpose = "verify"
      BY <2>6 DEF CheckReq
    <3>2. Finished(r)
      BY <1>2, <3>1 DEF Judge
    <3>3. req'[r].pc = "idle" /\ \A p \in Requests \ {r} : req'[p] = req[p]
      BY <3>2, Ends
    <3>4. \A s \in Scopes : codeAt'[s].enrol = codeAt[s].enrol
      BY <2>3, <3>1 DEF KeysShaped, Purposes
    <3>5. \A s \in Scopes : ~ Engaged(r, s)'
      BY <3>3 DEF Engaged, Busy
    <3>6. \A s \in Scopes : Straight(s) => Straight(s)'
      BY <2>2, <3>3, <3>4, <3>5, StraightAside
    <3> QED BY <2>2, <3>6, StraightAll
  <2>7. CASE q \in SmsReq
    <3>1. q.op = "sms" /\ q.purpose = "enrol" /\ q.to \in Destinations
      BY <2>7 DEF SmsReq
    <3>2. /\ \A p \in Requests \ {r} : req'[p] = req[p]
          /\ \/ req'[r].pc = "idle"
             \/ /\ req'[r].pc = "insertSms" /\ req'[r].op = "sms" /\ req'[r].scope = q.scope
                /\ req'[r].to = q.to /\ req'[r].copy = q.copy
      <4>1. Finished(r) \/ Goto(r, "insertSms")
        BY <1>2 DEF Judge
      <4> QED BY <2>1, <2>7, <4>1, Ends, MovesOn
    <3>3. ASSUME NEW s \in Scopes, Straight(s) PROVE Straight(s)'
      <4>1. CASE s # q.scope
        <5>1. codeAt'[s] = codeAt[s]
          BY <2>3, <4>1 DEF KeysShaped
        <5>2. ~ Engaged(r, s)'
          BY <3>2, <4>1 DEF Engaged, Busy
        <5> QED BY <2>2, <3>2, <3>3, <5>1, <5>2, StraightAside
      <4>2. CASE s = q.scope
        <5>1. codeAt'[s].enrol = after
          BY <2>3, <3>1, <4>2 DEF KeysShaped, Purposes
        <5>2. Engaged(r, s)
          BY <2>1, <3>1, <4>2 DEF Engaged
        <5>3. q.to = pending[s] /\ q.copy.to = q.to
          BY <2>1, <3>3, <5>2 DEF Straight, ConfirmStraight
        <5>4. CodeStraight(s)'
          BY <2>2, <2>5, <3>1, <5>1, <5>3, SecondFactorsAssumption
          DEF CodeStraight, SecondFactorsAssumption
        <5>5. ~ Beginning(r, s)' /\ ConfirmStraight(r, s)'
          BY <2>2, <3>2, <5>3 DEF Beginning, Engaged, ConfirmStraight, Busy
        <5> QED BY <2>2, <3>2, <3>3, <5>2, <5>4, <5>5, StraightStep
      <4> QED BY <4>1, <4>2
    <3> QED BY <2>2, <3>3, StraightAll
  <2> QED BY <2>1, <2>6, <2>7
<1>3. ASSUME InsertSms(r) PROVE StraightInv'
  <2> DEFINE new == Sms(made + 1, req[r].scope, req[r].to, req[r].copy.to)
  <2>1. /\ req[r] \in SmsReq /\ Busy(r) /\ req[r].op = "sms" /\ req[r].pc = "insertSms"
        /\ req[r].scope \in Scopes
    BY <1>3, ByPlace DEF InsertSms, SmsReq, Busy
  <2>2. /\ req'[r].pc = "deletePending" /\ req'[r].op = "sms" /\ req'[r].scope = req[r].scope
        /\ req'[r].to = req[r].to /\ \A p \in Requests \ {r} : req'[p] = req[p]
    BY <1>3, <2>1, MovesOn DEF InsertSms
  <2>3. UNCHANGED <<crossed, pending, codeAt>> /\ creds' = creds \cup {new}
    BY <1>3 DEF InsertSms, keys, history
  <2>4. ASSUME NEW s \in Scopes, Straight(s) PROVE Straight(s)'
    <3>1. Engaged(r, s)' => Engaged(r, s)
      BY <2>1, <2>2 DEF Engaged
    <3>2. CodeStraight(s)' /\ ~ Beginning(r, s)'
      BY <2>2, <2>3, <2>4 DEF Straight, CodeStraight, Beginning
    <3>3. ConfirmStraight(r, s)'
      BY <2>1, <2>2, <2>3, <2>4, <3>1 DEF Straight, ConfirmStraight
    <3> QED BY <2>2, <2>3, <2>4, <3>1, <3>2, <3>3, StraightStep
  <2>5. req[r].scope \notin crossed => req[r].copy.to = req[r].to
    BY <2>1 DEF StraightInv, Straight, ConfirmStraight, Engaged
  <2>6. new.proven = req[r].to /\ new.sentTo = req[r].copy.to /\ new.scope = req[r].scope
    BY DEF Sms
  <2> HIDE DEF new
  <2>7. ProvenWhereSent'
    BY <2>3, <2>5, <2>6 DEF StraightInv, ProvenWhereSent, Kind
  <2> QED BY <2>3, <2>4, <2>7 DEF StraightInv
<1>4. ASSUME DeletePending(r) PROVE StraightInv'
  <2>1. req[r] \in SmsReq /\ Busy(r) /\ req[r].op = "sms" /\ req[r].pc = "deletePending"
    BY <1>4, ByPlace DEF DeletePending, SmsReq, Busy
  <2>2. /\ req'[r].pc = "verified" /\ req'[r].op = "sms" /\ req'[r].scope = req[r].scope
        /\ \A p \in Requests \ {r} : req'[p] = req[p]
    BY <1>4, <2>1, MovesOn DEF DeletePending
  <2>3. UNCHANGED <<creds, codeAt>> /\ crossed \subseteq crossed'
    BY <1>4 DEF DeletePending, Cross, rows
  <2>4. ASSUME NEW s \in Scopes \ crossed', Straight(s) PROVE Straight(s)'
    <3>1. CASE s # req[r].scope
      <4>1. pending'[s] = pending[s]
        BY <1>4, <3>1 DEF DeletePending, KeysShaped
      <4>2. ~ Engaged(r, s)'
        BY <2>2, <3>1 DEF Engaged
      <4> QED BY <2>2, <2>3, <2>4, <4>1, <4>2, StraightAside
    <3>2. CASE s = req[r].scope
      <4>1. codeAt[s].enrol = None /\ ~ Underway(s, Requests \ {r})
        BY <1>4, <2>4, <3>2 DEF DeletePending, Cross
      <4>2. \A p \in Requests \ {r} : ~ Engaged(p, s)'
        BY <2>2, <4>1 DEF Engaged, Underway, Busy
      <4>3. CodeStraight(s)' /\ BeginStraight(r, s)' /\ ConfirmStraight(r, s)'
        BY <2>2, <2>3, <4>1 DEF CodeStraight, BeginStraight, ConfirmStraight, Beginning
      <4> QED BY <4>2, <4>3, StraightAlone
    <3> QED BY <3>1, <3>2
  <2> QED BY <2>3, <2>4, StraightAll
<1>5. ASSUME MarkVerified(r) PROVE StraightInv'
  <2>1. req[r] \in SmsReq /\ Busy(r) /\ req[r].op = "sms"
    BY <1>5, ByPlace DEF MarkVerified, SmsReq, Busy
  <2>2. /\ req'[r].pc = "first" /\ req'[r].op = "sms" /\ req'[r].scope = req[r].scope
        /\ \A p \in Requests \ {r} : req'[p] = req[p]
    BY <1>5, <2>1, MovesOn DEF MarkVerified
  <2>3. UNCHANGED <<creds, crossed, pending, codeAt>>
    BY <1>5 DEF MarkVerified, keys, history
  <2> QED BY <2>1, <2>2, <2>3, StraightAfter
<1> QED BY <1>1, <1>2, <1>3, <1>4, <1>5

(* A request of the channel begins.                                         *)
LEMMA StraightStarts ==
    ASSUME SecondFactorsAssumption, Shaped, StraightInv, NEW r \in Requests, NEW s \in Scopes,
           \/ SendCode(r, s)
           \/ \E d \in Destinations : SmsBegin(r, s, d)
           \/ \E n \in Typed : SmsConfirm(r, s, n) \/ SmsVerify(r, s, n)
    PROVE  StraightInv'
<1> USE DEF Shaped
<1>1. ASSUME SendCode(r, s) PROVE StraightInv'
  <2> DEFINE q == [op |-> "send", pc |-> "pause", scope |-> s, purpose |-> "verify",
                   to |-> phone, holds |-> {}]
  <2>1. Start(r, q) /\ UNCHANGED <<creds, crossed, pending, codeAt>>
    BY <1>1 DEF SendCode, rows, keys, history
  <2>2. q.op = "send"
    OBVIOUS
  <2> HIDE DEF q
  <2> QED BY <2>1, <2>2, Starts, StraightBeside
<1>2. ASSUME NEW d \in Destinations, SmsBegin(r, s, d) PROVE StraightInv'
  <2> DEFINE q == [op |-> "smsBegin", pc |-> "switch", scope |-> s, purpose |-> "enrol",
                   to |-> d, previous |-> pending[s], holds |-> {}]
  <2>1. Start(r, q) /\ UNCHANGED <<creds, pending, codeAt>> /\ crossed \subseteq crossed'
    BY <1>2 DEF SmsBegin, rows, keys
  <2>2. q.op = "smsBegin" /\ q.pc = "switch" /\ q.scope = s /\ q.previous = pending[s]
    OBVIOUS
  <2> HIDE DEF q
  <2>3. req'[r] = q /\ \A p \in Requests \ {r} : req'[p] = req[p]
    BY <2>1, Starts
  <2>4. ASSUME NEW t \in Scopes \ crossed', Straight(t) PROVE Straight(t)'
    <3>1. CASE t # s
      <4>1. ~ Engaged(r, t)'
        BY <2>2, <2>3, <3>1 DEF Engaged
      <4> QED BY <2>1, <2>3, <2>4, <4>1, StraightAside
    <3>2. CASE t = s
      <4>1. ~ Underway(s, Requests)
        BY <1>2, <2>4, <3>2 DEF SmsBegin
      <4>2. \A p \in Requests \ {r} : ~ Engaged(p, t)'
        BY <2>3, <3>2, <4>1 DEF Engaged, Underway, Busy
      <4>3. CodeStraight(t)' /\ BeginStraight(r, t)' /\ ConfirmStraight(r, t)'
        BY <2>1, <2>2, <2>3, <2>4, <3>2, <4>2
        DEF Straight, CodeStraight, BeginStraight, ConfirmStraight
      <4> QED BY <4>2, <4>3, StraightAlone
    <3> QED BY <3>1, <3>2
  <2> QED BY <2>1, <2>4, StraightAll
<1>3. ASSUME NEW n \in Typed, SmsConfirm(r, s, n) PROVE StraightInv'
  <2> DEFINE q == [op |-> "sms", pc |-> "check", scope |-> s, purpose |-> "enrol", n |-> n,
                   to |-> pending[s], copy |-> None, seen |-> {}, holds |-> {}]
  <2>1. Start(r, q) /\ UNCHANGED <<creds, pending, codeAt>> /\ crossed \subseteq crossed'
    BY <1>3 DEF SmsConfirm, rows, keys
  <2>2. q.op = "sms" /\ q.pc = "check" /\ q.scope = s /\ q.to = pending[s]
    OBVIOUS
  <2> HIDE DEF q
  <2>3. req'[r] = q /\ \A p \in Requests \ {r} : req'[p] = req[p]
    BY <2>1, Starts
  <2>4. ASSUME NEW t \in Scopes \ crossed', Straight(t) PROVE Straight(t)'
    <3>1. CASE t # s
      <4>1. ~ Engaged(r, t)'
        BY <2>2, <2>3, <3>1 DEF Engaged
      <4> QED BY <2>1, <2>3, <2>4, <4>1, StraightAside
    <3>2. CASE t = s
      <4>1. \A p \in Requests : ~ Beginning(p, s)
        BY <1>3, <2>4, <3>2 DEF SmsConfirm
      <4>2. \A p \in Requests : ~ Beginning(p, t)'
        BY <2>2, <2>3, <3>2, <4>1 DEF Beginning, Busy
      <4>3. ConfirmStraight(r, t)'
        BY <2>1, <2>2, <2>3, <3>2 DEF ConfirmStraight
      <4>4. ASSUME NEW p \in Requests \ {r} PROVE ConfirmStraight(p, t)'
        BY <2>1, <2>3, <2>4 DEF Straight, ConfirmStraight, Engaged, Busy
      <4>5. CodeStraight(t)'
        BY <2>1, <2>4 DEF Straight, CodeStraight
      <4> QED BY <4>2, <4>3, <4>4, <4>5 DEF Straight, BeginStraight
    <3> QED BY <3>1, <3>2
  <2> QED BY <2>1, <2>4, StraightAll
<1>4. ASSUME NEW n \in Typed, SmsVerify(r, s, n) PROVE StraightInv'
  <2> DEFINE q == [op |-> "verify", pc |-> "check", scope |-> s, purpose |-> "verify", n |-> n,
                   to |-> None, copy |-> None, holds |-> {}]
  <2>1. Start(r, q) /\ UNCHANGED <<creds, crossed, pending, codeAt>>
    BY <1>4 DEF SmsVerify, rows, keys, history
  <2>2. q.op = "verify"
    OBVIOUS
  <2> HIDE DEF q
  <2> QED BY <2>1, <2>2, Starts, StraightBeside
<1> QED BY <1>1, <1>2, <1>3, <1>4

(* A step of no request.                                                    *)
LEMMA StraightStill ==
    ASSUME StraightInv, UNCHANGED <<creds, crossed, pending, codeAt, req>>
    PROVE  StraightInv'
  BY DEF StraightInv, ProvenWhereSent, Kind, Straight, CodeStraight, BeginStraight,
         ConfirmStraight, Beginning, Engaged, Busy

(* Time, and requests that die.                                             *)
LEMMA StraightTime ==
    ASSUME SecondFactorsAssumption, Shaped, StraightInv,
           Tick \/ (\E s \in Scopes : Lapse(s)) \/ (\E r \in Requests : Die(r))
    PROVE  StraightInv'
<1> USE DEF Shaped
<1>1. CASE Tick
  BY <1>1, StraightStill DEF Tick, rows, history
<1>2. ASSUME NEW s \in Scopes, Lapse(s) PROVE StraightInv'
  <2>1. UNCHANGED <<creds, req>> /\ crossed \subseteq crossed'
    BY <1>2 DEF Lapse, Cross, rows
  <2>2. ASSUME NEW t \in Scopes \ crossed', Straight(t) PROVE Straight(t)'
    <3>1. \A p \in Requests : /\ Engaged(p, t)' <=> Engaged(p, t)
                              /\ Beginning(p, t)' <=> Beginning(p, t)
      BY <2>1 DEF Engaged, Beginning, Busy
    <3>2. CASE pending'[t] = pending[t]
      <4>1. codeAt'[t].enrol \in {codeAt[t].enrol, None}
        BY <1>2 DEF Lapse, KeysShaped, Purposes
      <4>2. CodeStraight(t)'
        BY <2>2, <3>2, <4>1 DEF Straight, CodeStraight
      <4>3. \A p \in Requests : BeginStraight(p, t)' /\ ConfirmStraight(p, t)'
        BY <2>1, <2>2, <3>1, <3>2, <4>1 DEF Straight, BeginStraight, ConfirmStraight
      <4> QED BY <4>2, <4>3 DEF Straight
    <3>3. CASE pending'[t] # pending[t]
      <4>1. t = s /\ Cross(s, Requests) /\ UNCHANGED codeAt
        BY <1>2, <3>3 DEF Lapse, KeysShaped
      <4>2. codeAt[t].enrol = None /\ ~ Underway(t, Requests)
        BY <2>2, <4>1 DEF Cross
      <4>3. \A p \in Requests : ~ Engaged(p, t)
        BY <4>2 DEF Underway, Engaged
      <4> QED
        BY <3>1, <4>1, <4>2, <4>3
        DEF Straight, CodeStraight, BeginStraight, ConfirmStraight, Beginning, Engaged
    <3> QED BY <3>2, <3>3
  <2> QED BY <2>1, <2>2, StraightAll
<1>3. ASSUME NEW r \in Requests, Die(r) PROVE StraightInv'
  BY <1>3, Ends, StraightBeside DEF Die, rows, keys
<1> QED BY <1>1, <1>2, <1>3

(* It holds to begin with.                                                  *)
LEMMA StraightInit == ASSUME SecondFactorsAssumption, Init PROVE StraightInv
<1>1. \A r \in Requests : req[r].pc = "idle"
  BY DEF Init, Idle
<1>2. \A s \in Scopes : codeAt[s].enrol = None
  BY DEF Init, Purposes
<1>3. \A s \in Scopes : Straight(s)
  BY <1>1, <1>2
  DEF Straight, CodeStraight, BeginStraight, ConfirmStraight, Beginning, Engaged, Busy
<1>4. ProvenWhereSent
  <2>1. PICK d \in Destinations, held \in InitiallyHeld :
          creds = {c \in {Totp(1, 1), Sms(2, None, d, d)} : c.kind \in held}
    BY DEF Init
  <2>2. Totp(1, 1).kind = "totp"
    BY DEF Totp
  <2>3. Sms(2, None, d, d).proven = d /\ Sms(2, None, d, d).sentTo = d
    BY DEF Sms
  <2> QED BY <2>1, <2>2, <2>3 DEF ProvenWhereSent, Kind
<1> QED BY <1>3, <1>4 DEF StraightInv

(* A code proves the destination it was sent to: begin_enrolment discards   *)
(* the code when the destination changes, and confirm_enrolment takes the   *)
(* destination that is pending for proven, wherever the code went.          *)
THEOREM WhereSent == Spec => []ProvenWhereSent
<1>1. Init => StraightInv
  BY SecondFactorsAssumption, StraightInit
<1>2. Shaped /\ StraightInv /\ [Next]_vars => StraightInv'
  <2> SUFFICES ASSUME Shaped, StraightInv, [Next]_vars PROVE StraightInv'
    OBVIOUS
  <2>1. CASE UNCHANGED vars
    BY <2>1, StraightStill DEF vars, rows, keys, history
  <2>2. ASSUME NEW r \in Requests, MessageStep(r) PROVE StraightInv'
    BY <2>2, SecondFactorsAssumption, StraightBegins, StraightConfirms, StraightStarts
    DEF MessageStep
  <2>3. CASE Next
    BY <2>2, <2>3, SecondFactorsAssumption, Steps, StraightRecovery, StraightTotp, StraightTime
  <2> QED BY <2>1, <2>3
<1>3. StraightInv => ProvenWhereSent
  BY DEF StraightInv
<1> QED BY <1>1, <1>2, <1>3, ShapesKept, PTL DEF Spec

-----------------------------------------------------------------------------
(* One-time codes are accepted once.                                        *)

(* Where the requests of each kind stand.                                   *)
LEMMA PlaceOf ==
    ASSUME NEW q
    PROVE  /\ q \in RegenerateReq => q.pc \in {"regen", "insertSet"} /\ q.op = "regenerate"
           /\ q \in RecoveryReq => q.pc = "use" /\ q.op = "recovery"
           /\ q \in RemoveReq => q.pc = "remove" /\ q.op = "remove"
           /\ q \in BeginReq => q.pc = "claimSecret" /\ q.op = "begin"
           /\ q \in TotpNewReq => q.pc = "insertTotp" /\ q.op = "totp"
           /\ q \in TotpReq =>
                q.pc \in {"mark", "deleteSecret", "regen", "insertSet"} /\ q.op = "totp"
           /\ q \in ClaimReq => q.pc = "claimStep" /\ q.op = "verify"
           /\ q \in SmsBeginReq => q.pc \in {"switch", "note", "pause", "send"} /\ q.op = "smsBegin"
           /\ q \in SendReq => q.pc \in {"pause", "send"} /\ q.op = "send"
           /\ q \in SmsNewReq => q.pc = "check" /\ q.op = "sms"
           /\ q \in SmsReq => /\ q.pc \in {"judge", "insertSms", "deletePending", "verified",
                                           "first", "regen", "insertSet"}
                              /\ q.op = "sms"
           /\ q \in CheckNewReq => q.pc = "check" /\ q.op = "verify"
           /\ q \in CheckReq => q.pc = "judge" /\ q.op = "verify"
<1>1. q \in RegenerateReq => q.pc \in {"regen", "insertSet"} /\ q.op = "regenerate"
  BY DEF RegenerateReq
<1>2. q \in RecoveryReq => q.pc = "use" /\ q.op = "recovery"
  BY DEF RecoveryReq
<1>3. q \in RemoveReq => q.pc = "remove" /\ q.op = "remove"
  BY DEF RemoveReq
<1>4. q \in BeginReq => q.pc = "claimSecret" /\ q.op = "begin"
  BY DEF BeginReq
<1>5. q \in TotpNewReq => q.pc = "insertTotp" /\ q.op = "totp"
  BY DEF TotpNewReq
<1>6. q \in TotpReq => q.pc \in {"mark", "deleteSecret", "regen", "insertSet"} /\ q.op = "totp"
  BY DEF TotpReq
<1>7. q \in ClaimReq => q.pc = "claimStep" /\ q.op = "verify"
  BY DEF ClaimReq
<1>8. q \in SmsBeginReq => q.pc \in {"switch", "note", "pause", "send"} /\ q.op = "smsBegin"
  BY DEF SmsBeginReq
<1>9. q \in SendReq => q.pc \in {"pause", "send"} /\ q.op = "send"
  BY DEF SendReq
<1>10. q \in SmsNewReq => q.pc = "check" /\ q.op = "sms"
  BY DEF SmsNewReq
<1>11. q \in SmsReq => /\ q.pc \in {"judge", "insertSms", "deletePending", "verified", "first",
                                    "regen", "insertSet"}
                       /\ q.op = "sms"
  BY DEF SmsReq
<1>12. q \in CheckNewReq => q.pc = "check" /\ q.op = "verify"
  BY DEF CheckNewReq
<1>13. q \in CheckReq => q.pc = "judge" /\ q.op = "verify"
  BY DEF CheckReq
<1> QED BY <1>1, <1>2, <1>3, <1>4, <1>5, <1>6, <1>7, <1>8, <1>9, <1>10, <1>11, <1>12, <1>13

(* What a request holds, by where it stands; and who holds a secret.        *)
LEMMA InHand ==
    ASSUME ReqShaped, NEW r \in Requests, HoldsWhat(r)
    PROVE  /\ req[r].pc = "use" => req[r].holds = {<<"set", req[r].set>>}
           /\ req[r].pc \in {"insertTotp", "mark", "deleteSecret", "claimStep"} =>
                req[r].holds = {<<"secret", req[r].secret>>}
           /\ req[r].pc = "judge" => req[r].holds = {<<"message", req[r].copy.n>>}
           /\ Busy(r) => \A x : <<"secret", x>> \in req[r].holds =>
                /\ req[r].op = "totp" \/ req[r].pc = "claimStep"
                /\ req[r].secret = x
           /\ Busy(r) /\ req[r].op = "totp" => req[r].holds = {<<"secret", req[r].secret>>}
<1> DEFINE q == req[r]
<1>0. HoldsWhat(r)
  OBVIOUS
<1>1. CASE q.pc = "idle"
  BY <1>1 DEF Busy
<1>2. CASE q \in RecoveryReq /\ q.holds = {<<"set", q.set>>}
  <2>1. q.pc = "use" /\ q.op = "recovery"
    BY <1>2, PlaceOf
  <2>2. \A x : <<"secret", x>> \notin q.holds
    BY <1>2
  <2> QED BY <1>2, <2>1, <2>2
<1>3. CASE q \in TotpNewReq \cup TotpReq \cup ClaimReq /\ q.holds = {<<"secret", q.secret>>}
  <2>1. /\ q.pc \in {"insertTotp", "mark", "deleteSecret", "regen", "insertSet", "claimStep"}
        /\ q.op = "totp" \/ q.pc = "claimStep"
    BY <1>3, PlaceOf
  <2>2. \A x : <<"secret", x>> \in q.holds => q.secret = x
    BY <1>3
  <2> QED BY <1>3, <2>1, <2>2
<1>4. CASE q \in SmsReq \cup CheckReq /\ q.holds = {<<"message", q.copy.n>>}
  <2>1. /\ q.pc \in {"judge", "insertSms", "deletePending", "verified", "first", "regen",
                     "insertSet"}
        /\ q.op # "totp"
    BY <1>4, PlaceOf
  <2>2. \A x : <<"secret", x>> \notin q.holds
    BY <1>4
  <2> QED BY <1>4, <2>1, <2>2
<1>5. CASE /\ q \in RegenerateReq \cup RemoveReq \cup BeginReq \cup SmsBeginReq \cup SendReq
                      \cup SmsNewReq \cup CheckNewReq
           /\ q.holds = {}
  <2>1. /\ q.pc \in {"regen", "insertSet", "remove", "claimSecret", "switch", "note", "pause",
                     "send", "check"}
        /\ q.op # "totp"
    BY <1>5, PlaceOf
  <2> QED BY <1>5, <2>1
<1> QED BY <1>0, <1>1, <1>2, <1>3, <1>4, <1>5 DEF HoldsWhat

(* A request that holds what it held, or nothing.                           *)
LEMMA HandStep ==
    ASSUME Shaped, Shaped', HandInv, made <= made', shared \subseteq shared',
           \A p \in Requests : HoldsWhat(p)',
           \A p \in Requests : req'[p].pc # "idle" =>
             \/ req'[p].holds = {}
             \/ /\ Busy(p) /\ req'[p].holds = req[p].holds
                /\ req[p].pc = "claimStep" => req'[p].pc = "claimStep"
    PROVE  HandInv'
<1>1. made \in Nat /\ made' \in Nat
  BY DEF Shaped, RestShaped
<1>2. \A p \in Requests : Busy(p) => \A store \in req[p].holds : store[2] \in Nat
  BY ByKind DEF Shaped, Holding
<1>3. ASSUME NEW p \in Requests, req'[p].pc # "idle", NEW store \in req'[p].holds
      PROVE  store[2] <= made'
  <2>1. Busy(p) /\ store \in req[p].holds
    BY <1>3
  <2>2. store[2] \in Nat /\ store[2] <= made
    BY <1>2, <2>1 DEF HandInv
  <2> QED BY <1>1, <2>2
<1>4. HeldByOne'
  <2> SUFFICES ASSUME NEW p \in Requests, NEW r \in Requests, p # r,
                      req'[p].pc # "idle", req'[r].pc # "idle",
                      NEW store \in req'[p].holds \cap req'[r].holds
               PROVE  store \in shared'
                        \/ (req'[p].pc = "claimStep" /\ req'[r].pc = "claimStep")
    BY DEF HeldByOne, Busy
  <2>1. /\ Busy(p) /\ store \in req[p].holds
        /\ req[p].pc = "claimStep" => req'[p].pc = "claimStep"
    OBVIOUS
  <2>2. /\ Busy(r) /\ store \in req[r].holds
        /\ req[r].pc = "claimStep" => req'[r].pc = "claimStep"
    OBVIOUS
  <2> QED BY <2>1, <2>2 DEF HandInv, HeldByOne
<1> QED BY <1>3, <1>4 DEF HandInv, Busy

(* A request that takes something in hand.                                  *)
LEMMA HandTake ==
    ASSUME Shaped, Shaped', HandInv, made' = made, shared \subseteq shared',
           NEW r \in Requests, HoldsWhat(r)', \A p \in Requests \ {r} : req'[p] = req[p],
           NEW store, req'[r].holds = {store}, store[2] <= made,
           \/ store \in shared'
           \/ \A p \in Requests \ {r} : Busy(p) /\ store \in req[p].holds =>
                req[p].pc = "claimStep" /\ req'[r].pc = "claimStep"
    PROVE  HandInv'
<1>1. \A p \in Requests : HoldsWhat(p)'
  BY DEF HandInv, HoldsWhat
<1>2. ASSUME NEW p \in Requests, req'[p].pc # "idle", NEW x \in req'[p].holds
      PROVE  x[2] <= made'
  BY <1>2 DEF HandInv, Busy
<1>3. HeldByOne'
  <2> SUFFICES ASSUME NEW p \in Requests, NEW o \in Requests, p # o,
                      req'[p].pc # "idle", req'[o].pc # "idle",
                      NEW x \in req'[p].holds \cap req'[o].holds
               PROVE  x \in shared' \/ (req'[p].pc = "claimStep" /\ req'[o].pc = "claimStep")
    BY DEF HeldByOne, Busy
  <2>1. CASE p # r /\ o # r
    BY <2>1 DEF HandInv, HeldByOne, Busy
  <2>2. CASE p = r
    BY <2>2 DEF Busy
  <2>3. CASE o = r
    BY <2>3 DEF Busy
  <2> QED BY <2>1, <2>2, <2>3
<1> QED BY <1>1, <1>2, <1>3 DEF HandInv, Busy

(* What a step makes has a new number.                                      *)
LEMMA MadeStep ==
    ASSUME Shaped, Shaped', MadeInv, made <= made',
           \A k \in DOMAIN sets' : k \in DOMAIN sets \/ k <= made',
           \A s \in Scopes : secretAt'[s] \in {secretAt[s], None} \/ secretAt'[s] <= made',
           \A c \in creds' : c.kind = "totp" => c \in creds \/ c.secret <= made',
           \A n \in DOMAIN tries' : n \in DOMAIN tries \/ n <= made',
           \A code \in spent' : code \in spent \/ (code[2] \in Nat /\ code[2] <= made')
    PROVE  MadeInv'
<1>1. made \in Nat /\ made' \in Nat
  BY DEF Shaped, RestShaped
<1>2. \A k \in DOMAIN sets' : k <= made'
  BY <1>1 DEF MadeInv, Shaped, RowsShaped
<1>3. \A s \in Scopes : secretAt'[s] # None => secretAt'[s] <= made'
  BY <1>1 DEF MadeInv, Shaped, KeysShaped
<1>4. \A c \in creds' : c.kind = "totp" => c.secret <= made'
  <2> SUFFICES ASSUME NEW c \in creds, c.kind = "totp" PROVE c.secret <= made'
    OBVIOUS
  <2>1. c.secret <= made
    BY DEF MadeInv
  <2>2. c \in TotpShape
    BY Kinds DEF Kind, Shaped
  <2>3. c.secret \in Nat
    BY <2>2 DEF TotpShape
  <2> QED BY <1>1, <2>1, <2>3
<1>5. \A n \in DOMAIN tries' : n <= made'
  BY <1>1 DEF MadeInv, Shaped, RestShaped
<1>6. \A code \in spent' : code[2] \in Nat /\ code[2] <= made'
  BY <1>1 DEF MadeInv
<1> QED BY <1>2, <1>3, <1>4, <1>5, <1>6 DEF MadeInv

(* A step that leaves the recovery codes alone, or only deletes sets.       *)
LEMMA SetStep ==
    ASSUME SetInv, shared \subseteq shared',
           \A k \in DOMAIN sets' : k \in DOMAIN sets /\ sets'[k] = sets[k],
           \A k, c : <<"set", k, c>> \in spent' => <<"set", k, c>> \in spent,
           \A p \in Requests : req'[p].pc = "use" => req'[p] = req[p]
    PROVE  SetInv'
<1> SUFFICES ASSUME NEW k \in Nat, SetOnce(k) PROVE SetOnce(k)'
  BY DEF SetInv
<1> QED BY DEF SetOnce

(* A step that leaves the messages alone, or only deletes codes.            *)
LEMMA MessageStays ==
    ASSUME MessageInv, shared \subseteq shared', tries' = tries,
           \A s \in Scopes, p \in Purposes : codeAt'[s][p] \in {codeAt[s][p], None},
           \A n : <<"message", n>> \in spent' => <<"message", n>> \in spent,
           \A p \in Requests : req'[p].pc = "judge" => req'[p] = req[p]
    PROVE  MessageInv'
<1>1. \A n \in Nat, s \in Scopes, p \in Purposes : Placed(n, s, p)' => Placed(n, s, p)
  BY DEF Placed
<1>2. PlacedOnce'
  BY <1>1 DEF MessageInv, PlacedOnce
<1>3. ASSUME NEW n \in DOMAIN tries, MessageOnce(n) PROVE MessageOnce(n)'
  BY <1>3 DEF MessageOnce
<1> QED BY <1>2, <1>3 DEF MessageInv

(* A secret that a step does not touch.                                     *)
LEMMA SecretKept ==
    ASSUME NEW x \in Nat, SecretOnce(x), Having(x)' \subseteq Having(x),
           \A st : <<"secret", x, st>> \in spent' => <<"secret", x, st>> \in spent,
           \A s \in Scopes : secretAt'[s] = x /\ x # None => secretAt[s] = x,
           marks \subseteq marks', clock' = clock,
           \A p \in Requests : req'[p].pc \in {"insertTotp", "mark"} /\ req'[p].secret = x =>
             req'[p] = req[p],
           \A p \in Requests : req[p].pc \in {"mark", "deleteSecret"} /\ req[p].secret = x =>
             req'[p] = req[p]
    PROVE  SecretOnce(x)'
<1>1. \A c, d \in Having(x)' : c = d
  BY DEF SecretOnce
<1>2. Untouched(x) => Untouched(x)'
  BY DEF Untouched
<1>3. ASSUME NEW s \in Scopes, secretAt'[s] = x, x # None PROVE Untouched(x)' \/ Proving(x, s)'
  <2>1. Untouched(x) \/ Proving(x, s)
    BY <1>3 DEF SecretOnce
  <2>2. Proving(x, s) => Proving(x, s)'
    BY DEF Proving
  <2> QED BY <1>2, <2>1, <2>2
<1>4. \A r \in Requests : req'[r].pc = "insertTotp" /\ req'[r].secret = x => Untouched(x)'
  BY <1>2 DEF SecretOnce
<1>5. \A r \in Requests : req'[r].pc = "mark" /\ req'[r].secret = x =>
        /\ Having(x)' \subseteq {req'[r].cred}
        /\ \A st \in Nat : <<"secret", x, st>> \in spent' => st = req'[r].step
  BY DEF SecretOnce
<1>6. ASSUME NEW st \in Nat, <<"secret", x, st>> \in spent', clock' <= st + Skew
      PROVE  \/ \A c \in Having(x)' : Marked(c, st)'
             \/ \E r \in Requests : req'[r].pc = "mark" /\ req'[r].secret = x
  <2>1. \/ \A c \in Having(x) : Marked(c, st)
        \/ \E r \in Requests : req[r].pc = "mark" /\ req[r].secret = x
    BY <1>6 DEF SecretOnce
  <2>2. \A c : Marked(c, st) => Marked(c, st)'
    BY DEF Marked
  <2> QED BY <2>1, <2>2
<1> QED BY <1>1, <1>3, <1>4, <1>5, <1>6 DEF SecretOnce

(* Who has a secret, after a step that neither enrols nor begins a check.   *)
LEMMA HavingShrinks ==
    ASSUME NEW x, \A c \in creds' : c.kind = "totp" => c \in creds,
           \A p \in Requests : req'[p].pc = "claimStep" => req'[p] = req[p]
    PROVE  Having(x)' \subseteq Having(x)
  BY DEF Having

(* A step that leaves all secrets alone, or only deletes.                   *)
LEMMA SecretStays ==
    ASSUME SecretInv, shared \subseteq shared', clock' = clock, marks' = marks,
           \A c \in creds' : c.kind = "totp" => c \in creds,
           \A s \in Scopes : secretAt'[s] \in {secretAt[s], None},
           \A x, st : <<"secret", x, st>> \in spent' => <<"secret", x, st>> \in spent,
           \A p \in Requests :
             req'[p].pc \in {"insertTotp", "mark", "deleteSecret", "claimStep"} => req'[p] = req[p],
           \A p \in Requests : req[p].pc \in {"mark", "deleteSecret"} =>
             req'[p] = req[p] \/ <<"secret", req[p].secret>> \in shared'
    PROVE  SecretInv'
<1>1. Dated'
  BY DEF SecretInv, Dated
<1>2. Scoped'
  BY DEF SecretInv, Scoped
<1>3. ASSUME NEW x \in Nat, <<"secret", x>> \notin shared' PROVE SecretOnce(x)'
  <2>1. SecretOnce(x)
    BY <1>3 DEF SecretInv
  <2>2. Having(x)' \subseteq Having(x)
    BY HavingShrinks
  <2> QED BY <1>3, <2>1, <2>2, SecretKept
<1> QED BY <1>1, <1>2, <1>3 DEF SecretInv

(* A step that accepts nothing, and takes nothing in hand.                  *)
LEMMA OnceQuiet ==
    ASSUME Shaped, Shaped', OnceInv, made <= made', shared \subseteq shared',
           UNCHANGED <<spent, twice, tries, clock, marks>>,
           \A k \in DOMAIN sets' : k \in DOMAIN sets /\ sets'[k] = sets[k],
           \A c \in creds' : c.kind = "totp" => c \in creds,
           \A s \in Scopes : secretAt'[s] \in {secretAt[s], None},
           \A s \in Scopes, p \in Purposes : codeAt'[s][p] \in {codeAt[s][p], None},
           \A p \in Requests : HoldsWhat(p)',
           \A p \in Requests :
             \/ req'[p] = req[p]
             \/ /\ req'[p].pc \notin {"use", "judge", "insertTotp", "mark", "deleteSecret",
                                      "claimStep"}
                /\ req[p].pc \in {"mark", "deleteSecret"} =>
                     <<"secret", req[p].secret>> \in shared'
                /\ req'[p].pc # "idle" =>
                     \/ req'[p].holds = {}
                     \/ /\ Busy(p) /\ req'[p].holds = req[p].holds
                        /\ req[p].pc # "claimStep"
    PROVE  OnceInv'
<1>1. MadeInv'
  BY MadeStep DEF OnceInv
<1>2. HandInv'
  BY HandStep DEF OnceInv, Busy
<1>3. SetInv'
  BY SetStep DEF OnceInv
<1>4. MessageInv'
  BY MessageStays DEF OnceInv
<1>5. SecretInv'
  BY SecretStays DEF OnceInv
<1>6. TwiceInv'
  BY DEF OnceInv, TwiceInv
<1> QED BY <1>1, <1>2, <1>3, <1>4, <1>5, <1>6 DEF OnceInv

(* What a request that moves on holds.                                      *)
LEMMA HoldsOn ==
    ASSUME Shaped, HandInv, NEW r \in Requests, Busy(r),
           \A p \in Requests \ {r} : req'[p] = req[p],
           \/ req'[r].pc = "idle"
           \/ /\ req[r] \in RegenerateReq /\ req'[r] \in RegenerateReq
              /\ req'[r].holds = req[r].holds
           \/ /\ req[r] \in TotpNewReq \cup TotpReq /\ req'[r] \in TotpReq
              /\ req'[r].holds = req[r].holds /\ req'[r].secret = req[r].secret
           \/ /\ req[r] \in SmsBeginReq /\ req'[r] \in SmsBeginReq
              /\ req'[r].holds = req[r].holds
           \/ /\ req[r] \in SendReq /\ req'[r] \in SendReq
              /\ req'[r].holds = req[r].holds
           \/ /\ req[r] \in SmsReq /\ req'[r] \in SmsReq
              /\ req'[r].holds = req[r].holds /\ req'[r].copy = req[r].copy
    PROVE  \A p \in Requests : HoldsWhat(p)'
<1>1. HoldsWhat(r) /\ \A p \in Requests \ {r} : HoldsWhat(p)'
  BY DEF HandInv, HoldsWhat
<1>2. HoldsWhat(r)'
  <2>1. CASE req'[r].pc = "idle"
    BY <2>1 DEF HoldsWhat
  <2>2. CASE /\ req[r] \in RegenerateReq /\ req'[r] \in RegenerateReq
             /\ req'[r].holds = req[r].holds
    BY <1>1, <2>2, PlaceOf DEF HoldsWhat, Busy
  <2>3. CASE /\ req[r] \in TotpNewReq \cup TotpReq /\ req'[r] \in TotpReq
             /\ req'[r].holds = req[r].holds /\ req'[r].secret = req[r].secret
    BY <1>1, <2>3, PlaceOf DEF HoldsWhat, Busy
  <2>4. CASE /\ req[r] \in SmsBeginReq /\ req'[r] \in SmsBeginReq
             /\ req'[r].holds = req[r].holds
    BY <1>1, <2>4, PlaceOf DEF HoldsWhat, Busy
  <2>5. CASE /\ req[r] \in SendReq /\ req'[r] \in SendReq
             /\ req'[r].holds = req[r].holds
    BY <1>1, <2>5, PlaceOf DEF HoldsWhat, Busy
  <2>6. CASE /\ req[r] \in SmsReq /\ req'[r] \in SmsReq
             /\ req'[r].holds = req[r].holds /\ req'[r].copy = req[r].copy
    BY <1>1, <2>6, PlaceOf DEF HoldsWhat, Busy
  <2> QED BY <2>1, <2>2, <2>3, <2>4, <2>5, <2>6
<1> QED BY <1>1, <1>2

(* What a new request holds.                                                *)
LEMMA HoldsAnew ==
    ASSUME HandInv, NEW r \in Requests, \A p \in Requests \ {r} : req'[p] = req[p], HoldsWhat(r)'
    PROVE  \A p \in Requests : HoldsWhat(p)'
  BY DEF HandInv, HoldsWhat

(* A request that accepts nothing ends, or moves on.                        *)
LEMMA OnceMove ==
    ASSUME Shaped, Shaped', OnceInv, NEW r \in Requests, Busy(r),
           \A p \in Requests \ {r} : req'[p] = req[p], made <= made', shared \subseteq shared',
           UNCHANGED <<spent, twice, tries, clock, marks>>,
           \A k \in DOMAIN sets' : k \in DOMAIN sets /\ sets'[k] = sets[k],
           \A c \in creds' : c.kind = "totp" => c \in creds,
           \A s \in Scopes : secretAt'[s] \in {secretAt[s], None},
           \A s \in Scopes, p \in Purposes : codeAt'[s][p] \in {codeAt[s][p], None},
           req[r].pc \in {"mark", "deleteSecret"} => <<"secret", req[r].secret>> \in shared',
           \/ req'[r].pc = "idle"
           \/ /\ \/ req[r] \in RegenerateReq /\ req'[r] \in RegenerateReq
                 \/ /\ req[r] \in TotpReq /\ req'[r] \in TotpReq
                    /\ req'[r].secret = req[r].secret
                 \/ req[r] \in SmsBeginReq /\ req'[r] \in SmsBeginReq
                 \/ req[r] \in SendReq /\ req'[r] \in SendReq
                 \/ /\ req[r] \in SmsReq /\ req'[r] \in SmsReq
                    /\ req'[r].copy = req[r].copy
              /\ req'[r].holds = req[r].holds
              /\ req'[r].pc \notin {"use", "judge", "insertTotp", "mark", "deleteSecret",
                                    "claimStep"}
    PROVE  OnceInv'
<1>1. \A p \in Requests : HoldsWhat(p)'
  BY HoldsOn DEF OnceInv
<1>2. req'[r].pc # "idle" => req[r].pc # "claimStep" /\ req'[r].holds = req[r].holds
  BY PlaceOf
<1>3. req'[r].pc \notin {"use", "judge", "insertTotp", "mark", "deleteSecret", "claimStep"}
  OBVIOUS
<1> QED BY <1>1, <1>2, <1>3, OnceQuiet

(* A request that takes nothing in hand begins.                             *)
LEMMA OnceStart ==
    ASSUME Shaped, Shaped', OnceInv, NEW r \in Requests, NEW q, Start(r, q),
           UNCHANGED <<rows, keys, clock, made, spent, twice, tries, shared>>,
           q \in RegenerateReq \cup RemoveReq \cup BeginReq \cup SmsBeginReq \cup SendReq
                 \cup SmsNewReq \cup CheckNewReq,
           q.holds = {}
    PROVE  OnceInv'
<1>1. /\ req'[r] = q /\ req[r].pc = "idle"
      /\ \A p \in Requests \ {r} : req'[p] = req[p]
  BY Starts DEF Shaped
<1>2. HoldsWhat(r)'
  BY <1>1 DEF HoldsWhat
<1>3. \A p \in Requests : HoldsWhat(p)'
  BY <1>1, <1>2, HoldsAnew DEF OnceInv
<1>4. q.pc \notin {"use", "judge", "insertTotp", "mark", "deleteSecret", "claimStep"}
  BY PlaceOf
<1>5. /\ UNCHANGED <<spent, twice, tries, clock, marks, sets, creds, secretAt, codeAt>>
      /\ made <= made' /\ shared \subseteq shared'
  BY DEF rows, keys, Shaped, RestShaped
<1> QED BY <1>1, <1>3, <1>4, <1>5, OnceQuiet

(* The recovery-code steps that accept nothing.                             *)
LEMMA OnceRegen ==
    ASSUME SecondFactorsAssumption, Shaped, Shaped', OnceInv, NEW r \in Requests,
           \/ RegenDelete(r) \/ FirstCodes(r) \/ Regenerate(r) \/ RemoveCommit(r)
           \/ \E c \in creds : Remove(r, c)
    PROVE  OnceInv'
<1>0. made \in Nat /\ ReqShaped
  BY DEF Shaped, RestShaped
<1>1. CASE RegenDelete(r)
  <2>1. /\ req[r] \in RegenerateReq \cup TotpReq \cup SmsReq
        /\ Busy(r) /\ req[r].pc = "regen"
    BY <1>0, <1>1, ByPlace DEF RegenDelete, Busy
  <2>2. /\ req'[r] = [req[r] EXCEPT !.pc = "insertSet", !.seen = DOMAIN sets]
        /\ \A p \in Requests \ {r} : req'[p] = req[p]
    BY <1>0, <1>1 DEF RegenDelete, ReqShaped
  <2>3. /\ UNCHANGED <<spent, twice, tries, clock, marks, sets, creds, secretAt, codeAt, shared>>
        /\ made <= made'
    BY <1>0, <1>1 DEF RegenDelete, rows, keys, history
  <2>4. DOMAIN sets \in SUBSET Nat
    BY DEF Shaped, RowsShaped
  <2>5. /\ \/ req[r] \in RegenerateReq /\ req'[r] \in RegenerateReq
           \/ req[r] \in TotpReq /\ req'[r] \in TotpReq /\ req'[r].secret = req[r].secret
           \/ req[r] \in SmsReq /\ req'[r] \in SmsReq /\ req'[r].copy = req[r].copy
        /\ req'[r].holds = req[r].holds /\ req'[r].pc = "insertSet"
    <3>1. CASE req[r] \in RegenerateReq
      BY <2>2, <2>4, <3>1 DEF RegenerateReq
    <3>2. CASE req[r] \in TotpReq
      BY <2>2, <2>4, <3>2 DEF TotpReq
    <3>3. CASE req[r] \in SmsReq
      <4>1. req'[r] \in SmsReq
        BY <2>2, <2>4, <3>3 DEF SmsReq
      <4>2. req'[r].copy = req[r].copy /\ req'[r].holds = req[r].holds /\ req'[r].pc = "insertSet"
        BY <2>2, <3>3 DEF SmsReq
      <4> QED BY <3>3, <4>1, <4>2
    <3> QED BY <2>1, <3>1, <3>2, <3>3
  <2> QED BY <2>1, <2>2, <2>3, <2>5, OnceMove
<1>2. CASE FirstCodes(r)
  <2>1. req[r] \in SmsReq /\ Busy(r) /\ req[r].pc = "first"
    BY <1>0, <1>2, ByPlace DEF FirstCodes, Busy
  <2>2. /\ UNCHANGED <<spent, twice, tries, clock, marks, sets, creds, secretAt, codeAt, shared>>
        /\ made <= made'
    BY <1>0, <1>2 DEF FirstCodes, rows, keys, history
  <2>3. /\ \A p \in Requests \ {r} : req'[p] = req[p]
        /\ \/ req'[r].pc = "idle"
           \/ /\ req'[r] \in SmsReq /\ req'[r].pc = "regen"
              /\ req'[r].holds = req[r].holds /\ req'[r].copy = req[r].copy
    BY <1>0, <1>2, <2>1, Ends, MovesOn DEF FirstCodes
  <2> QED BY <2>1, <2>2, <2>3, OnceMove
<1>3. CASE Regenerate(r)
  <2> DEFINE q == [op |-> "regenerate", pc |-> "regen", seen |-> {}, holds |-> {}]
  <2>1. Start(r, q) /\ UNCHANGED <<rows, keys, clock, made, spent, twice, tries, shared>>
    BY <1>3 DEF Regenerate
  <2>2. q \in RegenerateReq /\ q.holds = {}
    BY MayHold DEF RegenerateReq
  <2> HIDE DEF q
  <2> QED BY <2>1, <2>2, OnceStart
<1>4. CASE RemoveCommit(r)
  <2>1. req[r].pc = "remove" /\ Busy(r)
    BY <1>4 DEF RemoveCommit, Busy
  <2>2. /\ UNCHANGED <<spent, twice, tries, clock, marks, secretAt, codeAt, shared>>
        /\ made <= made' /\ creds' \subseteq creds
        /\ \A k \in DOMAIN sets' : k \in DOMAIN sets /\ sets'[k] = sets[k]
    BY <1>0, <1>4 DEF RemoveCommit, keys, history
  <2>3. req'[r].pc = "idle" /\ \A p \in Requests \ {r} : req'[p] = req[p]
    BY <1>0, <1>4, Ends DEF RemoveCommit
  <2> QED BY <2>1, <2>2, <2>3, OnceMove
<1>5. ASSUME NEW c \in creds, Remove(r, c) PROVE OnceInv'
  <2> DEFINE q == [op |-> "remove", pc |-> "remove", cred |-> c, others |-> creds \ {c},
                   holds |-> {}]
  <2>1. Start(r, q) /\ UNCHANGED <<rows, keys, clock, made, spent, twice, tries, shared>>
    BY <1>5 DEF Remove
  <2>2. c \in TotpShape \cup SmsShape /\ creds \ {c} \in SUBSET (TotpShape \cup SmsShape)
    BY DEF Shaped, RowsShaped
  <2>3. q \in RemoveReq /\ q.holds = {}
    BY <2>2, MayHold DEF RemoveReq
  <2> HIDE DEF q
  <2> QED BY <2>1, <2>3, OnceStart
<1> QED BY <1>1, <1>2, <1>3, <1>4, <1>5

(* A set of recovery codes is made.                                         *)
LEMMA OnceInsertSet ==
    ASSUME SecondFactorsAssumption, Shaped, Shaped', OnceInv, NEW r \in Requests, RegenInsert(r)
    PROVE  OnceInv'
<1> DEFINE new == made + 1
<1>0. made \in Nat /\ made' = new /\ made' \in Nat /\ ReqShaped
  BY DEF Shaped, RestShaped, RegenInsert
<1>1. Busy(r) /\ req[r].pc = "insertSet"
  BY DEF RegenInsert, Busy
<1>2. UNCHANGED <<spent, twice, tries, clock, marks, creds, secretAt, codeAt, shared>>
  BY DEF RegenInsert, keys, history
<1>3. req'[r].pc = "idle" /\ \A p \in Requests \ {r} : req'[p] = req[p]
  BY <1>0, Ends DEF RegenInsert
<1>4. \A k \in DOMAIN sets' : k = new \/ (k \in DOMAIN sets /\ sets'[k] = sets[k])
  BY DEF RegenInsert
<1>5. \A p \in Requests : HoldsWhat(p)'
  BY <1>1, <1>3, HoldsOn DEF OnceInv
<1>6. HandInv'
  BY <1>0, <1>2, <1>3, <1>5, HandStep DEF OnceInv, Busy
<1>7. MadeInv'
  BY <1>0, <1>2, <1>4, MadeStep DEF OnceInv
<1>8. SetInv'
  <2> SUFFICES ASSUME NEW k \in Nat, SetOnce(k) PROVE SetOnce(k)'
    BY <1>2 DEF OnceInv, SetInv
  <2>1. \A c : <<"set", new, c>> \notin spent
    <3> SUFFICES ASSUME NEW c, <<"set", new, c>> \in spent PROVE FALSE
      OBVIOUS
    <3>1. <<"set", new, c>>[2] <= made
      BY DEF OnceInv, MadeInv
    <3> QED BY <1>0, <3>1
  <2>2. \A c \in Codes : <<"set", k, c>> \in spent' /\ k \in DOMAIN sets' => c \notin sets'[k]
    BY <1>2, <1>4, <2>1 DEF SetOnce
  <2>3. \A p \in Requests : req'[p].pc = "use" => req'[p] = req[p]
    BY <1>3
  <2> QED BY <1>2, <2>2, <2>3 DEF SetOnce
<1>9. MessageInv' /\ SecretInv'
  BY <1>1, <1>2, <1>3, MessageStays, SecretStays DEF OnceInv
<1> QED BY <1>2, <1>6, <1>7, <1>8, <1>9 DEF OnceInv, TwiceInv

(* A recovery code is checked, and used.                                    *)
LEMMA OnceRecovery ==
    ASSUME SecondFactorsAssumption, Shaped, Shaped', OnceInv, NEW r \in Requests,
           UseRecovery(r) \/ \E k \in DOMAIN sets, code \in Codes : VerifyRecovery(r, k, code)
    PROVE  OnceInv'
<1>0. made \in Nat /\ ReqShaped
  BY DEF Shaped, RestShaped
<1>1. ASSUME NEW k \in DOMAIN sets, NEW code \in Codes, VerifyRecovery(r, k, code)
      PROVE  OnceInv'
  <2> DEFINE q == [op |-> "recovery", pc |-> "use", set |-> k, code |-> code,
                   left |-> sets[k] \ {code}, holds |-> {<<"set", k>>}]
  <2>1. Start(r, q)
    BY <1>1 DEF VerifyRecovery
  <2>2. UNCHANGED <<spent, twice, tries, clock, marks, sets, creds, secretAt, codeAt, made>>
    BY <1>1 DEF VerifyRecovery, rows, keys
  <2>3. k \in Nat /\ code \in sets[k] /\ sets[k] \in SUBSET Codes /\ k <= made
    BY <1>1 DEF VerifyRecovery, Shaped, RowsShaped, OnceInv, MadeInv
  <2>4. q \in RecoveryReq
    BY <2>3, MayHold DEF RecoveryReq
  <2>5. /\ q.holds = {<<"set", k>>} /\ q.set = k /\ q.code = code /\ q.pc = "use"
        /\ q.left = sets[k] \ {code}
    OBVIOUS
  <2> HIDE DEF q
  <2>6. /\ req'[r] = q /\ req[r].pc = "idle"
        /\ \A p \in Requests \ {r} : req'[p] = req[p]
    BY <1>0, <2>1, Starts
  <2>7. /\ shared \subseteq shared'
        /\ \/ <<"set", k>> \in shared'
           \/ \A p \in Requests \ {r} : ~ (Busy(p) /\ <<"set", k>> \in req[p].holds)
    BY <1>1 DEF VerifyRecovery, Holders
  <2>8. HandInv'
    <3>1. HoldsWhat(r)'
      BY <2>4, <2>5, <2>6 DEF HoldsWhat
    <3> QED BY <2>2, <2>3, <2>5, <2>6, <2>7, <3>1, HandTake DEF OnceInv
  <2>9. MadeInv'
    BY <1>0, <2>2, MadeStep DEF OnceInv
  <2>10. SetInv'
    <3> SUFFICES ASSUME NEW j \in Nat, SetOnce(j) PROVE SetOnce(j)'
      BY <2>7 DEF OnceInv, SetInv
    <3>1. \A c \in Codes : <<"set", j, c>> \in spent' /\ j \in DOMAIN sets' => c \notin sets'[j]
      BY <2>2 DEF SetOnce
    <3>2. j = k => \A c \in sets[k] : <<"set", k, c>> \notin spent
      BY <2>3 DEF SetOnce
    <3>3. ASSUME NEW p \in Requests, req'[p].pc = "use", req'[p].set = j
          PROVE  /\ <<"set", j, req'[p].code>> \notin spent'
                 /\ \A c \in req'[p].left : c # req'[p].code /\ <<"set", j, c>> \notin spent'
      <4>1. CASE p = r
        BY <2>2, <2>3, <2>5, <2>6, <3>2, <3>3, <4>1
      <4>2. CASE p # r
        BY <2>2, <2>6, <3>3, <4>2 DEF SetOnce
      <4> QED BY <4>1, <4>2
    <3> QED BY <3>1, <3>3 DEF SetOnce
  <2>11. MessageInv'
    BY <2>2, <2>5, <2>6, <2>7, MessageStays DEF OnceInv
  <2>12. SecretInv'
    BY <2>2, <2>5, <2>6, <2>7, SecretStays DEF OnceInv
  <2> QED BY <2>2, <2>7, <2>8, <2>9, <2>10, <2>11, <2>12 DEF OnceInv, TwiceInv
<1>2. ASSUME UseRecovery(r) PROVE OnceInv'
  <2> DEFINE q == req[r]
             k == q.set
             code == <<"set", q.set, q.code>>
  <2>1. q \in RecoveryReq /\ Busy(r) /\ q.pc = "use"
    BY <1>0, <1>2, ByPlace DEF UseRecovery, Busy
  <2>2. UNCHANGED <<tries, clock, marks, creds, secretAt, codeAt, made, shared>>
    BY <1>2 DEF UseRecovery, keys
  <2>3. /\ spent' = spent \cup {code}
        /\ twice' = IF code \in spent THEN twice \cup {code} ELSE twice
        /\ DOMAIN sets' = DOMAIN sets
        /\ \A j \in DOMAIN sets : sets'[j] = IF j = k THEN q.left ELSE sets[j]
    BY <1>2 DEF UseRecovery, Accept
  <2>4. req'[r].pc = "idle" /\ \A p \in Requests \ {r} : req'[p] = req[p]
    BY <1>0, <1>2, Ends DEF UseRecovery
  <2>5. q.holds = {<<"set", k>>} /\ k <= made /\ k \in Nat /\ q.code \in Codes
    <3>1. q.holds = {<<"set", k>>}
      BY <1>0, <2>1, InHand DEF OnceInv, HandInv
    <3>2. <<"set", k>>[2] <= made
      BY <2>1, <3>1 DEF OnceInv, HandInv
    <3> QED BY <2>1, <3>1, <3>2 DEF RecoveryReq
  <2>6. \A p \in Requests : HoldsWhat(p)'
    BY <2>1, <2>4, HoldsOn DEF OnceInv
  <2>7. HandInv'
    BY <1>0, <2>2, <2>4, <2>6, HandStep DEF OnceInv, Busy
  <2>8. MadeInv'
    BY <1>0, <2>2, <2>3, <2>5, MadeStep DEF OnceInv
  <2>9. ASSUME NEW p \in Requests \ {r}, req[p].pc = "use", req[p].set = k
        PROVE  <<"set", k>> \in shared
    <3>1. Busy(p) /\ req[p].holds = {<<"set", k>>}
      BY <1>0, <2>9, InHand DEF OnceInv, HandInv, Busy
    <3> QED BY <2>1, <2>5, <2>9, <3>1 DEF OnceInv, HandInv, HeldByOne
  <2>10. SetInv'
    <3> SUFFICES ASSUME NEW j \in Nat, <<"set", j>> \notin shared, SetOnce(j) PROVE SetOnce(j)'
      BY <2>2 DEF OnceInv, SetInv
    <3>1. CASE j # k
      <4>1. \A c : <<"set", j, c>> \in spent' <=> <<"set", j, c>> \in spent
        BY <2>3, <3>1
      <4>2. \A c \in Codes : <<"set", j, c>> \in spent' /\ j \in DOMAIN sets' => c \notin sets'[j]
        BY <2>3, <3>1, <4>1 DEF SetOnce
      <4>3. \A p \in Requests : req'[p].pc = "use" => req'[p] = req[p]
        BY <2>4
      <4> QED BY <4>1, <4>2, <4>3 DEF SetOnce
    <3>2. CASE j = k
      <4>1. \A c \in q.left : c # q.code /\ <<"set", k, c>> \notin spent
        BY <2>1, <3>2 DEF SetOnce
      <4>2. \A c \in q.left : <<"set", k, c>> \notin spent'
        BY <2>3, <4>1
      <4>3. \A c \in Codes : <<"set", j, c>> \in spent' /\ j \in DOMAIN sets' => c \notin sets'[j]
        BY <2>3, <3>2, <4>2
      <4>4. \A p \in Requests : ~ (req'[p].pc = "use" /\ req'[p].set = k)
        BY <2>4, <2>9, <3>2
      <4> QED BY <3>2, <4>3, <4>4 DEF SetOnce
    <3> QED BY <3>1, <3>2
  <2>11. MessageInv'
    <3>1. \A n : <<"message", n>> \in spent' => <<"message", n>> \in spent
      BY <2>3
    <3> QED BY <2>2, <2>4, <3>1, MessageStays DEF OnceInv
  <2>12. SecretInv'
    <3>1. \A x, st : <<"secret", x, st>> \in spent' => <<"secret", x, st>> \in spent
      BY <2>3
    <3> QED BY <2>1, <2>2, <2>4, <3>1, SecretStays DEF OnceInv
  <2>13. TwiceInv'
    <3>1. code \in spent => <<"set", k>> \in shared
      BY <2>1, <2>5 DEF OnceInv, SetInv, SetOnce
    <3>2. code[1] = "set" /\ code[2] = k
      OBVIOUS
    <3> HIDE DEF code
    <3> QED BY <2>2, <2>3, <3>1, <3>2 DEF OnceInv, TwiceInv
  <2> QED BY <2>7, <2>8, <2>10, <2>11, <2>12, <2>13 DEF OnceInv
<1> QED BY <1>1, <1>2

(* The steps of codes by message that neither store, check nor judge one.   *)
LEMMA OnceChannel ==
    ASSUME SecondFactorsAssumption, Shaped, Shaped', OnceInv, NEW r \in Requests,
           \/ Switch(r) \/ NotePending(r) \/ ClaimPause(r)
           \/ InsertSms(r) \/ DeletePending(r) \/ MarkVerified(r)
           \/ \E s \in Scopes : SendCode(r, s)
           \/ \E s \in Scopes, d \in Destinations : SmsBegin(r, s, d)
           \/ \E s \in Scopes, n \in Typed : SmsConfirm(r, s, n) \/ SmsVerify(r, s, n)
    PROVE  OnceInv'
<1>0. made \in Nat /\ ReqShaped
  BY DEF Shaped, RestShaped
<1>1. CASE Switch(r) \/ NotePending(r)
  <2>1. /\ req[r] \in SmsBeginReq /\ Busy(r) /\ req[r].op = "smsBegin"
        /\ req[r].pc \notin {"mark", "deleteSecret"}
    BY <1>0, <1>1, ByPlace, PlaceOf DEF Switch, NotePending, Busy
  <2>2. /\ UNCHANGED <<spent, twice, tries, clock, marks, sets, creds, secretAt, shared>>
        /\ made <= made'
    BY <1>0, <1>1 DEF Switch, NotePending, rows, history
  <2>3. \A s \in Scopes, p \in Purposes : codeAt'[s][p] \in {codeAt[s][p], None}
    BY <1>1 DEF Switch, NotePending, Shaped, KeysShaped
  <2>4. /\ \A p \in Requests \ {r} : req'[p] = req[p]
        /\ req'[r] \in SmsBeginReq /\ req'[r].holds = req[r].holds
        /\ req'[r].pc \in {"note", "pause"}
    BY <1>0, <1>1, <2>1, MovesOn DEF Switch, NotePending
  <2> QED BY <1>0, <2>1, <2>2, <2>3, <2>4, OnceMove
<1>2. CASE ClaimPause(r)
  <2>1. /\ req[r] \in SmsBeginReq \cup SendReq /\ Busy(r) /\ req[r].pc = "pause"
        /\ req[r] \in SmsBeginReq => req[r].op = "smsBegin"
    BY <1>0, <1>2, ByPlace, PlaceOf DEF ClaimPause, Busy
  <2>2. /\ UNCHANGED <<spent, twice, tries, clock, marks, sets, creds, secretAt, codeAt, shared>>
        /\ made <= made'
    BY <1>0, <1>2 DEF ClaimPause, rows, history
  <2>3. /\ \A p \in Requests \ {r} : req'[p] = req[p]
        /\ \/ req'[r].pc = "idle"
           \/ /\ \/ req[r] \in SmsBeginReq /\ req'[r] \in SmsBeginReq
                 \/ req[r] \in SendReq /\ req'[r] \in SendReq
              /\ req'[r].holds = req[r].holds /\ req'[r].pc = "send"
    BY <1>0, <1>2, <2>1, Ends, MovesOn DEF ClaimPause
  <2> QED BY <1>0, <2>1, <2>2, <2>3, OnceMove
<1>3. CASE InsertSms(r) \/ DeletePending(r) \/ MarkVerified(r)
  <2>1. /\ req[r] \in SmsReq /\ Busy(r)
        /\ req[r].pc \in {"insertSms", "deletePending", "verified"}
    BY <1>0, <1>3, ByPlace DEF InsertSms, DeletePending, MarkVerified, Busy
  <2>2. /\ UNCHANGED <<spent, twice, tries, clock, marks, sets, secretAt, codeAt, shared>>
        /\ made <= made'
    BY <1>0, <1>3 DEF InsertSms, DeletePending, MarkVerified, rows, keys, history
  <2>3. \A c \in creds' : c.kind = "totp" => c \in creds
    BY <1>3 DEF InsertSms, DeletePending, MarkVerified, rows, Sms
  <2>4. /\ \A p \in Requests \ {r} : req'[p] = req[p]
        /\ req'[r] \in SmsReq /\ req'[r].holds = req[r].holds /\ req'[r].copy = req[r].copy
        /\ req'[r].pc \in {"deletePending", "verified", "first"}
    BY <1>0, <1>3, <2>1, MovesOn DEF InsertSms, DeletePending, MarkVerified
  <2> QED BY <2>1, <2>2, <2>3, <2>4, OnceMove
<1>4. ASSUME NEW s \in Scopes, SendCode(r, s) PROVE OnceInv'
  <2> DEFINE q == [op |-> "send", pc |-> "pause", scope |-> s, purpose |-> "verify",
                   to |-> phone, holds |-> {}]
  <2>1. Start(r, q) /\ UNCHANGED <<rows, keys, clock, made, spent, twice, tries, shared>>
    BY <1>4 DEF SendCode, history
  <2>2. phone \in Destinations
    BY <1>4 DEF SendCode, Shaped, RowsShaped
  <2>3. q \in SendReq /\ q.holds = {}
    BY <2>2, MayHold DEF SendReq
  <2> HIDE DEF q
  <2> QED BY <2>1, <2>3, OnceStart
<1>5. ASSUME NEW s \in Scopes, NEW d \in Destinations, SmsBegin(r, s, d) PROVE OnceInv'
  <2> DEFINE q == [op |-> "smsBegin", pc |-> "switch", scope |-> s, purpose |-> "enrol",
                   to |-> d, previous |-> pending[s], holds |-> {}]
  <2>1. Start(r, q) /\ UNCHANGED <<rows, keys, clock, made, spent, twice, tries, shared>>
    BY <1>5 DEF SmsBegin
  <2>2. pending[s] \in Destinations \cup {None}
    BY DEF Shaped, KeysShaped
  <2>3. q \in SmsBeginReq /\ q.holds = {}
    BY <2>2, MayHold DEF SmsBeginReq
  <2> HIDE DEF q
  <2> QED BY <2>1, <2>3, OnceStart
<1>6. ASSUME NEW s \in Scopes, NEW n \in Typed, SmsConfirm(r, s, n) PROVE OnceInv'
  <2> DEFINE q == [op |-> "sms", pc |-> "check", scope |-> s, purpose |-> "enrol", n |-> n,
                   to |-> pending[s], copy |-> None, seen |-> {}, holds |-> {}]
  <2>1. Start(r, q) /\ UNCHANGED <<rows, keys, clock, made, spent, twice, tries, shared>>
    BY <1>6 DEF SmsConfirm
  <2>2. pending[s] \in Destinations /\ n \in Nat
    BY <1>6 DEF SmsConfirm, Shaped, KeysShaped, RestShaped, Typed
  <2>3. q \in SmsNewReq /\ q.holds = {}
    BY <2>2, MayHold DEF SmsNewReq
  <2> HIDE DEF q
  <2> QED BY <2>1, <2>3, OnceStart
<1>7. ASSUME NEW s \in Scopes, NEW n \in Typed, SmsVerify(r, s, n) PROVE OnceInv'
  <2> DEFINE q == [op |-> "verify", pc |-> "check", scope |-> s, purpose |-> "verify", n |-> n,
                   to |-> None, copy |-> None, holds |-> {}]
  <2>1. Start(r, q) /\ UNCHANGED <<rows, keys, clock, made, spent, twice, tries, shared>>
    BY <1>7 DEF SmsVerify, history
  <2>2. n \in Nat
    BY DEF Shaped, RestShaped, Typed
  <2>3. q \in CheckNewReq /\ q.holds = {}
    BY <2>2, MayHold DEF CheckNewReq
  <2> HIDE DEF q
  <2> QED BY <2>1, <2>3, OnceStart
<1> QED BY <1>1, <1>2, <1>3, <1>4, <1>5, <1>6, <1>7

(* Where the requests that send or check a code find it.                    *)
LEMMA SlotOf ==
    ASSUME ReqShaped, NEW r \in Requests, req[r].pc \in {"send", "check", "judge"}
    PROVE  /\ req[r].scope \in Scopes /\ req[r].purpose \in Purposes
           /\ req[r].pc = "judge" => req[r].copy \in CodeShape
<1>1. req[r] \in SmsBeginReq \cup SendReq \cup SmsNewReq \cup CheckNewReq \cup SmsReq \cup CheckReq
  BY ByPlace
<1>2. req[r] \in SmsBeginReq => req[r].scope \in Scopes /\ req[r].purpose \in Purposes
  BY DEF SmsBeginReq, Purposes
<1>3. req[r] \in SendReq => req[r].scope \in Scopes /\ req[r].purpose \in Purposes
  BY DEF SendReq, Purposes
<1>4. req[r] \in SmsNewReq \cup CheckNewReq =>
        req[r].scope \in Scopes /\ req[r].purpose \in Purposes
  BY DEF SmsNewReq, CheckNewReq, Purposes
<1>5. req[r] \in SmsReq \cup CheckReq =>
        /\ req[r].scope \in Scopes /\ req[r].purpose \in Purposes
        /\ req[r].copy \in CodeShape
  BY DEF SmsReq, CheckReq, Purposes
<1>6. req[r].pc = "judge" => req[r] \in SmsReq \cup CheckReq
  BY ByPlace
<1> QED BY <1>1, <1>2, <1>3, <1>4, <1>5, <1>6

(* A code is stored.                                                        *)
LEMMA OnceStore ==
    ASSUME SecondFactorsAssumption, Shaped, Shaped', OnceInv, NEW r \in Requests, StoreCode(r)
    PROVE  OnceInv'
<1>0. made \in Nat /\ ReqShaped
  BY DEF Shaped, RestShaped
<1> PICK new \in Nat : new = made + 1
  BY <1>0
<1> DEFINE q == req[r]
           code == [n |-> new, to |-> q.to, attempts |-> 0]
<1>1. Busy(r) /\ q.pc = "send" /\ q.scope \in Scopes /\ q.purpose \in Purposes
  BY <1>0, SlotOf DEF StoreCode, Busy
<1>2. UNCHANGED <<spent, twice, clock, marks, sets, creds, secretAt, shared>>
  BY DEF StoreCode, rows
<1>3. req'[r].pc = "idle" /\ \A p \in Requests \ {r} : req'[p] = req[p]
  BY <1>0, Ends DEF StoreCode
<1>4. CASE UNCHANGED <<codeAt, made, tries>>
  <2>1. made <= made'
    BY <1>0, <1>4
  <2> QED BY <1>1, <1>2, <1>3, <1>4, <2>1, OnceMove
<1>5. ASSUME made' = new,
             codeAt' = [codeAt EXCEPT ![q.scope][q.purpose] = code],
             tries' = [n \in DOMAIN tries \cup {new} |-> IF n = new THEN 0 ELSE tries[n]]
      PROVE  OnceInv'
  <2>1. code.n = new /\ code.attempts = 0
    OBVIOUS
  <2> HIDE DEF code
  <2>2. \A s \in Scopes, p \in Purposes :
          codeAt'[s][p] = IF s = q.scope /\ p = q.purpose THEN code ELSE codeAt[s][p]
    BY <1>1, <1>5 DEF Shaped, KeysShaped
  <2>3. /\ DOMAIN tries' = DOMAIN tries \cup {new} /\ tries'[new] = 0
        /\ \A n \in DOMAIN tries : n <= made /\ n # new /\ n \in Nat /\ tries'[n] = tries[n]
    BY <1>0, <1>5 DEF OnceInv, MadeInv, Shaped, RestShaped
  <2>4. \A p \in Requests : HoldsWhat(p)'
    BY <1>1, <1>3, HoldsOn DEF OnceInv
  <2>5. HandInv'
    BY <1>0, <1>2, <1>3, <1>5, <2>4, HandStep DEF OnceInv, Busy
  <2>6. MadeInv'
    BY <1>0, <1>2, <1>5, <2>3, MadeStep DEF OnceInv
  <2>7. SetInv' /\ SecretInv'
    BY <1>1, <1>2, <1>3, SetStep, SecretStays DEF OnceInv
  <2>8. \A n \in Nat, s \in Scopes, p \in Purposes :
          Placed(n, s, p)' => Placed(n, s, p) \/ (n = new /\ s = q.scope /\ p = q.purpose)
    BY <1>3, <2>1, <2>2 DEF Placed
  <2>9. \A s \in Scopes, p \in Purposes : ~ Placed(new, s, p)
    BY <1>0, <2>3 DEF OnceInv, MessageInv, PlacedOnce
  <2>10. PlacedOnce'
    BY <2>3, <2>8, <2>9 DEF OnceInv, MessageInv, PlacedOnce
  <2>11. <<"message", new>> \notin spent
    <3> SUFFICES ASSUME <<"message", new>> \in spent PROVE FALSE
      OBVIOUS
    <3>1. <<"message", new>>[2] <= made
      BY DEF OnceInv, MadeInv
    <3> QED BY <1>0, <3>1
  <2>12. \A p \in Requests : req[p].pc = "judge" => req[p].copy.n # new
    <3> SUFFICES ASSUME NEW p \in Requests, req[p].pc = "judge", req[p].copy.n = new PROVE FALSE
      OBVIOUS
    <3>1. req[p].scope \in Scopes /\ req[p].purpose \in Purposes
      BY <1>0, SlotOf
    <3>2. Placed(new, req[p].scope, req[p].purpose)
      BY DEF Placed
    <3> QED BY <2>9, <3>1, <3>2
  <2>13. MessageOnce(new)'
    <3>1. MaxOtpAttempts \in Nat /\ 0 < MaxOtpAttempts
      BY DEF SecondFactorsAssumption
    <3>2. \A s \in Scopes, p \in Purposes : codeAt'[s][p] # None /\ codeAt'[s][p].n = new =>
            codeAt'[s][p] = code
      BY <2>2, <2>9 DEF Placed
    <3>3. \A p \in Requests : ~ (req'[p].pc = "judge" /\ req'[p].copy.n = new)
      BY <1>3, <2>12
    <3> QED BY <1>2, <2>1, <2>3, <2>11, <3>1, <3>2, <3>3 DEF MessageOnce
  <2>14. ASSUME NEW n \in DOMAIN tries, MessageOnce(n) PROVE MessageOnce(n)'
    <3>1. \A s \in Scopes, p \in Purposes : codeAt'[s][p] # None /\ codeAt'[s][p].n = n =>
            codeAt'[s][p] = codeAt[s][p]
      BY <2>1, <2>2, <2>3
    <3> QED BY <1>2, <1>3, <2>3, <2>14, <3>1 DEF MessageOnce
  <2>15. MessageInv'
    BY <1>2, <2>3, <2>10, <2>13, <2>14 DEF OnceInv, MessageInv
  <2> QED BY <1>2, <2>5, <2>6, <2>7, <2>15 DEF OnceInv, TwiceInv
<1> QED BY <1>4, <1>5 DEF StoreCode

(* A code is read.                                                          *)
LEMMA OnceRead ==
    ASSUME SecondFactorsAssumption, Shaped, Shaped', OnceInv, NEW r \in Requests, CheckGet(r)
    PROVE  OnceInv'
<1> DEFINE found == codeAt[req[r].scope][req[r].purpose]
           store == <<"message", found.n>>
<1>0. made \in Nat /\ ReqShaped
  BY DEF Shaped, RestShaped
<1>1. /\ req[r] \in SmsNewReq \cup CheckNewReq /\ Busy(r) /\ req[r].pc = "check"
      /\ req[r].scope \in Scopes /\ req[r].purpose \in Purposes
  BY <1>0, ByPlace, SlotOf DEF CheckGet, Busy
<1>2. UNCHANGED <<spent, twice, tries, clock, marks, sets, creds, secretAt, codeAt, made>>
  BY DEF CheckGet, rows, keys
<1>3. ASSUME found = None PROVE OnceInv'
  <2>1. req'[r].pc = "idle" /\ \A p \in Requests \ {r} : req'[p] = req[p]
    BY <1>0, <1>3, Ends DEF CheckGet
  <2>2. shared' = shared /\ made <= made'
    BY <1>0, <1>2, <1>3 DEF CheckGet
  <2> QED BY <1>1, <1>2, <2>1, <2>2, OnceMove
<1>4. ASSUME found # None PROVE OnceInv'
  <2>1. found \in CodeShape /\ found.n \in Nat
    BY <1>1, <1>4 DEF Shaped, KeysShaped, CodeShape
  <2>2. /\ req'[r] = [req[r] EXCEPT !.pc = "judge", !.copy = found, !.holds = {store}]
        /\ \A p \in Requests \ {r} : req'[p] = req[p]
    BY <1>0, <1>4 DEF CheckGet, ReqShaped
  <2>3. /\ shared \subseteq shared'
        /\ \/ store \in shared'
           \/ \A p \in Requests \ {r} : ~ (Busy(p) /\ store \in req[p].holds)
    BY <1>4 DEF CheckGet, Holders
  <2>4. Placed(found.n, req[r].scope, req[r].purpose)
    BY <1>4 DEF Placed
  <2>5. found.n \in DOMAIN tries /\ store[2] = found.n /\ store[2] <= made
    BY <1>1, <2>1, <2>4 DEF OnceInv, MessageInv, PlacedOnce, MadeInv
  <2>6. found = codeAt[req[r].scope][req[r].purpose] /\ store = <<"message", found.n>>
    OBVIOUS
  <2>7. {store} \in Holding
    BY <2>1, MayHold
  <2> HIDE DEF found, store
  <2>8. /\ req'[r] \in SmsReq \cup CheckReq /\ req'[r].pc = "judge" /\ req'[r].copy = found
        /\ req'[r].holds = {store}
        /\ req'[r].scope = req[r].scope /\ req'[r].purpose = req[r].purpose
    <3>1. CASE req[r] \in SmsNewReq
      <4>1. req'[r] \in SmsReq
        BY <2>1, <2>2, <2>7, <3>1 DEF SmsNewReq, SmsReq
      <4>2. /\ req'[r].pc = "judge" /\ req'[r].copy = found /\ req'[r].holds = {store}
            /\ req'[r].scope = req[r].scope /\ req'[r].purpose = req[r].purpose
        BY <2>2, <3>1 DEF SmsNewReq
      <4> QED BY <4>1, <4>2
    <3>2. CASE req[r] \in CheckNewReq
      <4>1. req'[r] \in CheckReq
        BY <2>1, <2>2, <2>7, <3>2 DEF CheckNewReq, CheckReq
      <4>2. /\ req'[r].pc = "judge" /\ req'[r].copy = found /\ req'[r].holds = {store}
            /\ req'[r].scope = req[r].scope /\ req'[r].purpose = req[r].purpose
        BY <2>2, <3>2 DEF CheckNewReq
      <4> QED BY <4>1, <4>2
    <3> QED BY <1>1, <3>1, <3>2
  <2>9. HandInv'
    <3>1. HoldsWhat(r)'
      BY <2>6, <2>8 DEF HoldsWhat
    <3> QED BY <1>2, <2>2, <2>3, <2>5, <2>8, <3>1, HandTake DEF OnceInv
  <2>10. MadeInv'
    BY <1>0, <1>2, MadeStep DEF OnceInv
  <2>11. SetInv' /\ SecretInv'
    BY <1>1, <1>2, <2>2, <2>3, <2>8, SetStep, SecretStays DEF OnceInv
  <2>12. PlacedOnce'
    <3>1. \A n \in Nat, s \in Scopes, p \in Purposes : Placed(n, s, p)' => Placed(n, s, p)
      <4> SUFFICES ASSUME NEW n \in Nat, NEW s \in Scopes, NEW p \in Purposes, Placed(n, s, p)'
                   PROVE  Placed(n, s, p)
        OBVIOUS
      <4>1. CASE codeAt'[s][p] # None /\ codeAt'[s][p].n = n
        BY <1>2, <4>1 DEF Placed
      <4>2. ASSUME NEW o \in Requests, req'[o].pc = "judge", req'[o].copy.n = n,
                   req'[o].scope = s, req'[o].purpose = p
            PROVE  Placed(n, s, p)
        <5>1. CASE o # r
          BY <2>2, <4>2, <5>1 DEF Placed
        <5>2. CASE o = r
          BY <1>4, <2>6, <2>8, <4>2, <5>2 DEF Placed
        <5> QED BY <5>1, <5>2
      <4> QED BY <4>1, <4>2 DEF Placed
    <3> QED BY <1>2, <3>1 DEF OnceInv, MessageInv, PlacedOnce
  <2>13. ASSUME NEW n \in DOMAIN tries, MessageOnce(n) PROVE MessageOnce(n)'
    <3>1. found.n = n => /\ <<"message", n>> \notin spent
                         /\ tries[n] = found.attempts /\ found.attempts < MaxOtpAttempts
      BY <1>1, <1>4, <2>6, <2>13 DEF MessageOnce
    <3>2. ASSUME NEW p \in Requests, req'[p].pc = "judge", req'[p].copy.n = n
          PROVE  /\ <<"message", n>> \notin spent'
                 /\ tries'[n] = req'[p].copy.attempts /\ req'[p].copy.attempts < MaxOtpAttempts
      <4>1. CASE p = r
        BY <1>2, <2>8, <3>1, <3>2, <4>1
      <4>2. CASE p # r
        BY <1>2, <2>2, <2>13, <3>2, <4>2 DEF MessageOnce
      <4> QED BY <4>1, <4>2
    <3>3. /\ tries'[n] <= MaxOtpAttempts
          /\ \A s \in Scopes, p \in Purposes : codeAt'[s][p] # None /\ codeAt'[s][p].n = n =>
               /\ <<"message", n>> \notin spent'
               /\ tries'[n] = codeAt'[s][p].attempts /\ codeAt'[s][p].attempts < MaxOtpAttempts
      BY <1>2, <2>13 DEF MessageOnce
    <3> QED BY <3>2, <3>3 DEF MessageOnce
  <2>14. MessageInv'
    BY <1>2, <2>3, <2>12, <2>13 DEF OnceInv, MessageInv
  <2> QED BY <1>2, <2>3, <2>9, <2>10, <2>11, <2>14 DEF OnceInv, TwiceInv
<1> QED BY <1>3, <1>4

(* A code is judged.                                                        *)
LEMMA OnceJudge ==
    ASSUME SecondFactorsAssumption, Shaped, Shaped', OnceInv, NEW r \in Requests, Judge(r)
    PROVE  OnceInv'
<1>0. made \in Nat /\ ReqShaped /\ MaxOtpAttempts \in Nat
  BY DEF Shaped, RestShaped, SecondFactorsAssumption
<1> DEFINE q == req[r]
           counted == [q.copy EXCEPT !.attempts = @ + 1]
           after == IF q.n = q.copy.n \/ counted.attempts >= MaxOtpAttempts THEN None ELSE counted
<1>1. /\ q \in SmsReq \cup CheckReq /\ Busy(r) /\ q.pc = "judge"
      /\ q.scope \in Scopes /\ q.purpose \in Purposes /\ q.copy \in CodeShape
  BY <1>0, ByPlace, SlotOf DEF Judge, Busy
<1>2. UNCHANGED <<clock, marks, sets, creds, secretAt, made, shared>>
  BY DEF Judge, rows
<1>3. PICK n \in Nat : n = q.copy.n
  BY <1>1 DEF CodeShape
<1>4. /\ \A p \in Requests \ {r} : req'[p] = req[p]
      /\ \/ req'[r].pc = "idle"
         \/ /\ q \in SmsReq /\ req'[r] \in SmsReq /\ req'[r].pc = "insertSms"
            /\ req'[r].holds = q.holds /\ req'[r].copy = q.copy
  <2>1. Finished(r) \/ (Goto(r, "insertSms") /\ q.op = "sms")
    BY DEF Judge
  <2>2. q.op = "sms" => q \in SmsReq
    BY <1>1, PlaceOf
  <2>3. CASE Finished(r)
    BY <1>0, <2>3, Ends
  <2>4. CASE Goto(r, "insertSms") /\ q \in SmsReq
    BY <1>0, <1>1, <2>4, MovesOn
  <2> QED BY <2>1, <2>2, <2>3, <2>4
<1>5. q.holds = {<<"message", n>>}
  BY <1>0, <1>1, <1>3, InHand DEF OnceInv, HandInv
<1>6. Placed(n, q.scope, q.purpose) /\ n \in DOMAIN tries /\ n <= made
  <2>1. Placed(n, q.scope, q.purpose)
    BY <1>1, <1>3 DEF Placed
  <2>2. n \in DOMAIN tries
    BY <1>1, <2>1 DEF OnceInv, MessageInv, PlacedOnce
  <2> QED BY <2>1, <2>2 DEF OnceInv, MadeInv
<1>7. \A s \in Scopes, p \in Purposes :
        codeAt'[s][p] = IF s = q.scope /\ p = q.purpose THEN after ELSE codeAt[s][p]
  BY <1>1 DEF Judge, Shaped, KeysShaped
<1>8. /\ after = None \/ (after.n = n /\ after.attempts = q.copy.attempts + 1
                          /\ after.attempts < MaxOtpAttempts /\ q.n # n)
      /\ q.n = n => after = None
  BY <1>0, <1>1, <1>3 DEF CodeShape
<1> HIDE DEF after
<1>9. \A p \in Requests : HoldsWhat(p)'
  BY <1>1, <1>4, HoldsOn DEF OnceInv
<1>10. HandInv'
  BY <1>0, <1>1, <1>2, <1>4, <1>9, HandStep DEF OnceInv, Busy
<1>11. \A p \in Requests : req'[p].pc = "judge" => p # r /\ req'[p] = req[p]
  BY <1>4
<1>12. ASSUME NEW p \in Requests \ {r}, req[p].pc = "judge", req[p].copy.n = n
       PROVE  <<"message", n>> \in shared
  <2>1. Busy(p) /\ req[p].holds = {<<"message", n>>}
    BY <1>0, <1>12, InHand DEF OnceInv, HandInv, Busy
  <2> QED BY <1>1, <1>5, <1>12, <2>1 DEF OnceInv, HandInv, HeldByOne
<1>13. \A m \in Nat, s \in Scopes, p \in Purposes : Placed(m, s, p)' => Placed(m, s, p)
  <2> SUFFICES ASSUME NEW m \in Nat, NEW s \in Scopes, NEW p \in Purposes, Placed(m, s, p)'
               PROVE  Placed(m, s, p)
    OBVIOUS
  <2>1. ASSUME codeAt'[s][p] # None, codeAt'[s][p].n = m PROVE Placed(m, s, p)
    <3>1. CASE s = q.scope /\ p = q.purpose
      BY <1>6, <1>7, <1>8, <2>1, <3>1
    <3>2. CASE ~ (s = q.scope /\ p = q.purpose)
      BY <1>7, <2>1, <3>2 DEF Placed
    <3> QED BY <3>1, <3>2
  <2>2. ASSUME NEW o \in Requests, req'[o].pc = "judge", req'[o].copy.n = m,
               req'[o].scope = s, req'[o].purpose = p
        PROVE  Placed(m, s, p)
    BY <1>11, <2>2 DEF Placed
  <2> QED BY <2>1, <2>2 DEF Placed
<1>14. \A s \in Scopes, p \in Purposes :
         codeAt[s][p] # None /\ codeAt[s][p].n = n => s = q.scope /\ p = q.purpose
  BY <1>1, <1>3, <1>6 DEF OnceInv, MessageInv, PlacedOnce, Placed
<1>15. ASSUME NEW m \in DOMAIN tries, m # n, MessageOnce(m), tries'[m] = tries[m],
              <<"message", m>> \in spent' => <<"message", m>> \in spent
       PROVE  MessageOnce(m)'
  <2>1. \A s \in Scopes, p \in Purposes : codeAt'[s][p] # None /\ codeAt'[s][p].n = m =>
          codeAt'[s][p] = codeAt[s][p]
    BY <1>7, <1>8, <1>15
  <2> QED BY <1>11, <1>15, <2>1 DEF MessageOnce
<1>16. <<"message", n>> \in shared \/
         /\ <<"message", n>> \notin spent /\ tries[n] <= MaxOtpAttempts
         /\ tries[n] = q.copy.attempts /\ q.copy.attempts < MaxOtpAttempts
  BY <1>1, <1>3, <1>6 DEF OnceInv, MessageInv, MessageOnce
<1>17. ASSUME q.n = n PROVE OnceInv'
  <2>1. /\ spent' = spent \cup {<<"message", n>>} /\ tries' = tries
        /\ twice' = IF <<"message", n>> \in spent THEN twice \cup {<<"message", n>>} ELSE twice
    BY <1>3, <1>17 DEF Judge, Accept
  <2>2. PlacedOnce'
    BY <1>13, <2>1 DEF OnceInv, MessageInv, PlacedOnce
  <2>3. ASSUME <<"message", n>> \notin shared PROVE MessageOnce(n)'
    <3>1. \A s \in Scopes, p \in Purposes : ~ (codeAt'[s][p] # None /\ codeAt'[s][p].n = n)
      BY <1>7, <1>8, <1>14, <1>17
    <3>2. \A p \in Requests : ~ (req'[p].pc = "judge" /\ req'[p].copy.n = n)
      BY <1>11, <1>12, <2>3
    <3> QED BY <1>16, <2>1, <2>3, <3>1, <3>2 DEF MessageOnce
  <2>4. ASSUME NEW m \in DOMAIN tries, <<"message", m>> \notin shared, m # n
        PROVE  MessageOnce(m)'
    <3>1. MessageOnce(m)
      BY <2>4 DEF OnceInv, MessageInv
    <3>2. <<"message", m>> \in spent' => <<"message", m>> \in spent
      BY <2>1, <2>4
    <3> QED BY <1>15, <2>1, <2>4, <3>1, <3>2
  <2>5. MessageInv'
    BY <1>2, <2>1, <2>2, <2>3, <2>4 DEF MessageInv
  <2>6. MadeInv'
    <3>1. <<"message", n>>[2] = n
      OBVIOUS
    <3> QED BY <1>0, <1>2, <1>6, <2>1, <3>1, MadeStep DEF OnceInv
  <2>7. SetInv'
    <3>1. \A k, c : <<"set", k, c>> \in spent' => <<"set", k, c>> \in spent
      BY <2>1
    <3> QED BY <1>2, <1>4, <3>1, SetStep DEF OnceInv
  <2>8. SecretInv'
    <3>1. \A x, st : <<"secret", x, st>> \in spent' => <<"secret", x, st>> \in spent
      BY <2>1
    <3> QED BY <1>1, <1>2, <1>4, <3>1, SecretStays DEF OnceInv
  <2>9. TwiceInv'
    <3> DEFINE code == <<"message", n>>
    <3>1. code[1] = "message" /\ code[2] = n /\ <<code[1], code[2]>> = <<"message", n>>
      OBVIOUS
    <3>2. code \in spent => <<code[1], code[2]>> \in shared
      BY <1>16
    <3>3. twice' = IF code \in spent THEN twice \cup {code} ELSE twice
      BY <2>1
    <3> HIDE DEF code
    <3> QED BY <1>2, <3>2, <3>3 DEF OnceInv, TwiceInv
  <2> QED BY <1>10, <2>5, <2>6, <2>7, <2>8, <2>9 DEF OnceInv
<1>18. ASSUME q.n # n PROVE OnceInv'
  <2>1. UNCHANGED <<spent, twice>> /\ tries' = [tries EXCEPT ![n] = @ + 1]
    BY <1>3, <1>18 DEF Judge
  <2>2. /\ DOMAIN tries' = DOMAIN tries /\ tries'[n] = tries[n] + 1
        /\ \A m \in DOMAIN tries : m # n => tries'[m] = tries[m]
    BY <1>6, <2>1 DEF Shaped, RestShaped
  <2>3. PlacedOnce'
    BY <1>13, <2>2 DEF OnceInv, MessageInv, PlacedOnce
  <2>4. ASSUME <<"message", n>> \notin shared PROVE MessageOnce(n)'
    <3>0. q.copy.attempts \in Nat
      BY <1>1 DEF CodeShape
    <3>1. tries'[n] = q.copy.attempts + 1 /\ tries'[n] <= MaxOtpAttempts
      BY <1>0, <1>16, <2>2, <2>4, <3>0
    <3>2. \A s \in Scopes, p \in Purposes : codeAt'[s][p] # None /\ codeAt'[s][p].n = n =>
            codeAt'[s][p] = after /\ after # None
      BY <1>7, <1>14
    <3>3. \A s \in Scopes, p \in Purposes : codeAt'[s][p] # None /\ codeAt'[s][p].n = n =>
            tries'[n] = codeAt'[s][p].attempts /\ codeAt'[s][p].attempts < MaxOtpAttempts
      BY <1>8, <3>1, <3>2
    <3>4. \A p \in Requests : ~ (req'[p].pc = "judge" /\ req'[p].copy.n = n)
      BY <1>11, <1>12, <2>4
    <3>5. <<"message", n>> \notin spent'
      BY <1>16, <2>1, <2>4
    <3> QED BY <3>1, <3>3, <3>4, <3>5 DEF MessageOnce
  <2>5. ASSUME NEW m \in DOMAIN tries, <<"message", m>> \notin shared, m # n
        PROVE  MessageOnce(m)'
    <3>1. MessageOnce(m)
      BY <2>5 DEF OnceInv, MessageInv
    <3> QED BY <1>15, <2>1, <2>2, <2>5, <3>1
  <2>6. MessageInv'
    BY <1>2, <2>2, <2>3, <2>4, <2>5 DEF MessageInv
  <2>7. MadeInv'
    BY <1>0, <1>2, <2>1, <2>2, MadeStep DEF OnceInv
  <2>8. SetInv' /\ SecretInv'
    BY <1>1, <1>2, <1>4, <2>1, SetStep, SecretStays DEF OnceInv
  <2> QED BY <1>2, <1>10, <2>1, <2>6, <2>7, <2>8 DEF OnceInv, TwiceInv
<1> QED BY <1>17, <1>18

(* A secret that is not enrolled yet, and whose codes were not accepted.    *)
LEMMA UntouchedOnce == ASSUME NEW x, Untouched(x)' PROVE SecretOnce(x)'
  BY DEF SecretOnce, Untouched

(* A step is marked.                                                        *)
LEMMA Marks ==
    ASSUME NEW c, NEW st, MarkUsed(c, st)
    PROVE  /\ marks \subseteq marks' /\ Marked(c, st)'
           /\ \A mark \in marks' : mark \in marks \/ (mark.step = st /\ mark.at = clock)
<1>1. CASE Marked(c, st)
  BY <1>1 DEF MarkUsed, Marked
<1>2. CASE ~ Marked(c, st)
  <2> DEFINE new == [cred |-> c.id, step |-> st, at |-> clock]
  <2>1. marks' = marks \cup {new}
    BY <1>2 DEF MarkUsed
  <2>2. new.cred = c.id /\ new.step = st /\ new.at = clock
    OBVIOUS
  <2> HIDE DEF new
  <2> QED BY <2>1, <2>2 DEF Marked
<1> QED BY <1>1, <1>2

(* A secret in hand was made, and is a number.                              *)
LEMMA SecretInHand ==
    ASSUME Shaped, OnceInv, NEW p \in Requests,
           req[p].pc \in {"insertTotp", "mark", "deleteSecret", "claimStep"}
    PROVE  /\ req[p].secret \in Nat /\ req[p].secret <= made /\ Busy(p)
           /\ req[p].holds = {<<"secret", req[p].secret>>}
<1>1. req[p].holds = {<<"secret", req[p].secret>>} /\ Busy(p)
  BY InHand DEF Shaped, OnceInv, HandInv, Busy
<1>2. <<"secret", req[p].secret>>[2] <= made
  BY <1>1 DEF OnceInv, HandInv
<1>3. req[p] \in TotpNewReq \cup TotpReq \cup ClaimReq
  BY ByPlace DEF Shaped
<1>4. req[p].secret \in Nat
  BY <1>3 DEF TotpNewReq, TotpReq, ClaimReq
<1> QED BY <1>1, <1>2, <1>4

(* Two requests have no secret in hand at once, but for two checks, unless  *)
(* it counts as shared.                                                     *)
LEMMA SecretAlone ==
    ASSUME Shaped, OnceInv, NEW p \in Requests, NEW r \in Requests, p # r,
           req[p].pc \in {"insertTotp", "mark", "deleteSecret"},
           req[r].pc \in {"insertTotp", "mark", "deleteSecret", "claimStep"},
           req[p].secret = req[r].secret
    PROVE  <<"secret", req[r].secret>> \in shared
<1>1. /\ Busy(p) /\ req[p].holds = {<<"secret", req[r].secret>>}
      /\ Busy(r) /\ req[r].holds = {<<"secret", req[r].secret>>}
  BY SecretInHand
<1> QED BY <1>1 DEF OnceInv, HandInv, HeldByOne

(* A secret is claimed for a scope.                                         *)
LEMMA OnceClaimSecret ==
    ASSUME SecondFactorsAssumption, Shaped, Shaped', OnceInv, NEW r \in Requests, ClaimSecret(r)
    PROVE  OnceInv'
<1>0. made \in Nat /\ ReqShaped
  BY DEF Shaped, RestShaped
<1> PICK new \in Nat : new = made + 1
  BY <1>0
<1> PICK s \in Scopes : s = req[r].scope /\ Busy(r) /\ req[r].pc = "claimSecret"
  BY <1>0, ByPlace DEF ClaimSecret, BeginReq, Busy
<1>1. UNCHANGED <<spent, twice, tries, clock, marks, sets, creds, codeAt, shared>>
  BY DEF ClaimSecret, rows, history
<1>2. req'[r].pc = "idle" /\ \A p \in Requests \ {r} : req'[p] = req[p]
  BY <1>0, Ends DEF ClaimSecret
<1>3. CASE secretAt[s] # None
  <2>1. secretAt' = secretAt /\ made <= made'
    BY <1>0, <1>3 DEF ClaimSecret
  <2> QED BY <1>1, <1>2, <2>1, OnceMove
<1>4. CASE secretAt[s] = None
  <2>1. /\ made' = new /\ made <= made'
        /\ \A t \in Scopes : secretAt'[t] = IF t = s THEN new ELSE secretAt[t]
    BY <1>0, <1>4 DEF ClaimSecret, Shaped, KeysShaped
  <2>2. \A p \in Requests : HoldsWhat(p)'
    BY <1>2, HoldsOn DEF OnceInv
  <2>3. HandInv'
    BY <1>0, <1>1, <1>2, <2>1, <2>2, HandStep DEF OnceInv, Busy
  <2>4. MadeInv'
    BY <1>0, <1>1, <2>1, MadeStep DEF OnceInv
  <2>5. SetInv' /\ MessageInv'
    BY <1>1, <1>2, SetStep, MessageStays DEF OnceInv
  <2>6. \A t \in Scopes : secretAt[t] # None => secretAt[t] # new
    BY <1>0 DEF OnceInv, MadeInv, Shaped, KeysShaped
  <2>7. \A p \in Requests : req[p].pc \in {"insertTotp", "mark", "deleteSecret", "claimStep"} =>
          req[p].secret # new
    BY <1>0, SecretInHand
  <2>8. \A p \in Requests :
          req'[p].pc \in {"insertTotp", "mark", "deleteSecret", "claimStep"} => req'[p] = req[p]
    BY <1>2
  <2>9. Dated'
    BY <1>1, <2>8 DEF OnceInv, SecretInv, Dated
  <2>10. Scoped'
    BY <2>1, <2>6, <2>7, <2>8 DEF OnceInv, SecretInv, Scoped
  <2>11. \A x : Having(x)' \subseteq Having(x)
    BY <1>1, <2>8, HavingShrinks
  <2>12. SecretOnce(new)'
    <3>1. Having(new) = {}
      <4>1. \A c \in creds : c.kind = "totp" => c.secret # new
        BY <1>0 DEF OnceInv, MadeInv
      <4> QED BY <2>7, <4>1 DEF Having
    <3>2. \A st : <<"secret", new, st>> \notin spent
      <4> SUFFICES ASSUME NEW st, <<"secret", new, st>> \in spent PROVE FALSE
        OBVIOUS
      <4>1. <<"secret", new, st>>[2] <= made
        BY DEF OnceInv, MadeInv
      <4> QED BY <1>0, <4>1
    <3>3. Untouched(new)'
      BY <1>1, <2>11, <3>1, <3>2 DEF Untouched
    <3> QED BY <3>3, UntouchedOnce
  <2>13. ASSUME NEW x \in Nat, x # new, SecretOnce(x) PROVE SecretOnce(x)'
    BY <1>1, <1>2, <2>1, <2>8, <2>11, <2>13, SecretKept
  <2>14. SecretInv'
    BY <1>1, <2>9, <2>10, <2>12, <2>13 DEF OnceInv, SecretInv
  <2> QED BY <1>1, <2>3, <2>4, <2>5, <2>14 DEF OnceInv, TwiceInv
<1> QED BY <1>3, <1>4

(* The first code of a secret is right.                                     *)
LEMMA OnceConfirm ==
    ASSUME SecondFactorsAssumption, Shaped, Shaped', OnceInv, NEW r \in Requests,
           NEW s \in Scopes, NEW step \in Nat, TotpConfirm(r, s, step)
    PROVE  OnceInv'
<1>0. made \in Nat /\ clock \in Nat /\ Skew \in Nat /\ ReqShaped
  BY DEF Shaped, RestShaped, SecondFactorsAssumption
<1> PICK x \in Nat : x = secretAt[s] /\ x # None /\ x <= made
  BY DEF TotpConfirm, Shaped, KeysShaped, OnceInv, MadeInv
<1> DEFINE store == <<"secret", x>>
           q == [op |-> "totp", pc |-> "insertTotp", scope |-> s, secret |-> x,
                 step |-> step, cred |-> None, seen |-> {}, holds |-> {store}]
<1>1. Start(r, q) /\ step <= clock + Skew
  BY DEF TotpConfirm, InWindow
<1>2. UNCHANGED <<spent, twice, tries, clock, marks, sets, creds, secretAt, codeAt, made>>
  BY DEF TotpConfirm, rows, keys
<1>3. /\ shared \subseteq shared'
      /\ \/ store \in shared'
         \/ \A p \in Requests : ~ (Busy(p) /\ store \in req[p].holds)
  BY DEF TotpConfirm, Holders
<1>4. /\ q \in TotpNewReq /\ q.pc = "insertTotp" /\ q.holds = {store} /\ q.secret = x
      /\ q.scope = s /\ q.step = step
  BY MayHold DEF TotpNewReq
<1> HIDE DEF q
<1>5. /\ req'[r] = q /\ req[r].pc = "idle"
      /\ \A p \in Requests \ {r} : req'[p] = req[p]
  BY <1>0, <1>1, Starts
<1>6. HandInv'
  <2>1. HoldsWhat(r)'
    BY <1>4, <1>5 DEF HoldsWhat
  <2>2. store[2] <= made
    OBVIOUS
  <2> HIDE DEF store
  <2> QED BY <1>2, <1>3, <1>4, <1>5, <2>1, <2>2, HandTake DEF OnceInv
<1>7. MadeInv'
  BY <1>0, <1>2, MadeStep DEF OnceInv
<1>8. SetInv' /\ MessageInv'
  BY <1>2, <1>3, <1>4, <1>5, SetStep, MessageStays DEF OnceInv
<1>9. Dated'
  BY <1>1, <1>2, <1>4, <1>5 DEF OnceInv, SecretInv, Dated
<1>10. Scoped'
  <2>1. \A t \in Scopes : secretAt[t] = x => t = s
    BY DEF OnceInv, SecretInv, Scoped
  <2> QED BY <1>2, <1>4, <1>5, <2>1 DEF OnceInv, SecretInv, Scoped
<1>11. \A y : Having(y)' \subseteq Having(y)
  BY <1>2, <1>4, <1>5, HavingShrinks
<1>12. ASSUME NEW y \in Nat, y # x, SecretOnce(y) PROVE SecretOnce(y)'
  BY <1>2, <1>4, <1>5, <1>11, <1>12, SecretKept
<1>13. ASSUME store \notin shared' PROVE SecretOnce(x)'
  <2>1. SecretOnce(x)
    BY <1>3, <1>13 DEF OnceInv, SecretInv
  <2>2. ~ Proving(x, s)
    BY <1>3, <1>13, SecretInHand DEF Proving
  <2>3. Untouched(x)
    BY <2>1, <2>2 DEF SecretOnce
  <2>4. Untouched(x)'
    BY <1>2, <1>11, <2>3 DEF Untouched
  <2> QED BY <2>4, UntouchedOnce
<1>14. SecretInv'
  BY <1>3, <1>9, <1>10, <1>12, <1>13 DEF OnceInv, SecretInv
<1> QED BY <1>2, <1>3, <1>6, <1>7, <1>8, <1>14 DEF OnceInv, TwiceInv

(* An authenticator is enrolled.                                            *)
LEMMA OnceInsertTotp ==
    ASSUME SecondFactorsAssumption, Shaped, Shaped', OnceInv, NEW r \in Requests, InsertTotp(r)
    PROVE  OnceInv'
<1>0. made \in Nat /\ ReqShaped
  BY DEF Shaped, RestShaped
<1>1. req[r].pc = "insertTotp" /\ req[r] \in TotpNewReq
  BY <1>0, ByPlace DEF InsertTotp
<1> PICK x \in Nat : x = req[r].secret /\ x <= made /\ Busy(r)
  BY <1>1, SecretInHand
<1> PICK step \in Nat : step = req[r].step
  BY <1>1 DEF TotpNewReq
<1> PICK s \in Scopes : s = req[r].scope
  BY <1>1 DEF TotpNewReq
<1> PICK new : new = Totp(made + 1, x)
  OBVIOUS
<1> DEFINE code == <<"secret", x, step>>
<1>2. /\ creds' = creds \cup {new} /\ made' = made + 1
      /\ spent' = spent \cup {code}
      /\ twice' = IF code \in spent THEN twice \cup {code} ELSE twice
      /\ UNCHANGED <<tries, clock, marks, sets, secretAt, codeAt, shared>>
  BY DEF InsertTotp, Accept, keys
<1>3. new.kind = "totp" /\ new.secret = x /\ new \in TotpShape
  BY <1>0 DEF Totp, TotpShape
<1>4. /\ req'[r] = [req[r] EXCEPT !.pc = "mark", !.cred = new]
      /\ \A p \in Requests \ {r} : req'[p] = req[p]
  BY <1>0 DEF InsertTotp, ReqShaped
<1>5. /\ req'[r].pc = "mark" /\ req'[r].cred = new /\ req'[r].secret = x /\ req'[r].step = step
      /\ req'[r].scope = s /\ req'[r].holds = req[r].holds /\ req'[r] \in TotpReq
  BY <1>1, <1>3, <1>4 DEF TotpNewReq, TotpReq
<1>6. \A p \in Requests : HoldsWhat(p)'
  BY <1>1, <1>4, <1>5, HoldsOn DEF OnceInv
<1>7. HandInv'
  <2>1. made <= made' /\ shared \subseteq shared' /\ HandInv
    BY <1>0, <1>2 DEF OnceInv
  <2>2. \A p \in Requests : req'[p].pc # "idle" =>
          /\ Busy(p) /\ req'[p].holds = req[p].holds
          /\ req[p].pc = "claimStep" => req'[p].pc = "claimStep"
    BY <1>1, <1>4, <1>5 DEF Busy
  <2> QED BY <1>6, <2>1, <2>2, HandStep
<1>8. MadeInv'
  <2>1. code[2] = x /\ x <= made + 1 /\ made <= made'
    BY <1>0, <1>2
  <2> HIDE DEF code
  <2> QED BY <1>0, <1>2, <1>3, <2>1, MadeStep DEF OnceInv
<1>9. SetInv'
  <2>1. \A k, c : <<"set", k, c>> \in spent' => <<"set", k, c>> \in spent
    BY <1>2
  <2> QED BY <1>2, <1>4, <1>5, <2>1, SetStep DEF OnceInv
<1>10. MessageInv'
  <2>1. \A n : <<"message", n>> \in spent' => <<"message", n>> \in spent
    BY <1>2
  <2> QED BY <1>2, <1>4, <1>5, <2>1, MessageStays DEF OnceInv
<1>11. Dated'
  BY <1>1, <1>2, <1>4, <1>5 DEF OnceInv, SecretInv, Dated
<1>12. Scoped'
  <2>1. \A p \in Requests :
          /\ req'[p].secret = req[p].secret /\ req'[p].scope = req[p].scope
          /\ req'[p].pc \in {"insertTotp", "mark", "deleteSecret"} =>
               req[p].pc \in {"insertTotp", "mark", "deleteSecret"}
    BY <1>1, <1>4, <1>5
  <2> QED BY <1>2, <2>1 DEF OnceInv, SecretInv, Scoped
<1>18. ASSUME NEW y, NEW c \in Having(y)' PROVE c \in Having(y) \/ (c = new /\ y = x)
  <2>1. CASE c \in creds' /\ c.kind = "totp" /\ c.secret = y
    BY <1>2, <1>3, <2>1 DEF Having
  <2>2. ASSUME NEW p \in Requests, req'[p].pc = "claimStep", req'[p].secret = y,
               c = req'[p].cred
        PROVE  c \in Having(y)
    <3>1. p # r /\ req'[p] = req[p]
      BY <1>4, <1>5, <2>2
    <3> QED BY <2>2, <3>1 DEF Having
  <2> QED BY <1>18, <2>1, <2>2 DEF Having
<1>13. ASSUME NEW y \in Nat, y # x, SecretOnce(y) PROVE SecretOnce(y)'
  <2>1. Having(y)' \subseteq Having(y)
    BY <1>18, <1>13
  <2>2. \A st : <<"secret", y, st>> \in spent' => <<"secret", y, st>> \in spent
    BY <1>2, <1>13
  <2> QED BY <1>1, <1>2, <1>4, <1>5, <1>13, <2>1, <2>2, SecretKept
<1>14. <<"secret", x>> \in shared \/ Untouched(x)
  BY <1>1 DEF OnceInv, SecretInv, SecretOnce
<1>15. ASSUME <<"secret", x>> \notin shared PROVE SecretOnce(x)'
  <2>1. Having(x) = {} /\ \A st \in Nat : <<"secret", x, st>> \notin spent
    BY <1>14, <1>15 DEF Untouched
  <2>2. Having(x)' \subseteq {new}
    BY <1>18, <2>1
  <2>3. \A t \in Scopes : secretAt'[t] = x /\ x # None => Proving(x, t)'
    <3>1. \A t \in Scopes : secretAt[t] = x /\ x # None => t = s
      BY <1>1 DEF OnceInv, SecretInv, Scoped
    <3> QED BY <1>2, <1>5, <3>1 DEF Proving
  <2>4. \A p \in Requests \ {r} : ~ (req'[p].pc \in {"insertTotp", "mark"} /\ req'[p].secret = x)
    BY <1>1, <1>4, <1>15, SecretAlone
  <2>5. \A st \in Nat : <<"secret", x, st>> \in spent' => st = step
    BY <1>2, <2>1
  <2> QED BY <1>5, <2>2, <2>3, <2>4, <2>5 DEF SecretOnce
<1>16. SecretInv'
  BY <1>2, <1>11, <1>12, <1>13, <1>15 DEF OnceInv, SecretInv
<1>17. TwiceInv'
  <2>1. code \in spent => <<"secret", x>> \in shared
    BY <1>14 DEF Untouched
  <2>2. code[1] = "secret" /\ code[2] = x
    OBVIOUS
  <2> HIDE DEF code
  <2> QED BY <1>2, <2>1, <2>2 DEF OnceInv, TwiceInv
<1> QED BY <1>7, <1>8, <1>9, <1>10, <1>16, <1>17 DEF OnceInv

(* The step that proved the enrolment is marked.                            *)
LEMMA OnceMarkProof ==
    ASSUME SecondFactorsAssumption, Shaped, Shaped', OnceInv, NEW r \in Requests, MarkProof(r)
    PROVE  OnceInv'
<1>0. made \in Nat /\ clock \in Nat /\ Skew \in Nat /\ ReqShaped
  BY DEF Shaped, RestShaped, SecondFactorsAssumption
<1>1. req[r].pc = "mark" /\ req[r] \in TotpReq /\ Busy(r)
  BY <1>0, ByPlace DEF MarkProof, Busy
<1> PICK x \in Nat : x = req[r].secret
  BY <1>1, SecretInHand
<1> PICK step \in Nat : step = req[r].step
  BY <1>1 DEF TotpReq
<1> PICK c : c = req[r].cred
  OBVIOUS
<1>2. UNCHANGED <<spent, twice, tries, clock, sets, creds, secretAt, codeAt, shared, made>>
  BY DEF MarkProof, rows, history
<1>3. /\ req'[r].pc = "deleteSecret" /\ req'[r].secret = x /\ req'[r].scope = req[r].scope
      /\ req'[r].holds = req[r].holds /\ req'[r] \in TotpReq
      /\ \A p \in Requests \ {r} : req'[p] = req[p]
  BY <1>0, <1>1, MovesOn DEF MarkProof
<1>4. /\ marks \subseteq marks' /\ Marked(c, step)'
      /\ \A mark \in marks' : mark \in marks \/ (mark.step = step /\ mark.at = clock)
  <2>1. MarkUsed(c, step)
    BY DEF MarkProof
  <2> QED BY <2>1, Marks
<1>5. HandInv'
  <2>1. \A p \in Requests : HoldsWhat(p)'
    BY <1>1, <1>3, HoldsOn DEF OnceInv
  <2>2. \A p \in Requests : req'[p].pc # "idle" =>
          /\ Busy(p) /\ req'[p].holds = req[p].holds
          /\ req[p].pc = "claimStep" => req'[p].pc = "claimStep"
    BY <1>1, <1>3 DEF Busy
  <2> QED BY <1>0, <1>2, <2>1, <2>2, HandStep DEF OnceInv
<1>6. MadeInv'
  BY <1>0, <1>2, MadeStep DEF OnceInv
<1>7. SetInv' /\ MessageInv'
  BY <1>2, <1>3, SetStep, MessageStays DEF OnceInv
<1>8. Dated'
  <2>1. step <= clock + Skew
    BY <1>1 DEF OnceInv, SecretInv, Dated
  <2> QED BY <1>2, <1>3, <1>4, <2>1 DEF OnceInv, SecretInv, Dated
<1>9. Scoped'
  BY <1>1, <1>2, <1>3 DEF OnceInv, SecretInv, Scoped
<1>10. \A y : Having(y)' \subseteq Having(y)
  BY <1>2, <1>3, HavingShrinks
<1>11. ASSUME NEW y \in Nat, y # x, SecretOnce(y) PROVE SecretOnce(y)'
  BY <1>2, <1>3, <1>4, <1>10, <1>11, SecretKept
<1>12. ASSUME <<"secret", x>> \notin shared PROVE SecretOnce(x)'
  <2>1. SecretOnce(x)
    BY <1>12 DEF OnceInv, SecretInv
  <2>2. \A p \in Requests : ~ (req'[p].pc \in {"insertTotp", "mark"} /\ req'[p].secret = x)
    BY <1>1, <1>3, <1>12, SecretAlone
  <2>3. Having(x) \subseteq {c} /\ \A st \in Nat : <<"secret", x, st>> \in spent => st = step
    BY <1>1, <2>1 DEF SecretOnce
  <2>4. \A st \in Nat : <<"secret", x, st>> \in spent' => \A d \in Having(x)' : Marked(d, st)'
    BY <1>2, <1>4, <1>10, <2>3
  <2>5. Untouched(x) => Untouched(x)'
    BY <1>2, <1>10 DEF Untouched
  <2>6. \A s \in Scopes : Proving(x, s) => Proving(x, s)'
    BY <1>3 DEF Proving
  <2>7. \A s \in Scopes : secretAt'[s] = x /\ x # None => Untouched(x)' \/ Proving(x, s)'
    BY <1>2, <2>1, <2>5, <2>6 DEF SecretOnce
  <2> QED BY <1>10, <2>2, <2>3, <2>4, <2>7 DEF SecretOnce
<1>13. SecretInv'
  BY <1>2, <1>8, <1>9, <1>11, <1>12 DEF OnceInv, SecretInv
<1> QED BY <1>2, <1>5, <1>6, <1>7, <1>13 DEF OnceInv, TwiceInv

(* The enrolled secret is no longer pending.                                *)
LEMMA OnceDeleteSecret ==
    ASSUME SecondFactorsAssumption, Shaped, Shaped', OnceInv, NEW r \in Requests, DeleteSecret(r)
    PROVE  OnceInv'
<1>0. made \in Nat /\ ReqShaped
  BY DEF Shaped, RestShaped
<1>1. req[r].pc = "deleteSecret" /\ req[r] \in TotpReq /\ Busy(r)
  BY <1>0, ByPlace DEF DeleteSecret, Busy
<1> PICK x \in Nat : x = req[r].secret
  BY <1>1, SecretInHand
<1> PICK s \in Scopes : s = req[r].scope
  BY <1>1 DEF TotpReq
<1>2. UNCHANGED <<spent, twice, tries, clock, marks, sets, creds, codeAt, shared, made>>
  BY DEF DeleteSecret, rows, history
<1>3. /\ req'[r].pc = "regen" /\ req'[r].holds = req[r].holds /\ req'[r] \in TotpReq
      /\ req'[r].secret = x /\ \A p \in Requests \ {r} : req'[p] = req[p]
  BY <1>0, <1>1, MovesOn DEF DeleteSecret
<1>4. \A t \in Scopes : secretAt'[t] = IF t = s THEN None ELSE secretAt[t]
  BY DEF DeleteSecret, Shaped, KeysShaped
<1>5. HandInv'
  <2>1. \A p \in Requests : HoldsWhat(p)'
    BY <1>1, <1>3, HoldsOn DEF OnceInv
  <2>2. \A p \in Requests : req'[p].pc # "idle" =>
          /\ Busy(p) /\ req'[p].holds = req[p].holds
          /\ req[p].pc = "claimStep" => req'[p].pc = "claimStep"
    BY <1>1, <1>3 DEF Busy
  <2> QED BY <1>0, <1>2, <2>1, <2>2, HandStep DEF OnceInv
<1>6. MadeInv'
  BY <1>0, <1>2, <1>4, MadeStep DEF OnceInv
<1>7. SetInv' /\ MessageInv'
  BY <1>2, <1>3, SetStep, MessageStays DEF OnceInv
<1>8. Dated'
  BY <1>2, <1>3 DEF OnceInv, SecretInv, Dated
<1>9. Scoped'
  BY <1>3, <1>4 DEF OnceInv, SecretInv, Scoped
<1>10. \A y : Having(y)' \subseteq Having(y)
  BY <1>2, <1>3, HavingShrinks
<1>11. ASSUME NEW y \in Nat, y # x, SecretOnce(y) PROVE SecretOnce(y)'
  BY <1>2, <1>3, <1>4, <1>10, <1>11, SecretKept
<1>12. ASSUME <<"secret", x>> \notin shared PROVE SecretOnce(x)'
  <2>1. SecretOnce(x)
    BY <1>12 DEF OnceInv, SecretInv
  <2>2. \A p \in Requests : ~ (req'[p].pc \in {"insertTotp", "mark"} /\ req'[p].secret = x)
    BY <1>1, <1>3, <1>12, SecretAlone
  <2>3. \A p \in Requests : ~ (req[p].pc = "mark" /\ req[p].secret = x)
    BY <1>1, <1>12, SecretAlone
  <2>4. \A t \in Scopes : ~ (secretAt'[t] = x /\ x # None)
    BY <1>1, <1>4 DEF OnceInv, SecretInv, Scoped
  <2>5. ASSUME NEW st \in Nat, <<"secret", x, st>> \in spent', clock' <= st + Skew
        PROVE  \A d \in Having(x)' : Marked(d, st)'
    <3>1. \A d \in Having(x) : Marked(d, st)
      BY <1>2, <2>1, <2>3, <2>5 DEF SecretOnce
    <3>2. \A d : Marked(d, st) => Marked(d, st)'
      BY <1>2 DEF Marked
    <3> QED BY <1>10, <3>1, <3>2
  <2>6. \A d, e \in Having(x)' : d = e
    BY <1>10, <2>1 DEF SecretOnce
  <2> QED BY <2>2, <2>4, <2>5, <2>6 DEF SecretOnce
<1>13. SecretInv'
  BY <1>2, <1>8, <1>9, <1>11, <1>12 DEF OnceInv, SecretInv
<1> QED BY <1>2, <1>5, <1>6, <1>7, <1>13 DEF OnceInv, TwiceInv

(* A code is right for a secret that is enrolled.                           *)
LEMMA OnceVerifyTotp ==
    ASSUME SecondFactorsAssumption, Shaped, Shaped', OnceInv, NEW r \in Requests,
           NEW row \in Kind("totp"), NEW step \in Nat, VerifyTotp(r, row.secret, step)
    PROVE  OnceInv'
<1>0. made \in Nat /\ clock \in Nat /\ Skew \in Nat /\ ReqShaped
  BY DEF Shaped, RestShaped, SecondFactorsAssumption
<1>1. Kind("totp") \subseteq TotpShape
  BY Kinds DEF Shaped
<1> PICK x \in Nat : x = row.secret /\ x <= made
  BY <1>1 DEF TotpShape, OnceInv, MadeInv, Kind
<1> PICK now \in Nat : now = clock
  BY <1>0
<1> PICK mine \in SUBSET TotpShape : mine = {c \in Kind("totp") : c.secret = x}
  BY <1>1
<1> PICK first : first = CHOOSE c \in mine : \A d \in mine : c.id <= d.id
  OBVIOUS
<1> DEFINE store == <<"secret", x>>
           q == [op |-> "verify", pc |-> "claimStep", secret |-> x, step |-> step,
                 cred |-> first, at |-> now, holds |-> {store}]
<1>2. Start(r, q) /\ step <= clock + Skew /\ clock <= step + Skew
  BY DEF VerifyTotp, InWindow
<1>3. UNCHANGED <<spent, twice, tries, clock, marks, sets, creds, secretAt, codeAt, made>>
  BY DEF VerifyTotp, rows, keys
<1>4. /\ shared \subseteq shared'
      /\ \/ store \in shared'
         \/ \A p \in Requests : Busy(p) /\ store \in req[p].holds => req[p].op # "totp"
  BY DEF VerifyTotp, Holders
<1>5. first \in mine /\ first \in creds /\ first.kind = "totp" /\ first.secret = x
  BY FirstRow DEF Kind
<1>6. /\ q \in ClaimReq /\ q.pc = "claimStep" /\ q.holds = {store} /\ q.secret = x
      /\ q.step = step /\ q.cred = first /\ q.at = clock
  BY <1>5, MayHold DEF ClaimReq
<1> HIDE DEF q
<1>7. /\ req'[r] = q /\ req[r].pc = "idle"
      /\ \A p \in Requests \ {r} : req'[p] = req[p]
  BY <1>0, <1>2, Starts
<1>8. HandInv'
  <2>1. HoldsWhat(r)'
    BY <1>6, <1>7 DEF HoldsWhat
  <2>2. store[2] <= made
    OBVIOUS
  <2>3. \/ store \in shared'
        \/ \A p \in Requests \ {r} : Busy(p) /\ store \in req[p].holds => req[p].pc = "claimStep"
    BY <1>0, <1>4, InHand DEF OnceInv, HandInv
  <2> HIDE DEF store
  <2> QED BY <1>3, <1>4, <1>6, <1>7, <2>1, <2>2, <2>3, HandTake DEF OnceInv
<1>9. MadeInv'
  BY <1>0, <1>3, MadeStep DEF OnceInv
<1>10. SetInv' /\ MessageInv'
  BY <1>3, <1>4, <1>6, <1>7, SetStep, MessageStays DEF OnceInv
<1>11. Dated'
  BY <1>2, <1>3, <1>6, <1>7 DEF OnceInv, SecretInv, Dated
<1>12. Scoped'
  BY <1>3, <1>6, <1>7 DEF OnceInv, SecretInv, Scoped
<1>13. ASSUME NEW y, NEW c \in Having(y)' PROVE c \in Having(y)
  <2>1. CASE c \in creds' /\ c.kind = "totp" /\ c.secret = y
    BY <1>3, <2>1 DEF Having
  <2>2. ASSUME NEW p \in Requests, req'[p].pc = "claimStep", req'[p].secret = y,
               c = req'[p].cred
        PROVE  c \in Having(y)
    <3>1. CASE p = r
      BY <1>5, <1>6, <1>7, <2>2, <3>1 DEF Having
    <3>2. CASE p # r
      BY <1>7, <2>2, <3>2 DEF Having
    <3> QED BY <3>1, <3>2
  <2> QED BY <1>13, <2>1, <2>2 DEF Having
<1>14. ASSUME NEW y \in Nat, SecretOnce(y) PROVE SecretOnce(y)'
  <2>1. Having(y)' \subseteq Having(y)
    BY <1>13
  <2> QED BY <1>3, <1>6, <1>7, <1>14, <2>1, SecretKept
<1>15. SecretInv'
  BY <1>4, <1>11, <1>12, <1>14 DEF OnceInv, SecretInv
<1> QED BY <1>3, <1>4, <1>8, <1>9, <1>10, <1>15 DEF OnceInv, TwiceInv

(* The step of a code is claimed.                                           *)
LEMMA OnceClaimStep ==
    ASSUME SecondFactorsAssumption, Shaped, Shaped', OnceInv, NEW r \in Requests, ClaimStep(r)
    PROVE  OnceInv'
<1>0. made \in Nat /\ clock \in Nat /\ Skew \in Nat /\ ReqShaped
  BY DEF Shaped, RestShaped, SecondFactorsAssumption
<1>1. req[r].pc = "claimStep" /\ req[r] \in ClaimReq
  BY <1>0, ByPlace DEF ClaimStep
<1> PICK x \in Nat : x = req[r].secret /\ x <= made /\ Busy(r) /\ req[r].holds = {<<"secret", x>>}
  BY <1>1, SecretInHand
<1> PICK step \in Nat : step = req[r].step
  BY <1>1 DEF ClaimReq
<1> PICK c : c = req[r].cred
  OBVIOUS
<1> DEFINE code == <<"secret", x, step>>
<1>2. /\ UNCHANGED <<tries, clock, sets, creds, secretAt, codeAt, made>>
      /\ Marked(c, step) => UNCHANGED <<spent, twice>>
      /\ ~ Marked(c, step) => /\ spent' = spent \cup {code}
                              /\ twice' = IF code \in spent THEN twice \cup {code} ELSE twice
  BY DEF ClaimStep, Accept, rows
<1>3. req'[r].pc = "idle" /\ \A p \in Requests \ {r} : req'[p] = req[p]
  BY <1>0, Ends DEF ClaimStep
<1>4. /\ marks \subseteq marks' /\ Marked(c, step)'
      /\ \A mark \in marks' : mark \in marks \/ (mark.step = step /\ mark.at = clock)
  <2>1. MarkUsed(c, step)
    BY DEF ClaimStep
  <2> QED BY <2>1, Marks
<1>5. shared \subseteq shared' /\ (<<"secret", x>> \in shared' \/ req[r].at = clock)
  BY DEF ClaimStep
<1>6. HandInv'
  <2>1. \A p \in Requests : HoldsWhat(p)'
    BY <1>3, HoldsOn DEF OnceInv
  <2>2. \A p \in Requests : req'[p].pc # "idle" =>
          /\ Busy(p) /\ req'[p].holds = req[p].holds
          /\ req[p].pc = "claimStep" => req'[p].pc = "claimStep"
    BY <1>3 DEF Busy
  <2> QED BY <1>0, <1>2, <1>5, <2>1, <2>2, HandStep DEF OnceInv
<1>7. MadeInv'
  <2>1. code[2] = x /\ x <= made /\ made <= made'
    BY <1>0, <1>2
  <2> HIDE DEF code
  <2> QED BY <1>0, <1>2, <2>1, MadeStep DEF OnceInv
<1>8. SetInv'
  <2>1. \A k, d : <<"set", k, d>> \in spent' => <<"set", k, d>> \in spent
    BY <1>2
  <2> QED BY <1>2, <1>3, <1>5, <2>1, SetStep DEF OnceInv
<1>9. MessageInv'
  <2>1. \A n : <<"message", n>> \in spent' => <<"message", n>> \in spent
    BY <1>2
  <2> QED BY <1>2, <1>3, <1>5, <2>1, MessageStays DEF OnceInv
<1>10. step <= clock + Skew /\ req[r].at <= step + Skew
  BY <1>1 DEF OnceInv, SecretInv, Dated
<1>11. Dated'
  BY <1>2, <1>3, <1>4, <1>10 DEF OnceInv, SecretInv, Dated
<1>12. Scoped'
  BY <1>2, <1>3 DEF OnceInv, SecretInv, Scoped
<1>13. \A y : Having(y)' \subseteq Having(y)
  BY <1>2, <1>3, HavingShrinks
<1>14. ASSUME NEW y \in Nat, y # x, SecretOnce(y) PROVE SecretOnce(y)'
  <2>1. \A st : <<"secret", y, st>> \in spent' => <<"secret", y, st>> \in spent
    BY <1>2, <1>14
  <2> QED BY <1>1, <1>2, <1>3, <1>4, <1>13, <1>14, <2>1, SecretKept
<1>15. ASSUME <<"secret", x>> \notin shared'
       PROVE  SecretOnce(x)' /\ (~ Marked(c, step) => code \notin spent)
  <2>1. SecretOnce(x) /\ <<"secret", x>> \notin shared
    BY <1>5, <1>15 DEF OnceInv, SecretInv
  <2>2. c \in Having(x)
    BY <1>1 DEF Having
  <2>3. \A p \in Requests :
          ~ (req[p].pc \in {"insertTotp", "mark", "deleteSecret"} /\ req[p].secret = x)
    BY <1>1, <2>1, SecretAlone
  <2>4. \A p \in Requests :
          ~ (req'[p].pc \in {"insertTotp", "mark", "deleteSecret"} /\ req'[p].secret = x)
    BY <1>3, <2>3
  <2>5. \A st \in Nat : <<"secret", x, st>> \in spent /\ clock <= st + Skew =>
          \A d \in Having(x) : Marked(d, st)
    BY <2>1, <2>3 DEF SecretOnce
  <2>6. ~ Marked(c, step) => code \notin spent
    BY <1>5, <1>10, <1>15, <2>2, <2>5
  <2>7. \A d \in Having(x)' : d = c
    BY <1>13, <2>1, <2>2 DEF SecretOnce
  <2>8. ASSUME NEW st \in Nat, <<"secret", x, st>> \in spent', clock' <= st + Skew
        PROVE  \A d \in Having(x)' : Marked(d, st)'
    <3>1. CASE st = step
      BY <1>4, <2>7, <3>1
    <3>2. CASE st # step
      <4>1. <<"secret", x, st>> \in spent
        BY <1>2, <2>8, <3>2
      <4>2. Marked(c, st)
        BY <1>2, <2>2, <2>5, <2>8, <4>1
      <4>3. Marked(c, st)'
        BY <1>4, <4>2 DEF Marked
      <4> QED BY <2>7, <4>3
    <3> QED BY <3>1, <3>2
  <2>9. \A s \in Scopes : ~ (secretAt'[s] = x /\ x # None)
    BY <1>2, <2>1, <2>2, <2>3 DEF SecretOnce, Untouched, Proving
  <2>10. SecretOnce(x)'
    BY <2>4, <2>7, <2>8, <2>9 DEF SecretOnce
  <2> QED BY <2>6, <2>10
<1>16. SecretInv'
  BY <1>5, <1>11, <1>12, <1>14, <1>15 DEF OnceInv, SecretInv
<1>17. TwiceInv'
  <2>1. code[1] = "secret" /\ code[2] = x
    OBVIOUS
  <2> HIDE DEF code
  <2> QED BY <1>2, <1>5, <1>15, <2>1 DEF OnceInv, TwiceInv
<1> QED BY <1>6, <1>7, <1>8, <1>9, <1>16, <1>17 DEF OnceInv

(* The steps about authenticators.                                          *)
LEMMA OnceTotp ==
    ASSUME SecondFactorsAssumption, Shaped, Shaped', OnceInv, NEW r \in Requests, TotpStep(r)
    PROVE  OnceInv'
<1>1. ASSUME NEW s \in Scopes, TotpBegin(r, s) PROVE OnceInv'
  <2> DEFINE q == [op |-> "begin", pc |-> "claimSecret", scope |-> s, holds |-> {}]
  <2>1. Start(r, q) /\ UNCHANGED <<rows, keys, clock, made, spent, twice, tries, shared>>
    BY <1>1 DEF TotpBegin, history
  <2>2. q \in BeginReq /\ q.holds = {}
    BY MayHold DEF BeginReq
  <2> HIDE DEF q
  <2> QED BY <2>1, <2>2, OnceStart
<1> QED
  BY <1>1, OnceClaimSecret, OnceConfirm, OnceInsertTotp, OnceMarkProof, OnceDeleteSecret,
     OnceVerifyTotp, OnceClaimStep
  DEF TotpStep

(* A time step passes: a mark outlives the window of its code.              *)
LEMMA OnceTick ==
    ASSUME SecondFactorsAssumption, Shaped, Shaped', OnceInv, Tick
    PROVE  OnceInv'
<1>0. /\ clock \in Nat /\ Skew \in Nat /\ made \in Nat
      /\ marks \subseteq [cred : Nat, step : Nat, at : Nat]
  BY DEF Shaped, RestShaped, KeysShaped, SecondFactorsAssumption
<1>1. /\ UNCHANGED <<spent, twice, tries, sets, creds, secretAt, codeAt, made, req, shared>>
      /\ clock' = clock + 1 /\ marks' = {mark \in marks : ~ (clock' >= mark.at + 2 * Skew + 1)}
  BY DEF Tick, MarkEnds, rows, history
<1>2. MadeInv'
  BY <1>1 DEF OnceInv, MadeInv
<1>3. HandInv'
  <2>1. \A p \in Requests : HoldsWhat(p)'
    BY <1>1 DEF OnceInv, HandInv, HoldsWhat
  <2> QED BY <1>0, <1>1, <2>1, HandStep DEF OnceInv, Busy
<1>4. SetInv' /\ MessageInv'
  BY <1>1, SetStep, MessageStays DEF OnceInv
<1>5. \A p \in Requests : req[p].pc \in {"insertTotp", "mark", "claimStep"} => req[p].step \in Nat
  <2>1. \A p \in Requests : req[p].pc \in {"insertTotp", "mark", "claimStep"} =>
          req[p] \in TotpNewReq \cup TotpReq \cup ClaimReq
    BY ByPlace DEF Shaped
  <2> QED BY <2>1 DEF TotpNewReq, TotpReq, ClaimReq
<1>6. Dated'
  <2>1. \A p \in Requests : req[p].pc \in {"insertTotp", "mark", "claimStep"} =>
          req[p].step <= clock' + Skew
    BY <1>0, <1>1, <1>5 DEF OnceInv, SecretInv, Dated
  <2> QED BY <1>1, <2>1 DEF OnceInv, SecretInv, Dated
<1>7. Scoped'
  BY <1>1 DEF OnceInv, SecretInv, Scoped
<1>8. \A x : Having(x)' = Having(x)
  BY <1>1 DEF Having
<1>9. ASSUME NEW x \in Nat, SecretOnce(x) PROVE SecretOnce(x)'
  <2>1. ASSUME NEW st \in Nat, clock' <= st + Skew, NEW c, Marked(c, st) PROVE Marked(c, st)'
    <3>1. PICK mark \in marks : mark.cred = c.id /\ mark.step = st
      BY <2>1 DEF Marked
    <3>2. st <= mark.at + Skew /\ mark.at \in Nat
      BY <1>0, <3>1 DEF OnceInv, SecretInv, Dated
    <3>3. mark \in marks'
      BY <1>0, <1>1, <2>1, <3>2
    <3> QED BY <3>1, <3>3 DEF Marked
  <2>2. ASSUME NEW st \in Nat, <<"secret", x, st>> \in spent', clock' <= st + Skew
        PROVE  \/ \A c \in Having(x)' : Marked(c, st)'
               \/ \E r \in Requests : req'[r].pc = "mark" /\ req'[r].secret = x
    <3>1. clock <= st + Skew
      BY <1>0, <1>1, <2>2
    <3>2. \/ \A c \in Having(x) : Marked(c, st)
          \/ \E r \in Requests : req[r].pc = "mark" /\ req[r].secret = x
      BY <1>1, <1>9, <2>2, <3>1 DEF SecretOnce
    <3> QED BY <1>1, <1>8, <2>1, <2>2, <3>2
  <2>3. Untouched(x) => Untouched(x)'
    BY <1>1, <1>8 DEF Untouched
  <2>4. \A s \in Scopes : Proving(x, s) => Proving(x, s)'
    BY <1>1 DEF Proving
  <2> QED BY <1>1, <1>8, <1>9, <2>2, <2>3, <2>4 DEF SecretOnce
<1>10. SecretInv'
  BY <1>1, <1>6, <1>7, <1>9 DEF OnceInv, SecretInv
<1> QED BY <1>1, <1>2, <1>3, <1>4, <1>10 DEF OnceInv, TwiceInv

(* A key lapses, or nothing happens.                                        *)
LEMMA OnceLapse ==
    ASSUME SecondFactorsAssumption, Shaped, Shaped', OnceInv,
           (\E s \in Scopes : Lapse(s)) \/ UNCHANGED vars
    PROVE  OnceInv'
<1>0. made \in Nat /\ KeysShaped
  BY DEF Shaped, RestShaped
<1>1. UNCHANGED <<spent, twice, tries, clock, marks, sets, creds, req, shared, made>>
  BY DEF Lapse, vars, rows, keys, history
<1>2. \A s \in Scopes : secretAt'[s] \in {secretAt[s], None}
  BY <1>0 DEF Lapse, vars, keys, KeysShaped
<1>3. \A s \in Scopes, p \in Purposes : codeAt'[s][p] \in {codeAt[s][p], None}
  <2>1. ASSUME NEW s \in Scopes, Lapse(s), NEW t \in Scopes, NEW q \in Purposes
        PROVE  codeAt'[t][q] \in {codeAt[t][q], None}
    <3>1. \/ codeAt' = codeAt
          \/ \E p \in Purposes : codeAt' = [codeAt EXCEPT ![s][p] = None]
      BY <2>1 DEF Lapse
    <3> QED BY <1>0, <2>1, <3>1 DEF KeysShaped
  <2> QED BY <2>1 DEF vars, keys
<1>4. \A p \in Requests : HoldsWhat(p)'
  BY <1>1 DEF OnceInv, HandInv, HoldsWhat
<1> QED BY <1>0, <1>1, <1>2, <1>3, <1>4, OnceQuiet

(* A request dies.                                                          *)
LEMMA OnceDie ==
    ASSUME SecondFactorsAssumption, Shaped, Shaped', OnceInv, NEW r \in Requests, Die(r)
    PROVE  OnceInv'
<1>0. made \in Nat /\ ReqShaped /\ Busy(r)
  BY DEF Shaped, RestShaped, Die
<1>1. /\ UNCHANGED <<spent, twice, tries, clock, marks, sets, creds, secretAt, codeAt, made>>
      /\ shared \subseteq shared' /\ made <= made'
  BY <1>0 DEF Die, rows, keys
<1>2. req'[r].pc = "idle" /\ \A p \in Requests \ {r} : req'[p] = req[p]
  BY <1>0, Ends DEF Die
<1>3. req[r].pc \in {"mark", "deleteSecret"} => <<"secret", req[r].secret>> \in shared'
  <2> SUFFICES ASSUME req[r].pc \in {"mark", "deleteSecret"}
               PROVE  <<"secret", req[r].secret>> \in shared'
    OBVIOUS
  <2>1. req[r].holds = {<<"secret", req[r].secret>>}
    BY SecretInHand
  <2>2. req[r].op = "totp"
    BY <1>0, ByPlace, PlaceOf
  <2> QED BY <2>1, <2>2 DEF Die
<1> QED BY <1>0, <1>1, <1>2, <1>3, OnceMove

(* Nothing was accepted to begin with.                                      *)
LEMMA OnceInit == ASSUME SecondFactorsAssumption, Init PROVE OnceInv
<1>1. PICK d \in Destinations, held \in InitiallyHeld :
        /\ creds = {c \in {Totp(1, 1), Sms(2, None, d, d)} : c.kind \in held}
        /\ sets = [k \in IF held = {} THEN {} ELSE {3} |-> Codes]
  BY DEF Init
<1>2. /\ Totp(1, 1).kind = "totp" /\ Totp(1, 1).secret = 1
      /\ Sms(2, None, d, d).kind = "sms"
  BY DEF Totp, Sms
<1>3. /\ \A r \in Requests : req[r].pc = "idle"
      /\ \A s \in Scopes : secretAt[s] = None
      /\ \A s \in Scopes, p \in Purposes : codeAt[s][p] = None
      /\ made = 3 /\ marks = {} /\ DOMAIN tries = {} /\ spent = {} /\ twice = {}
  BY DEF Init, Idle
<1>4. MadeInv
  BY <1>1, <1>2, <1>3 DEF MadeInv
<1>5. HandInv
  BY <1>3 DEF HandInv, HoldsWhat, HeldByOne, Busy
<1>6. SetInv /\ MessageInv
  BY <1>3 DEF SetInv, SetOnce, MessageInv, PlacedOnce, Placed
<1>7. SecretInv
  <2>1. Dated /\ Scoped
    BY <1>3 DEF Dated, Scoped
  <2>2. ASSUME NEW x PROVE SecretOnce(x)
    <3>1. \A c \in Having(x) : c = Totp(1, 1)
      BY <1>1, <1>2, <1>3 DEF Having
    <3> QED BY <1>3, <3>1 DEF SecretOnce
  <2> QED BY <2>1, <2>2 DEF SecretInv
<1> QED BY <1>3, <1>4, <1>5, <1>6, <1>7 DEF OnceInv, TwiceInv

(* A one-time code is accepted once, and a message takes no more wrong      *)
(* codes than OTP_MAX_ATTEMPTS: what SET NX claims in verify_totp, and what *)
(* verify_recovery and check_code write back, is enough unless two requests *)
(* have the same code in hand.                                              *)
THEOREM OnceAccepted == Spec => []AcceptedOnce
<1>1. Init => OnceInv
  BY SecondFactorsAssumption, OnceInit
<1>2. Shaped /\ OnceInv /\ [Next]_vars => OnceInv'
  <2> SUFFICES ASSUME Shaped, OnceInv, [Next]_vars PROVE OnceInv'
    OBVIOUS
  <2>1. Shaped'
    BY SecondFactorsAssumption, NextShaped
  <2>2. ASSUME NEW r \in Requests, RecoveryStep(r) PROVE OnceInv'
    BY <2>1, <2>2, SecondFactorsAssumption, OnceRegen, OnceInsertSet, OnceRecovery
    DEF RecoveryStep
  <2>3. ASSUME NEW r \in Requests, MessageStep(r) PROVE OnceInv'
    BY <2>1, <2>3, SecondFactorsAssumption, OnceChannel, OnceStore, OnceRead, OnceJudge
    DEF MessageStep
  <2>4. CASE UNCHANGED vars
    BY <2>1, <2>4, SecondFactorsAssumption, OnceLapse
  <2>5. CASE Next
    BY <2>1, <2>2, <2>3, <2>5, SecondFactorsAssumption, Steps, OnceTotp, OnceLapse, OnceTick,
       OnceDie
  <2> QED BY <2>4, <2>5
<1>3. OnceInv => AcceptedOnce
  BY DEF OnceInv, TwiceInv, MessageInv, MessageOnce, AcceptedOnce
<1> QED BY <1>1, <1>2, <1>3, ShapesKept, PTL DEF Spec
=============================================================================
