---------------------------- MODULE GrantProofs ----------------------------
(***************************************************************************)
(* The grants that are redeemed for tokens.                                *)
(*                                                                         *)
(* Backchannel authentication, for any number of requests, answers and     *)
(* polls: tokens are issued once and on an approval, a committed answer    *)
(* reaches the client, and the cap on pending requests holds, each but for *)
(* the overlaps that the property names.                                   *)
(*                                                                         *)
(* Then authorization codes, by an instance of AuthCodes: they are one-shot*)
(* grants, and a late replay undoes what they were exchanged for; and the  *)
(* device grant, by an instance of DeviceCodes: an approval is spent once, *)
(* and a decision sticks.                                                  *)
(***************************************************************************)
EXTENDS Ciba, FiniteSetTheorems, TLAPS

(* The answer a has been given: it is in the row, or stored by whoever      *)
(* holds the row and will commit it.                                        *)
Given(r, a) ==
    \/ row[r] = a
    \/ a = "approved" /\ row[r] = "consumed"
    \/ \E d \in Deciders : decide[d] = [at |-> "stored", r |-> r, answer |-> a]

(* The record was collected.                                                *)
Spent(r) == issued[r] > 0 \/ \E p \in Polls : poll[p].at = "taken" /\ poll[p].r = r

(* Whoever answers a request holds its pending row, alone.                  *)
RowIsHeld ==
    \A d \in Deciders : decide[d] # Idle =>
        /\ row[decide[d].r] = "pending" /\ start[decide[d].r] = "open"
        /\ \A e \in Deciders : decide[e] # Idle /\ decide[e].r = decide[d].r => d = e

(* Before its record is stored a request is known to nobody.                *)
NotYetOpen ==
    \A r \in Requests :
        /\ start[r] \in {"new", "counted"} => row[r] = None /\ r \notin expired
        /\ start[r] # "open" => /\ row[r] \in {None, "pending"} /\ record[r] = None
                                /\ issued[r] = 0
                                /\ \A p \in Polls : poll[p] # Idle => poll[p].r # r

(* What a poll or the record says of the user is what the user said.        *)
SaidByUser ==
    \A r \in Requests \ torn :
        /\ record[r] \in Answers => Given(r, record[r])
        /\ \A p \in Polls : poll[p] # Idle /\ poll[p].r = r /\ poll[p].status \in Answers
                              => Given(r, poll[p].status)
        /\ issued[r] > 0 => Given(r, "approved")

(* A poll past its GETDEL had seen an approval.                             *)
TakenIsApproved == \A p \in Polls : poll[p].at = "taken" => poll[p].status = "approved"

(* A collected record is gone, and one poll has it or had tokens for it.    *)
SpentOnce ==
    \A r \in Requests \ (torn \cup clobbered) :
        /\ Spent(r) => record[r] = None
        /\ issued[r] <= 1
        /\ \A p \in Polls : poll[p].at = "taken" /\ poll[p].r = r =>
             /\ issued[r] = 0
             /\ \A q \in Polls : poll[q].at = "taken" /\ poll[q].r = r => p = q

(* The answer of whoever is about to commit is in the record already.       *)
StoredIsThere ==
    \A d \in Deciders : decide[d].at = "stored" =>
        \/ record[decide[d].r] = decide[d].answer
        \/ decide[d].r \in told \cup expired \cup clobbered \cup torn

(* A poll that means to delete its record found it past its time.           *)
LateIsExpired == \A p \in Polls : poll[p].at = "late" => poll[p].r \in expired

(* Between its count and its row a start has its place kept.                *)
PlaceIsKept ==
    /\ IsFiniteSet(Pending)
    /\ ~ crowded =>
         /\ Cardinality(Pending) <= MaxPending
         /\ \A r \in Requests : start[r] = "counted" =>
              /\ Cardinality(Pending) < MaxPending
              /\ \A q \in Requests : start[q] = "counted" => q = r

AnswerInv == RowIsHeld /\ NotYetOpen /\ SaidByUser /\ TakenIsApproved /\ SpentOnce
ReachInv == LateIsExpired /\ StoredIsThere /\ AnswerReachesClient

(* Init has the types.                                                      *)
LEMMA InitTypes == Init => TypeOK
<1> SUFFICES ASSUME Init PROVE TypeOK
  OBVIOUS
<1>1. 0 \in 0..MaxFaults
  BY CibaAssumption
<1>2. decide \in [Deciders -> Decision \cup {Idle}] /\ poll \in [Polls -> TokenRequest \cup {Idle}]
  BY DEF Init
<1> QED BY <1>1, <1>2 DEF Init, TypeOK

(* Every step keeps the types: requests are given their status and nothing  *)
(* else, decisions and token requests their next stage.                     *)
LEMMA NextTypes == TypeOK /\ [Next]_vars => TypeOK'
<1> SUFFICES ASSUME TypeOK, [Next]_vars PROVE TypeOK'
  OBVIOUS
<1> USE CibaAssumption
<1>1. ASSUME NEW r \in Requests, StartCount(r) PROVE TypeOK'
  BY <1>1 DEF StartCount, TypeOK
<1>2. ASSUME NEW r \in Requests, StartInsert(r) PROVE TypeOK'
  BY <1>2 DEF StartInsert, TypeOK, historyVars
<1>3. ASSUME NEW r \in Requests, StartStore(r) PROVE TypeOK'
  <2>1. record' \in [Requests -> {None, "pending"} \cup Answers]
    BY <1>3 DEF StartStore, TypeOK
  <2>3. keepsTtl' \in [Requests -> BOOLEAN]
    BY <1>3 DEF StartStore, TypeOK
  <2>4. faults' \in 0..MaxFaults
    BY <1>3 DEF StartStore, TypeOK, Fault
  <2>2. start' \in [Requests -> {"new", "counted", "inserted", "open", "failed"}]
    BY <1>3 DEF StartStore, TypeOK
  <2> QED BY <1>3, <2>1, <2>2, <2>3, <2>4 DEF StartStore, TypeOK, historyVars
<1>4. ASSUME NEW r \in Requests, Expire(r) PROVE TypeOK'
  BY <1>4 DEF Expire, TypeOK, historyVars
<1>5. ASSUME NEW r \in Requests, Drop(r) PROVE TypeOK'
  BY <1>5 DEF Drop, Delete, TypeOK, historyVars
<1>6. ASSUME NEW d \in Deciders, NEW r \in Requests, NEW answer \in Answers,
             DecideRead(d, r, answer)
      PROVE  TypeOK'
  <2>1. [at |-> "read", r |-> r, answer |-> answer] \in Decision
    BY DEF Decision
  <2> QED BY <1>6, <2>1 DEF DecideRead, TypeOK, historyVars
<1>7. ASSUME NEW d \in Deciders, DecideStore(d) PROVE TypeOK'
  <2>1. PICK q \in Decision : q = decide[d]
    BY <1>7 DEF DecideStore, TypeOK, Idle
  <2>2. [q EXCEPT !.at = "stored"] \in Decision
    BY DEF Decision
  <2>3. record' \in [Requests -> {None, "pending"} \cup Answers]
    BY <1>7, <2>1 DEF DecideStore, Store, TypeOK, Decision
  <2>4. keepsTtl' \in [Requests -> BOOLEAN]
    BY <1>7, <2>1 DEF DecideStore, Store, TypeOK, Decision
  <2>5. decide' \in [Deciders -> Decision \cup {Idle}]
    BY <1>7, <2>1, <2>2 DEF DecideStore, TypeOK
  <2> QED BY <1>7, <2>3, <2>4, <2>5 DEF DecideStore, TypeOK, Fault, historyVars
<1>8. ASSUME NEW d \in Deciders, DecideCommit(d) PROVE TypeOK'
  <2>1. PICK q \in Decision : q = decide[d]
    BY <1>8 DEF DecideCommit, TypeOK, Idle
  <2> QED BY <1>8, <2>1 DEF DecideCommit, TypeOK, Fault, Decision
<1>9. ASSUME NEW p \in Polls, NEW r \in Requests, PollLoad(p, r) PROVE TypeOK'
  <2>1. /\ [at |-> "late", r |-> r, status |-> None] \in TokenRequest
        /\ [at |-> "loaded", r |-> r, status |-> record[r]] \in TokenRequest
    BY <1>9 DEF PollLoad, TypeOK, TokenRequest
  <2> QED BY <1>9, <2>1 DEF PollLoad, TypeOK, historyVars
<1>10. ASSUME NEW p \in Polls,
              PollExpired(p) \/ PollPending(p) \/ PollDenied(p) \/ PollTake(p) \/ PollConsume(p)
       PROVE  TypeOK'
  <2>1. PICK q \in TokenRequest : q = poll[p]
    BY <1>10 DEF PollExpired, PollPending, PollDenied, PollTake, PollConsume, TypeOK, Idle
  <2>2. q.r \in Requests /\ [q EXCEPT !.at = "taken"] \in TokenRequest
    BY DEF TokenRequest
  <2>3. CASE PollExpired(p)
    BY <2>1, <2>2, <2>3 DEF Delete, PollExpired, TypeOK, historyVars
  <2>4. CASE PollPending(p)
    <3>1. /\ keepsTtl' \in [Requests -> BOOLEAN]
          /\ record' \in [Requests -> {None, "pending"} \cup Answers]
      BY <2>1, <2>2, <2>4 DEF PollPending, Store, TypeOK
    <3> QED BY <2>1, <2>2, <2>4, <3>1 DEF PollPending, TypeOK
  <2>5. CASE PollDenied(p)
    BY <2>1, <2>2, <2>5 DEF Delete, PollDenied, TypeOK
  <2>6. CASE PollTake(p)
    BY <2>1, <2>2, <2>6 DEF Delete, PollTake, TypeOK
  <2>7. CASE PollConsume(p)
    BY <2>1, <2>2, <2>7 DEF PollConsume, TypeOK, Fault
  <2> QED BY <1>10, <2>3, <2>4, <2>5, <2>6, <2>7
<1>11. CASE UNCHANGED vars
  BY <1>11 DEF vars, historyVars, TypeOK
<1> QED BY <1>1, <1>2, <1>3, <1>4, <1>5, <1>6, <1>7, <1>8, <1>9, <1>10, <1>11 DEF Next

(* The states of requests, rows, records, answers and polls stay what they  *)
(* are, for any number of each.                                             *)
THEOREM TypeCorrect == Spec => []TypeOK
  BY InitTypes, NextTypes, PTL DEF Spec

(* Nobody has answered or collected anything to begin with.                 *)
LEMMA InitAnswer == Init => AnswerInv
  BY CibaAssumption DEF Init, AnswerInv, RowIsHeld, NotYetOpen, SaidByUser, TakenIsApproved,
     SpentOnce,
         Given, Spent, Idle, Answers

(* Every step keeps what ties rows, records, answers and polls together.    *)
LEMMA NextAnswer == TypeOK /\ TypeOK' /\ AnswerInv /\ [Next]_vars => AnswerInv'
<1> SUFFICES ASSUME TypeOK, TypeOK', AnswerInv, [Next]_vars PROVE AnswerInv'
  OBVIOUS
<1> USE CibaAssumption
<1>a. \A x \in Polls : \/ poll[x] = Idle /\ poll[x].at = "idle"
                      \/ /\ poll[x] # Idle /\ poll[x].at \in {"late", "loaded", "taken"}
                         /\ poll[x].r \in Requests /\ poll[x].status \in {None, "pending"} \cup Answers
  BY DEF TypeOK, TokenRequest, Idle
<1>b. \A x \in Deciders : \/ decide[x] = Idle /\ decide[x].at = "idle"
                         \/ /\ decide[x] # Idle /\ decide[x].at \in {"read", "stored"}
                            /\ decide[x].r \in Requests /\ decide[x].answer \in Answers
                            /\ decide[x] = [at |-> decide[x].at, r |-> decide[x].r, answer |-> decide[x].answer]
  BY DEF TypeOK, Decision, Idle
<1>c. None \notin Answers /\ "pending" \notin Answers
  BY DEF Answers
<1>d. ASSUME UNCHANGED <<row, decide>> PROVE \A s, a : Given(s, a)' <=> Given(s, a)
  BY <1>d DEF Given
<1>1. ASSUME NEW r \in Requests, StartCount(r) PROVE AnswerInv'
  <2>1. RowIsHeld'
    BY <1>1, <1>a, <1>b DEF AnswerInv, RowIsHeld, NotYetOpen, TypeOK, Answers, Idle, StartCount
  <2>2. NotYetOpen'
    BY <1>1, <1>a, <1>b DEF AnswerInv, NotYetOpen, RowIsHeld, TypeOK, Answers, Idle, StartCount
  <2>3. SaidByUser'
    BY <1>1, <1>a, <1>b DEF AnswerInv, SaidByUser, Given, RowIsHeld, NotYetOpen, TakenIsApproved,
       TypeOK, Answers, Idle, StartCount
  <2>4. TakenIsApproved'
    BY <1>1, <1>a, <1>b DEF AnswerInv, TakenIsApproved, TypeOK, Answers, Idle, StartCount
  <2>5. SpentOnce'
    BY <1>1, <1>a, <1>b DEF AnswerInv, SpentOnce, Spent, Given, SaidByUser, NotYetOpen, RowIsHeld,
       TakenIsApproved, TypeOK, Answers, Idle, StartCount
  <2> QED BY <2>1, <2>2, <2>3, <2>4, <2>5 DEF AnswerInv
<1>2. ASSUME NEW r \in Requests, StartInsert(r) PROVE AnswerInv'
  <2>1. RowIsHeld'
    BY <1>2, <1>a, <1>b DEF AnswerInv, RowIsHeld, NotYetOpen, TypeOK, Answers, Idle, StartInsert,
       historyVars
  <2>2. NotYetOpen'
    BY <1>2, <1>a, <1>b DEF AnswerInv, NotYetOpen, RowIsHeld, TypeOK, Answers, Idle, StartInsert,
       historyVars
  <2>3. SaidByUser'
    BY <1>2, <1>a, <1>b DEF AnswerInv, SaidByUser, Given, RowIsHeld, NotYetOpen, TakenIsApproved,
       TypeOK, Answers, Idle, StartInsert, historyVars
  <2>4. TakenIsApproved'
    BY <1>2, <1>a, <1>b DEF AnswerInv, TakenIsApproved, TypeOK, Answers, Idle, StartInsert,
       historyVars
  <2>5. SpentOnce'
    BY <1>2, <1>a, <1>b DEF AnswerInv, SpentOnce, Spent, Given, SaidByUser, NotYetOpen, RowIsHeld,
       TakenIsApproved, TypeOK, Answers, Idle, StartInsert, historyVars
  <2> QED BY <2>1, <2>2, <2>3, <2>4, <2>5 DEF AnswerInv
<1>3. ASSUME NEW r \in Requests, StartStore(r) PROVE AnswerInv'
  <2>1. RowIsHeld'
    BY <1>3, <1>a, <1>b DEF AnswerInv, RowIsHeld, NotYetOpen, TypeOK, Answers, Idle, StartStore,
       historyVars
  <2>2. NotYetOpen'
    BY <1>3, <1>a, <1>b DEF AnswerInv, NotYetOpen, RowIsHeld, TypeOK, Answers, Idle, StartStore,
       historyVars
  <2>3. SaidByUser'
    BY <1>3, <1>a, <1>b DEF AnswerInv, SaidByUser, Given, RowIsHeld, NotYetOpen, TakenIsApproved,
       TypeOK, Answers, Idle, StartStore, historyVars
  <2>4. TakenIsApproved'
    BY <1>3, <1>a, <1>b DEF AnswerInv, TakenIsApproved, TypeOK, Answers, Idle, StartStore,
       historyVars
  <2>5. SpentOnce'
    BY <1>3, <1>a, <1>b DEF AnswerInv, SpentOnce, Spent, Given, SaidByUser, NotYetOpen, RowIsHeld,
       TakenIsApproved, TypeOK, Answers, Idle, StartStore, historyVars
  <2> QED BY <2>1, <2>2, <2>3, <2>4, <2>5 DEF AnswerInv
<1>4. ASSUME NEW r \in Requests, Expire(r) PROVE AnswerInv'
  <2>1. RowIsHeld'
    BY <1>4, <1>a, <1>b DEF AnswerInv, RowIsHeld, NotYetOpen, TypeOK, Answers, Idle, Expire,
       historyVars
  <2>2. NotYetOpen'
    BY <1>4, <1>a, <1>b DEF AnswerInv, NotYetOpen, RowIsHeld, TypeOK, Answers, Idle, Expire,
       historyVars
  <2>3. SaidByUser'
    BY <1>4, <1>a, <1>b DEF AnswerInv, SaidByUser, Given, RowIsHeld, NotYetOpen, TakenIsApproved,
       TypeOK, Answers, Idle, Expire, historyVars
  <2>4. TakenIsApproved'
    BY <1>4, <1>a, <1>b DEF AnswerInv, TakenIsApproved, TypeOK, Answers, Idle, Expire, historyVars
  <2>5. SpentOnce'
    BY <1>4, <1>a, <1>b DEF AnswerInv, SpentOnce, Spent, Given, SaidByUser, NotYetOpen, RowIsHeld,
       TakenIsApproved, TypeOK, Answers, Idle, Expire, historyVars
  <2> QED BY <2>1, <2>2, <2>3, <2>4, <2>5 DEF AnswerInv
<1>5. ASSUME NEW r \in Requests, Drop(r) PROVE AnswerInv'
  <2>1. RowIsHeld'
    BY <1>5, <1>a, <1>b DEF AnswerInv, RowIsHeld, NotYetOpen, TypeOK, Answers, Idle, Drop,
       historyVars
  <2>2. NotYetOpen'
    BY <1>5, <1>a, <1>b DEF Delete, AnswerInv, NotYetOpen, RowIsHeld, TypeOK, Answers, Idle, Drop,
       historyVars
  <2>3. SaidByUser'
    <3>1. record'[r] = None /\ \A s \in Requests \ {r} : record'[s] = record[s]
      BY <1>5 DEF Delete, Drop, TypeOK
    <3>2. UNCHANGED <<row, decide, poll, issued, torn>>
      BY <1>5 DEF Drop, historyVars
    <3> QED BY <1>c, <1>d, <3>1, <3>2 DEF AnswerInv, SaidByUser
  <2>4. TakenIsApproved'
    BY <1>5, <1>a, <1>b DEF AnswerInv, TakenIsApproved, TypeOK, Answers, Idle, Drop, historyVars
  <2>5. SpentOnce'
    BY <1>5, <1>a, <1>b DEF Delete, AnswerInv, SpentOnce, Spent, Given, SaidByUser, NotYetOpen, RowIsHeld,
       TakenIsApproved, TypeOK, Answers, Idle, Drop, historyVars
  <2> QED BY <2>1, <2>2, <2>3, <2>4, <2>5 DEF AnswerInv
<1>6. ASSUME NEW d \in Deciders, NEW r \in Requests, NEW answer \in Answers,
             DecideRead(d, r, answer)
      PROVE  AnswerInv'
  <2>1. RowIsHeld'
    BY <1>6, <1>a, <1>b DEF AnswerInv, RowIsHeld, NotYetOpen, TypeOK, Answers, Idle, DecideRead,
       Pending, historyVars
  <2>2. NotYetOpen'
    BY <1>6, <1>a, <1>b DEF AnswerInv, NotYetOpen, RowIsHeld, TypeOK, Answers, Idle, DecideRead,
       Pending, historyVars
  <2>3. SaidByUser'
    BY <1>6, <1>a, <1>b DEF AnswerInv, SaidByUser, Given, RowIsHeld, NotYetOpen, TakenIsApproved,
       TypeOK, Answers, Idle, DecideRead, Pending, historyVars
  <2>4. TakenIsApproved'
    BY <1>6, <1>a, <1>b DEF AnswerInv, TakenIsApproved, TypeOK, Answers, Idle, DecideRead,
       Pending, historyVars
  <2>5. SpentOnce'
    BY <1>6, <1>a, <1>b DEF AnswerInv, SpentOnce, Spent, Given, SaidByUser, NotYetOpen, RowIsHeld,
       TakenIsApproved, TypeOK, Answers, Idle, DecideRead, Pending, historyVars
  <2> QED BY <2>1, <2>2, <2>3, <2>4, <2>5 DEF AnswerInv
<1>7. ASSUME NEW d \in Deciders, DecideStore(d) PROVE AnswerInv'
  <2>1. PICK q \in Decision : q = decide[d] /\ q.at = "read" /\ q.r \in Requests /\ q.answer \in Answers
    BY <1>7 DEF DecideStore, TypeOK, Decision, Idle
  <2>2. UNCHANGED <<start, row, expired, poll, issued, torn, clobbered>>
    BY <1>7 DEF DecideStore, historyVars
  <2>3. /\ row[q.r] = "pending" /\ start[q.r] = "open"
        /\ \A e \in Deciders : decide[e] # Idle /\ decide[e].r = q.r => e = d
    BY <1>b, <2>1 DEF AnswerInv, RowIsHeld, Idle
  <2>4. \A a \in Answers : ~ Given(q.r, a)
    <3> SUFFICES ASSUME NEW a \in Answers, Given(q.r, a) PROVE FALSE
      OBVIOUS
    <3>1. PICK e \in Deciders : decide[e] = [at |-> "stored", r |-> q.r, answer |-> a]
      BY <1>c, <2>3 DEF Given
    <3>2. decide[e].at = "stored" /\ decide[e].r = q.r /\ decide[e] # Idle
      BY <3>1 DEF Idle
    <3> QED BY <2>1, <2>3, <3>2
  <2>5. q.r \notin torn => /\ issued[q.r] = 0 /\ ~ Spent(q.r) /\ record[q.r] \notin Answers
                          /\ \A p \in Polls : poll[p] # Idle /\ poll[p].r = q.r => poll[p].status \notin Answers
    <3>1. q.r \notin torn => /\ ~ (issued[q.r] > 0) /\ record[q.r] \notin Answers
                            /\ \A p \in Polls : poll[p] # Idle /\ poll[p].r = q.r => poll[p].status \notin Answers
      BY <2>1, <2>4 DEF AnswerInv, SaidByUser, Answers
    <3>2. \A p \in Polls : poll[p].at = "taken" => poll[p] # Idle /\ poll[p].status \in Answers
      BY <1>a DEF AnswerInv, TakenIsApproved, Answers
    <3> QED BY <2>1, <3>1, <3>2 DEF TypeOK, Spent
  <2>6. CASE decide' = [decide EXCEPT ![d].at = "stored"] /\ Store(q.r, q.answer)
    <3>1. decide'[d] = [at |-> "stored", r |-> q.r, answer |-> q.answer]
      BY <2>1, <2>6 DEF TypeOK, Decision
    <3>2. \A e \in Deciders \ {d} : decide'[e] = decide[e]
      BY <2>6 DEF TypeOK
    <3>3. record'[q.r] = q.answer /\ \A s \in Requests \ {q.r} : record'[s] = record[s]
      BY <2>1, <2>6 DEF Store, TypeOK
    <3>4. \A s \in Requests \ {q.r}, a \in Answers : Given(s, a) => Given(s, a)'
      <4> SUFFICES ASSUME NEW s \in Requests \ {q.r}, NEW a \in Answers, NEW e \in Deciders,
                          decide[e] = [at |-> "stored", r |-> s, answer |-> a]
                   PROVE  decide'[e] = [at |-> "stored", r |-> s, answer |-> a]
        BY <2>2 DEF Given
      <4>1. e # d
        BY <2>1
      <4> QED BY <3>2, <4>1
    <3>5. Given(q.r, q.answer)'
      BY <3>1 DEF Given
    <3>6. RowIsHeld'
      BY <2>1, <2>2, <2>3, <3>1, <3>2 DEF AnswerInv, RowIsHeld, Idle
    <3>7. NotYetOpen'
      BY <2>2, <2>3, <3>3 DEF AnswerInv, NotYetOpen
    <3>8. SaidByUser'
      BY <2>1, <2>2, <2>5, <3>3, <3>4, <3>5, <1>a DEF AnswerInv, SaidByUser, TypeOK, Answers
    <3>9. SpentOnce'
      BY <2>1, <2>2, <2>5, <3>3 DEF AnswerInv, SpentOnce, Spent
    <3> QED BY <2>2, <3>6, <3>7, <3>8, <3>9 DEF AnswerInv, TakenIsApproved
  <2>7. CASE decide' = [decide EXCEPT ![d] = Idle] /\ UNCHANGED record
    <3>1. decide'[d] = Idle /\ \A e \in Deciders \ {d} : decide'[e] = decide[e]
      BY <2>7 DEF TypeOK
    <3>2. \A s, a : Given(s, a) => Given(s, a)'
      <4> SUFFICES ASSUME NEW s, NEW a, NEW e \in Deciders,
                          decide[e] = [at |-> "stored", r |-> s, answer |-> a]
                   PROVE  decide'[e] = [at |-> "stored", r |-> s, answer |-> a]
        BY <2>2 DEF Given
      <4>1. e # d
        BY <2>1
      <4> QED BY <3>1, <4>1
    <3>3. RowIsHeld'
      BY <2>2, <3>1 DEF AnswerInv, RowIsHeld
    <3>4. NotYetOpen' /\ TakenIsApproved' /\ SpentOnce'
      BY <2>2, <2>7 DEF AnswerInv, NotYetOpen, TakenIsApproved, SpentOnce, Spent
    <3>5. SaidByUser'
      BY <2>2, <2>7, <3>2 DEF AnswerInv, SaidByUser
    <3> QED BY <3>3, <3>4, <3>5 DEF AnswerInv
  <2> QED BY <1>7, <2>1, <2>6, <2>7 DEF DecideStore
<1>8. ASSUME NEW d \in Deciders, DecideCommit(d) PROVE AnswerInv'
  <2>1. RowIsHeld'
    BY <1>8, <1>a, <1>b DEF AnswerInv, RowIsHeld, NotYetOpen, TypeOK, Answers, Idle, DecideCommit
  <2>2. NotYetOpen'
    BY <1>8, <1>a, <1>b DEF AnswerInv, NotYetOpen, RowIsHeld, TypeOK, Answers, Idle, DecideCommit
  <2>3. SaidByUser'
    BY <1>8, <1>a, <1>b DEF AnswerInv, SaidByUser, Given, RowIsHeld, NotYetOpen, TakenIsApproved,
       TypeOK, Answers, Idle, DecideCommit
  <2>4. TakenIsApproved'
    BY <1>8, <1>a, <1>b DEF AnswerInv, TakenIsApproved, TypeOK, Answers, Idle, DecideCommit
  <2>5. SpentOnce'
    BY <1>8, <1>a, <1>b DEF AnswerInv, SpentOnce, Spent, Given, SaidByUser, NotYetOpen, RowIsHeld,
       TakenIsApproved, TypeOK, Answers, Idle, DecideCommit
  <2> QED BY <2>1, <2>2, <2>3, <2>4, <2>5 DEF AnswerInv
<1>9. ASSUME NEW p \in Polls, NEW r \in Requests, PollLoad(p, r) PROVE AnswerInv'
  <2>1. RowIsHeld'
    BY <1>9, <1>a, <1>b DEF AnswerInv, RowIsHeld, NotYetOpen, TypeOK, Answers, Idle, PollLoad,
       historyVars
  <2>2. NotYetOpen'
    BY <1>9, <1>a, <1>b DEF AnswerInv, NotYetOpen, RowIsHeld, TypeOK, Answers, Idle, PollLoad,
       historyVars
  <2>3. SaidByUser'
    BY <1>9, <1>a, <1>b DEF AnswerInv, SaidByUser, Given, RowIsHeld, NotYetOpen, TakenIsApproved,
       TypeOK, Answers, Idle, PollLoad, historyVars
  <2>4. TakenIsApproved'
    BY <1>9, <1>a, <1>b DEF AnswerInv, TakenIsApproved, TypeOK, Answers, Idle, PollLoad, historyVars
  <2>5. SpentOnce'
    BY <1>9, <1>a, <1>b DEF AnswerInv, SpentOnce, Spent, Given, SaidByUser, NotYetOpen, RowIsHeld,
       TakenIsApproved, TypeOK, Answers, Idle, PollLoad, historyVars
  <2> QED BY <2>1, <2>2, <2>3, <2>4, <2>5 DEF AnswerInv
<1>10. ASSUME NEW p \in Polls, PollExpired(p) PROVE AnswerInv'
  <2>1. RowIsHeld'
    BY <1>10, <1>a, <1>b DEF AnswerInv, RowIsHeld, NotYetOpen, TypeOK, Answers, Idle, PollExpired,
       historyVars
  <2>2. NotYetOpen'
    BY <1>10, <1>a, <1>b DEF Delete, AnswerInv, NotYetOpen, RowIsHeld, TypeOK, Answers, Idle, PollExpired,
       historyVars
  <2>3. SaidByUser'
    <3>1. record'[poll[p].r] = None /\ \A s \in Requests \ {poll[p].r} : record'[s] = record[s]
      BY <1>10, <1>a DEF Delete, PollExpired, TypeOK
    <3>2. UNCHANGED <<row, decide, issued, torn>>
      BY <1>10 DEF PollExpired, historyVars
    <3>3. poll'[p] = Idle /\ \A x \in Polls \ {p} : poll'[x] = poll[x]
      BY <1>10 DEF PollExpired, TypeOK
    <3> QED BY <1>c, <1>d, <3>1, <3>2, <3>3 DEF AnswerInv, SaidByUser
  <2>4. TakenIsApproved'
    BY <1>10, <1>a, <1>b DEF AnswerInv, TakenIsApproved, TypeOK, Answers, Idle, PollExpired,
       historyVars
  <2>5. SpentOnce'
    BY <1>10, <1>a, <1>b DEF Delete, AnswerInv, SpentOnce, Spent, Given, SaidByUser, NotYetOpen,
       RowIsHeld, TakenIsApproved, TypeOK, Answers, Idle, PollExpired, historyVars
  <2> QED BY <2>1, <2>2, <2>3, <2>4, <2>5 DEF AnswerInv
<1>11. ASSUME NEW p \in Polls, PollPending(p) PROVE AnswerInv'
  <2>1. RowIsHeld'
    BY <1>11, <1>a, <1>b DEF AnswerInv, RowIsHeld, NotYetOpen, TypeOK, Answers, Idle, PollPending,
       Store
  <2>2. NotYetOpen'
    BY <1>11, <1>a, <1>b DEF AnswerInv, NotYetOpen, RowIsHeld, TypeOK, Answers, Idle, PollPending,
       Store
  <2>3. SaidByUser'
    BY <1>11, <1>a, <1>b DEF AnswerInv, SaidByUser, Given, RowIsHeld, NotYetOpen, TakenIsApproved,
       TypeOK, Answers, Idle, PollPending, Store
  <2>4. TakenIsApproved'
    BY <1>11, <1>a, <1>b DEF AnswerInv, TakenIsApproved, TypeOK, Answers, Idle, PollPending, Store
  <2>5. SpentOnce'
    BY <1>11, <1>a, <1>b DEF AnswerInv, SpentOnce, Spent, Given, SaidByUser, NotYetOpen,
       RowIsHeld, TakenIsApproved, TypeOK, Answers, Idle, PollPending, Store
  <2> QED BY <2>1, <2>2, <2>3, <2>4, <2>5 DEF AnswerInv
<1>12. ASSUME NEW p \in Polls, PollDenied(p) PROVE AnswerInv'
  <2>1. RowIsHeld'
    BY <1>12, <1>a, <1>b DEF AnswerInv, RowIsHeld, NotYetOpen, TypeOK, Answers, Idle, PollDenied
  <2>2. NotYetOpen'
    BY <1>12, <1>a, <1>b DEF Delete, AnswerInv, NotYetOpen, RowIsHeld, TypeOK, Answers, Idle, PollDenied
  <2>3. SaidByUser'
    <3>1. record'[poll[p].r] = None /\ \A s \in Requests \ {poll[p].r} : record'[s] = record[s]
      BY <1>12, <1>a DEF Delete, PollDenied, TypeOK
    <3>2. UNCHANGED <<row, decide, issued, torn>>
      BY <1>12 DEF PollDenied
    <3>3. poll'[p] = Idle /\ \A x \in Polls \ {p} : poll'[x] = poll[x]
      BY <1>12 DEF PollDenied, TypeOK
    <3> QED BY <1>c, <1>d, <3>1, <3>2, <3>3 DEF AnswerInv, SaidByUser
  <2>4. TakenIsApproved'
    BY <1>12, <1>a, <1>b DEF AnswerInv, TakenIsApproved, TypeOK, Answers, Idle, PollDenied
  <2>5. SpentOnce'
    BY <1>12, <1>a, <1>b DEF Delete, AnswerInv, SpentOnce, Spent, Given, SaidByUser, NotYetOpen,
       RowIsHeld, TakenIsApproved, TypeOK, Answers, Idle, PollDenied
  <2> QED BY <2>1, <2>2, <2>3, <2>4, <2>5 DEF AnswerInv
<1>13. ASSUME NEW p \in Polls, PollTake(p) PROVE AnswerInv'
  <2>1. PICK q \in TokenRequest : q = poll[p] /\ q.at = "loaded" /\ q.status = "approved" /\ q.r \in Requests
    BY <1>13 DEF PollTake, TypeOK, TokenRequest, Idle
  <2>2. UNCHANGED <<start, row, expired, decide, issued, torn, clobbered>>
    BY <1>13 DEF PollTake
  <2>3. record'[q.r] = None /\ \A s \in Requests \ {q.r} : record'[s] = record[s]
    BY <1>13, <2>1 DEF Delete, PollTake, TypeOK
  <2>4. \A x \in Polls \ {p} : poll'[x] = poll[x]
    BY <1>13 DEF PollTake, TypeOK
  <2>5. \/ poll'[p] = Idle
        \/ record[q.r] # None /\ poll'[p] = [at |-> "taken", r |-> q.r, status |-> q.status]
    BY <1>13, <2>1 DEF PollTake, TypeOK, TokenRequest
  <2>6. poll'[p] # Idle => poll'[p].r = q.r /\ poll'[p].status = "approved"
    BY <2>1, <2>5
  <2>7. RowIsHeld' /\ NotYetOpen' /\ TakenIsApproved'
    BY <1>a, <2>1, <2>2, <2>3, <2>4, <2>6 DEF AnswerInv, RowIsHeld, NotYetOpen, TakenIsApproved,
       Idle
  <2>8. SaidByUser'
    <3>1. q.r \notin torn => Given(q.r, "approved")
      BY <1>a, <2>1 DEF AnswerInv, SaidByUser, Answers, Idle
    <3> QED BY <1>c, <1>d, <2>2, <2>3, <2>4, <2>6, <3>1 DEF AnswerInv, SaidByUser
  <2>9. SpentOnce'
    <3> SUFFICES ASSUME NEW s \in Requests \ (torn \cup clobbered)
                 PROVE  /\ Spent(s)' => record'[s] = None
                        /\ issued[s] <= 1
                        /\ \A x \in Polls : poll'[x].at = "taken" /\ poll'[x].r = s =>
                             /\ issued[s] = 0
                             /\ \A y \in Polls : poll'[y].at = "taken" /\ poll'[y].r = s => x = y
      BY <2>2 DEF SpentOnce
    <3>1. CASE s # q.r \/ poll'[p] = Idle
      <4>1. poll'[p].at = "taken" => poll'[p].r # s
        BY <2>6, <3>1 DEF Idle
      <4> QED BY <2>2, <2>3, <2>4, <4>1 DEF AnswerInv, SpentOnce, Spent
    <3>2. CASE s = q.r /\ poll'[p] # Idle
      <4>1. ~ Spent(s)
        BY <2>5, <3>2 DEF AnswerInv, SpentOnce
      <4>2. issued[s] = 0 /\ \A x \in Polls : ~ (poll[x].at = "taken" /\ poll[x].r = s)
        BY <4>1 DEF Spent, TypeOK
      <4> QED BY <2>3, <2>4, <3>2, <4>2
    <3> QED BY <3>1, <3>2
  <2> QED BY <2>7, <2>8, <2>9 DEF AnswerInv
<1>14. ASSUME NEW p \in Polls, PollConsume(p) PROVE AnswerInv'
  <2>1. RowIsHeld'
    BY <1>14, <1>a, <1>b DEF AnswerInv, RowIsHeld, NotYetOpen, TypeOK, Answers, Idle, PollConsume
  <2>2. NotYetOpen'
    BY <1>14, <1>a, <1>b DEF AnswerInv, NotYetOpen, RowIsHeld, TypeOK, Answers, Idle, PollConsume
  <2>3. SaidByUser'
    BY <1>14, <1>a, <1>b DEF AnswerInv, SaidByUser, Given, RowIsHeld, NotYetOpen, TakenIsApproved,
       TypeOK, Answers, Idle, PollConsume
  <2>4. TakenIsApproved'
    BY <1>14, <1>a, <1>b DEF AnswerInv, TakenIsApproved, TypeOK, Answers, Idle, PollConsume
  <2>5. SpentOnce'
    BY <1>14, <1>a, <1>b DEF AnswerInv, SpentOnce, Spent, Given, SaidByUser, NotYetOpen,
       RowIsHeld, TakenIsApproved, TypeOK, Answers, Idle, PollConsume
  <2> QED BY <2>1, <2>2, <2>3, <2>4, <2>5 DEF AnswerInv
<1>15. CASE UNCHANGED vars
  BY <1>15 DEF vars, historyVars, AnswerInv, RowIsHeld, NotYetOpen, SaidByUser, TakenIsApproved,
     SpentOnce, Given, Spent
<1> QED BY <1>1, <1>2, <1>3, <1>4, <1>5, <1>6, <1>7, <1>8, <1>9, <1>10, <1>11, <1>12, <1>13,
           <1>14, <1>15 DEF Next

(* What the row's lock, the record and the polls say agrees in every state. *)
THEOREM AnswersAgree == Spec => [](TypeOK /\ AnswerInv)
<1>1. Init => TypeOK /\ AnswerInv
  BY InitTypes, InitAnswer
<1>2. (TypeOK /\ AnswerInv) /\ [Next]_vars => (TypeOK /\ AnswerInv)'
  BY NextTypes, NextAnswer
<1> QED BY <1>1, <1>2, PTL DEF Spec

(* However polls, answers, failures and expiry interleave, tokens are       *)
(* issued once and on an approval that is, or is about to be, committed:    *)
(* CollectedOnce.                                                           *)
THEOREM TokensOnce == Spec => []CollectedOnce
<1>1. TypeOK /\ AnswerInv => CollectedOnce
  <2> SUFFICES ASSUME TypeOK, AnswerInv, NEW r \in Requests \ torn
               PROVE  /\ issued[r] <= 1 \/ r \in clobbered
                      /\ issued[r] > 0 => Given(r, "approved")
    BY DEF CollectedOnce, Given
  <2> QED BY DEF AnswerInv, SaidByUser, SpentOnce
<1> QED BY <1>1, AnswersAgree, PTL

(* A step keeps the answer of a request within the client's reach, until it *)
(* is collected, runs out or is overwritten.                                *)
LEMMA NextReach == TypeOK /\ AnswerInv /\ ReachInv /\ [Next]_vars => ReachInv'
<1> SUFFICES ASSUME TypeOK, AnswerInv, ReachInv, [Next]_vars PROVE ReachInv'
  OBVIOUS
<1> USE CibaAssumption
<1> DEFINE Excused == told \cup expired \cup clobbered \cup torn
<1>a. \A x \in Polls : \/ poll[x] = Idle /\ poll[x].at = "idle"
                      \/ /\ poll[x] # Idle /\ poll[x].at \in {"late", "loaded", "taken"}
                         /\ poll[x].r \in Requests
  BY DEF TypeOK, TokenRequest, Idle
<1>b. \A x \in Deciders : \/ decide[x] = Idle /\ decide[x].at = "idle"
                         \/ /\ decide[x] # Idle /\ decide[x].at \in {"read", "stored"}
                            /\ decide[x].r \in Requests /\ decide[x].answer \in Answers
  BY DEF TypeOK, Decision, Idle
<1>c. None \notin Answers /\ "pending" \notin Answers /\ "consumed" \notin Answers
  BY DEF Answers
<1>e. LateIsExpired'
  <2>1. expired \subseteq expired'
    BY DEF Next, vars, historyVars, StartCount, StartInsert, StartStore, Expire, Drop, DecideRead,
           DecideStore, DecideCommit, PollLoad, PollExpired, PollPending, PollDenied, PollTake,
           PollConsume
  <2>2. ASSUME NEW x \in Polls, poll'[x].at = "late"
        PROVE  \/ poll[x] = poll'[x]
               \/ poll'[x].r \in expired
    <3>1. \/ UNCHANGED poll
          \/ \E p \in Polls : \E r \in Requests : PollLoad(p, r)
          \/ \E p \in Polls : \/ poll' = [poll EXCEPT ![p] = Idle]
                            \/ poll' = [poll EXCEPT ![p].at = "taken"]
      BY DEF Next, vars, historyVars, StartCount, StartInsert, StartStore, Expire, Drop, DecideRead,
             DecideStore, DecideCommit, PollExpired, PollPending, PollDenied, PollTake, PollConsume
    <3>2. CASE \E p \in Polls : \E r \in Requests : PollLoad(p, r)
      BY <2>2, <3>2 DEF PollLoad, TypeOK
    <3>3. CASE \E p \in Polls : \/ poll' = [poll EXCEPT ![p] = Idle]
                               \/ poll' = [poll EXCEPT ![p].at = "taken"]
      <4>1. PICK p \in Polls : \/ poll' = [poll EXCEPT ![p] = Idle]
                               \/ poll' = [poll EXCEPT ![p].at = "taken"]
        BY <3>3
      <4>2. poll[p] \in TokenRequest \cup {Idle}
        BY DEF TypeOK
      <4>3. poll'[p].at # "late"
        BY <4>1, <4>2 DEF TypeOK, TokenRequest, Idle
      <4>4. x # p => poll'[x] = poll[x]
        BY <4>1 DEF TypeOK
      <4> QED BY <2>2, <4>3, <4>4
    <3> QED BY <3>1, <3>2, <3>3
  <2> QED BY <2>1, <2>2 DEF ReachInv, LateIsExpired
<1>d. ASSUME UNCHANGED <<row, decide>>, Excused \subseteq Excused',
             \A s \in Requests : record'[s] = record[s] \/ s \in Excused' \/ record[s] \notin Answers
      PROVE  ReachInv'
  <2>1. \A x \in Deciders : decide[x].at = "stored" =>
            decide[x].r \in Requests /\ decide[x].answer \in Answers
    BY <1>b
  <2>2. StoredIsThere'
    BY <1>d, <2>1 DEF ReachInv, StoredIsThere
  <2>3. AnswerReachesClient'
    BY <1>d DEF ReachInv, AnswerReachesClient
  <2> QED BY <1>e, <2>2, <2>3 DEF ReachInv
<1>1. ASSUME NEW r \in Requests, StartCount(r) PROVE ReachInv'
  BY <1>1, <1>d DEF StartCount
<1>2. ASSUME NEW r \in Requests, StartInsert(r) PROVE ReachInv'
  <2>1. UNCHANGED <<decide, record, told, expired, clobbered, torn>>
    BY <1>2 DEF StartInsert, historyVars
  <2>2. \A s \in Requests : row'[s] = row[s] \/ row'[s] \notin Answers
    BY <1>2 DEF StartInsert, TypeOK, Answers
  <2> QED BY <1>e, <2>1, <2>2 DEF ReachInv, StoredIsThere, AnswerReachesClient
<1>3. ASSUME NEW r \in Requests, StartStore(r) PROVE ReachInv'
  <2>1. \A s \in Requests : record'[s] = record[s] \/ record[s] \notin Answers
    BY <1>3, <1>c DEF StartStore, AnswerInv, NotYetOpen, TypeOK
  <2> QED BY <1>3, <1>d, <2>1 DEF StartStore, historyVars
<1>4. ASSUME NEW r \in Requests, Expire(r) PROVE ReachInv'
  BY <1>4, <1>d DEF Expire, historyVars
<1>5. ASSUME NEW r \in Requests, Drop(r) PROVE ReachInv'
  <2>1. \A s \in Requests : record'[s] = record[s] \/ s \in expired
    BY <1>5 DEF Delete, Drop, TypeOK
  <2> QED BY <1>5, <1>d, <2>1 DEF Drop, historyVars
<1>6. ASSUME NEW d \in Deciders, NEW r \in Requests, NEW answer \in Answers,
             DecideRead(d, r, answer)
      PROVE  ReachInv'
  <2>1. decide'[d].at = "read" /\ \A e \in Deciders \ {d} : decide'[e] = decide[e]
    BY <1>6 DEF DecideRead, TypeOK
  <2> QED BY <1>6, <1>e, <2>1 DEF DecideRead, historyVars, ReachInv, StoredIsThere, AnswerReachesClient
<1>7. ASSUME NEW d \in Deciders, DecideStore(d) PROVE ReachInv'
  <2>1. PICK q \in Decision : q = decide[d] /\ q.at = "read" /\ q.r \in Requests
    BY <1>7 DEF DecideStore, TypeOK, Decision, Idle
  <2>2. UNCHANGED <<row, told, expired, clobbered, torn>>
    BY <1>7 DEF DecideStore, historyVars
  <2>3. /\ row[q.r] = "pending"
        /\ \A e \in Deciders : decide[e] # Idle /\ decide[e].r = q.r => e = d
    BY <1>b, <2>1 DEF AnswerInv, RowIsHeld, Idle
  <2>4. \A e \in Deciders \ {d} : decide'[e] = decide[e]
    BY <1>7 DEF DecideStore, TypeOK
  <2>5. \A s \in Requests \ {q.r} : record'[s] = record[s]
    BY <1>7, <2>1 DEF DecideStore, Store, TypeOK
  <2>6. \/ decide'[d].at = "idle"
        \/ decide'[d].r = q.r /\ decide'[d].answer = q.answer /\ record'[q.r] = q.answer
    BY <1>7, <2>1 DEF DecideStore, Store, TypeOK, Decision, Idle
  <2>7. StoredIsThere'
    BY <1>b, <2>2, <2>3, <2>4, <2>5, <2>6 DEF ReachInv, StoredIsThere
  <2>8. AnswerReachesClient'
    BY <1>c, <2>2, <2>3, <2>5 DEF ReachInv, AnswerReachesClient
  <2> QED BY <1>e, <2>7, <2>8 DEF ReachInv
<1>8. ASSUME NEW d \in Deciders, DecideCommit(d) PROVE ReachInv'
  <2>1. PICK q \in Decision : q = decide[d] /\ q.at = "stored" /\ q.r \in Requests
    BY <1>8 DEF DecideCommit, TypeOK, Decision, Idle
  <2>2. UNCHANGED <<record, told, expired, clobbered>> /\ torn \subseteq torn'
    BY <1>8 DEF DecideCommit
  <2>3. decide'[d].at = "idle" /\ \A e \in Deciders \ {d} : decide'[e] = decide[e]
    BY <1>8 DEF DecideCommit, TypeOK, Idle
  <2>4. \A s \in Requests \ {q.r} : row'[s] = row[s]
    BY <1>8, <2>1 DEF DecideCommit, TypeOK
  <2>5. row'[q.r] = q.answer \/ row'[q.r] = row[q.r]
    BY <1>8, <2>1 DEF DecideCommit, TypeOK
  <2>6. StoredIsThere'
    BY <2>2, <2>3 DEF ReachInv, StoredIsThere
  <2>7. AnswerReachesClient'
    BY <2>1, <2>2, <2>4, <2>5 DEF ReachInv, StoredIsThere, AnswerReachesClient
  <2> QED BY <1>e, <2>6, <2>7 DEF ReachInv
<1>9. ASSUME NEW p \in Polls, NEW r \in Requests, PollLoad(p, r) PROVE ReachInv'
  BY <1>9, <1>d DEF PollLoad, historyVars
<1>10. ASSUME NEW p \in Polls, PollExpired(p) PROVE ReachInv'
  <2>1. \A s \in Requests : record'[s] = record[s] \/ s \in expired
    BY <1>10 DEF Delete, PollExpired, TypeOK, ReachInv, LateIsExpired
  <2> QED BY <1>10, <1>d, <2>1 DEF PollExpired, historyVars
<1>11. ASSUME NEW p \in Polls, PollPending(p) PROVE ReachInv'
  <2>1. \A s \in Requests : record'[s] = record[s] \/ s \in clobbered'
    BY <1>11 DEF PollPending, Store, TypeOK
  <2> QED BY <1>11, <1>d, <2>1 DEF PollPending
<1>12. ASSUME NEW p \in Polls, PollDenied(p) PROVE ReachInv'
  <2>1. \A s \in Requests : record'[s] = record[s] \/ s \in told'
    BY <1>12 DEF Delete, PollDenied, TypeOK
  <2> QED BY <1>12, <1>d, <2>1 DEF PollDenied
<1>13. ASSUME NEW p \in Polls, PollTake(p) PROVE ReachInv'
  <2>1. \A s \in Requests : record'[s] = record[s] \/ s \in told'
    BY <1>13 DEF Delete, PollTake, TypeOK
  <2> QED BY <1>13, <1>d, <2>1 DEF PollTake
<1>14. ASSUME NEW p \in Polls, PollConsume(p) PROVE ReachInv'
  <2>1. \A s \in Requests : row'[s] = row[s] \/ row'[s] \notin Answers
    BY <1>14, <1>c DEF PollConsume, TypeOK
  <2> QED BY <1>14, <1>e, <2>1 DEF PollConsume, ReachInv, StoredIsThere, AnswerReachesClient
<1>15. CASE UNCHANGED vars
  BY <1>15, <1>d DEF vars, historyVars
<1> QED BY <1>1, <1>2, <1>3, <1>4, <1>5, <1>6, <1>7, <1>8, <1>9, <1>10, <1>11, <1>12, <1>13, <1>14,
           <1>15 DEF Next

(* A committed answer is in the record, was collected, or is one of the     *)
(* named exceptions: AnswerReachesClient.                                   *)
THEOREM AnswerIsDelivered == Spec => []AnswerReachesClient
<1>1. Init => ReachInv
  BY CibaAssumption
     DEF Init, ReachInv, LateIsExpired, StoredIsThere, AnswerReachesClient, Idle, Answers
<1>2. (TypeOK /\ AnswerInv) /\ ReachInv /\ [Next]_vars => ReachInv'
  BY NextReach
<1>3. ReachInv => AnswerReachesClient
  BY DEF ReachInv
<1> QED BY <1>1, <1>2, <1>3, AnswersAgree, PTL DEF Spec

(* A step that adds nothing to what is pending, and no start that has       *)
(* counted, keeps every place.                                              *)
LEMMA PlaceStays == ASSUME PlaceIsKept, Pending' \subseteq Pending, crowded' = crowded,
                           \A r \in Requests : start'[r] = "counted" => start[r] = "counted"
                    PROVE  PlaceIsKept'
<1>1. IsFiniteSet(Pending') /\ Cardinality(Pending') <= Cardinality(Pending)
  BY FS_Subset DEF PlaceIsKept
<1>2. Cardinality(Pending) \in Nat /\ Cardinality(Pending') \in Nat
  BY <1>1, FS_CardinalityType DEF PlaceIsKept
<1> QED BY <1>1, <1>2, CibaAssumption DEF PlaceIsKept

(* Every step keeps the places: a start that counts finds none kept, or the *)
(* two are crowded, and its row takes the place it counted.                 *)
LEMMA NextPlace == TypeOK /\ AnswerInv /\ PlaceIsKept /\ [Next]_vars => PlaceIsKept'
<1> SUFFICES ASSUME TypeOK, AnswerInv, PlaceIsKept, [Next]_vars PROVE PlaceIsKept'
  OBVIOUS
<1> USE CibaAssumption
<1>1. ASSUME NEW r \in Requests, StartCount(r) PROVE PlaceIsKept'
  <2>1. Pending' = Pending
    BY <1>1 DEF StartCount, Pending
  <2>2. /\ Cardinality(Pending) < MaxPending
        /\ crowded' = (crowded \/ \E q \in Requests : start[q] = "counted")
        /\ \A q \in Requests \ {r} : start'[q] = start[q]
    BY <1>1 DEF StartCount, TypeOK
  <2> QED BY <2>1, <2>2 DEF PlaceIsKept, TypeOK
<1>2. ASSUME NEW r \in Requests, StartInsert(r) PROVE PlaceIsKept'
  <2>1. row[r] = None /\ start[r] = "counted"
    BY <1>2 DEF StartInsert, AnswerInv, NotYetOpen
  <2>2. r \notin Pending /\ Pending' \subseteq Pending \cup {r}
    BY <1>2, <2>1 DEF StartInsert, Pending, TypeOK
  <2>3. /\ IsFiniteSet(Pending \cup {r})
        /\ Cardinality(Pending \cup {r}) = Cardinality(Pending) + 1
    BY <2>2, FS_AddElement DEF PlaceIsKept
  <2>4. IsFiniteSet(Pending') /\ Cardinality(Pending') <= Cardinality(Pending) + 1
    BY <2>2, <2>3, FS_Subset
  <2>5. Cardinality(Pending) \in Nat /\ Cardinality(Pending') \in Nat
    BY <2>4, FS_CardinalityType DEF PlaceIsKept
  <2>6. crowded' = crowded
    BY <1>2 DEF StartInsert, historyVars
  <2>7. \A q \in Requests : start'[q] = "counted" => q # r /\ start[q] = "counted"
    BY <1>2 DEF StartInsert, TypeOK
  <2>8. ~ crowded => Cardinality(Pending) < MaxPending /\ \A q \in Requests : start'[q] # "counted"
    BY <2>1, <2>7 DEF PlaceIsKept
  <2> QED BY <2>4, <2>5, <2>6, <2>8 DEF PlaceIsKept
<1>3. ASSUME NEW r \in Requests, StartStore(r) PROVE PlaceIsKept'
  <2>1. \A q \in Requests : start'[q] = "counted" => start[q] = "counted"
    BY <1>3 DEF StartStore, TypeOK
  <2> QED BY <1>3, <2>1, PlaceStays DEF StartStore, Pending, historyVars
<1>4. ASSUME NEW r \in Requests, Expire(r) PROVE PlaceIsKept'
  BY <1>4, PlaceStays DEF Expire, Pending, historyVars
<1>5. ASSUME NEW r \in Requests, Drop(r) PROVE PlaceIsKept'
  BY <1>5, PlaceStays DEF Drop, Pending, historyVars
<1>6. ASSUME NEW d \in Deciders, NEW r \in Requests, NEW answer \in Answers,
             DecideRead(d, r, answer)
      PROVE  PlaceIsKept'
  <2>1. UNCHANGED <<start, row, expired, crowded>>
    BY <1>6 DEF DecideRead, historyVars
  <2> QED BY <2>1, PlaceStays DEF Pending
<1>7. ASSUME NEW d \in Deciders, DecideStore(d) PROVE PlaceIsKept'
  <2>1. UNCHANGED <<start, row, expired, crowded>>
    BY <1>7 DEF DecideStore, historyVars
  <2> QED BY <2>1, PlaceStays DEF Pending
<1>8. ASSUME NEW d \in Deciders, DecideCommit(d) PROVE PlaceIsKept'
  <2>1. PICK q \in Decision : q = decide[d] /\ q.r \in Requests /\ q.answer # "pending"
    BY <1>8 DEF DecideCommit, TypeOK, Decision, Idle, Answers
  <2>2. \A s \in Requests : row'[s] = "pending" => row[s] = "pending"
    BY <1>8, <2>1 DEF DecideCommit, TypeOK
  <2> QED BY <1>8, <2>2, PlaceStays DEF DecideCommit, Pending
<1>9. ASSUME NEW p \in Polls, NEW r \in Requests, PollLoad(p, r) PROVE PlaceIsKept'
  <2>1. UNCHANGED <<start, row, expired, crowded>>
    BY <1>9 DEF PollLoad, historyVars
  <2> QED BY <2>1, PlaceStays DEF Pending
<1>10. ASSUME NEW p \in Polls, PollExpired(p) \/ PollPending(p) \/ PollDenied(p) \/ PollTake(p)
       PROVE  PlaceIsKept'
  <2>1. UNCHANGED <<start, row, expired, crowded>>
    BY <1>10 DEF PollExpired, PollPending, PollDenied, PollTake, historyVars
  <2> QED BY <2>1, PlaceStays DEF Pending
<1>11. ASSUME NEW p \in Polls, PollConsume(p) PROVE PlaceIsKept'
  <2>1. \A s \in Requests : row'[s] = "pending" => row[s] = "pending"
    BY <1>11 DEF PollConsume, TypeOK
  <2> QED BY <1>11, <2>1, PlaceStays DEF PollConsume, Pending
<1>12. CASE UNCHANGED vars
  BY <1>12, PlaceStays DEF vars, historyVars, Pending
<1> QED BY <1>1, <1>2, <1>3, <1>4, <1>5, <1>6, <1>7, <1>8, <1>9, <1>10, <1>11, <1>12 DEF Next

(* No user has more pending requests than the cap, unless two starts        *)
(* counted before either had its row: CapUnlessCrowded.                     *)
THEOREM CapIsKept == Spec => []CapUnlessCrowded
<1>1. Init => PlaceIsKept
  <2> SUFFICES ASSUME Init PROVE PlaceIsKept
    OBVIOUS
  <2>1. Pending = {}
    BY CibaAssumption DEF Init, Pending
  <2>2. \A r \in Requests : start[r] # "counted"
    BY DEF Init
  <2> QED BY <2>1, <2>2, FS_EmptySet, CibaAssumption DEF PlaceIsKept
<1>2. (TypeOK /\ AnswerInv) /\ PlaceIsKept /\ [Next]_vars => PlaceIsKept'
  BY NextPlace
<1>3. PlaceIsKept => CapUnlessCrowded
  BY DEF PlaceIsKept, CapUnlessCrowded
<1> QED BY <1>1, <1>2, <1>3, AnswersAgree, PTL DEF Spec

-----------------------------------------------------------------------------
(* Authorization codes: proofs about AuthCodes, for every set of codes and  *)
(* of requests that exchange them.                                          *)
CONSTANTS Codes, Exchanges
VARIABLES code, grantOf, families, revoked, denied, pc, codeOf, victim, late, lost
Auth == INSTANCE AuthCodes WITH Requests <- Exchanges, record <- grantOf

USE DEF Auth!tokenVars, Auth!Goto, Auth!Holding, Auth!Undoing

(* The inductive invariant holds at the start.                              *)
LEMMA InitCodes ==
    ASSUME Auth!NoneAssumption
    PROVE  Auth!Init => Auth!IInv
  BY DEF Auth!NoneAssumption, Auth!Init, Auth!IInv, Auth!TypeOK, Auth!PC, Auth!HoldsAlone,
     Auth!ReplayHasCode, Auth!RecordOfMinted,
      Auth!VictimOfMinted, Auth!StaysUndoable, Auth!LateIsTaken

(* The inductive step, one action at a time. *)
LEMMA NextCodes ==
    ASSUME Auth!NoneAssumption
    PROVE  Auth!IInv /\ [Auth!Next]_(Auth!vars) => Auth!IInv'
<1> SUFFICES ASSUME Auth!IInv, [Auth!Next]_(Auth!vars) PROVE Auth!IInv'
  OBVIOUS
<1> USE DEF Auth!NoneAssumption, Auth!IInv, Auth!TypeOK, Auth!PC, Auth!HoldsAlone,
        Auth!ReplayHasCode, Auth!RecordOfMinted, Auth!VictimOfMinted,
        Auth!StaysUndoable, Auth!LateIsTaken, Auth!Minted, Auth!Handled, Auth!BeingUndone, Auth!Dead
<1>1. ASSUME NEW c \in Codes, Auth!Issue(c) PROVE Auth!IInv'
  BY <1>1 DEF Auth!Issue
<1>2. ASSUME NEW c \in Codes, Auth!ExpireCode(c) PROVE Auth!IInv'
  BY <1>2 DEF Auth!ExpireCode
<1>3. ASSUME NEW c \in Codes, Auth!ExpireGrant(c) PROVE Auth!IInv'
  BY <1>3 DEF Auth!ExpireGrant
<1>4. ASSUME NEW p \in Exchanges, NEW c \in Codes, Auth!Consume(p, c) PROVE Auth!IInv'
  BY <1>4 DEF Auth!Consume
<1>5. ASSUME NEW p \in Exchanges, NEW c \in Codes, Auth!ConsumeMiss(p, c) PROVE Auth!IInv'
  BY <1>5 DEF Auth!ConsumeMiss, Auth!Answered
<1>6. ASSUME NEW p \in Exchanges, Auth!Refuse(p) PROVE Auth!IInv'
  BY <1>6 DEF Auth!Refuse
<1>7. ASSUME NEW p \in Exchanges, Auth!Pass(p) PROVE Auth!IInv'
  BY <1>7 DEF Auth!Pass
<1>8. ASSUME NEW p \in Exchanges, Auth!Mint(p) PROVE Auth!IInv'
  BY <1>8 DEF Auth!Mint
<1>9. ASSUME NEW p \in Exchanges, Auth!StoreGrant(p) PROVE Auth!IInv'
  BY <1>9 DEF Auth!StoreGrant
<1>10. ASSUME NEW p \in Exchanges, Auth!Reply(p) PROVE Auth!IInv'
  BY <1>10 DEF Auth!Reply
<1>11. ASSUME NEW p \in Exchanges, Auth!TakeGrant(p) PROVE Auth!IInv'
  BY <1>11 DEF Auth!TakeGrant
<1>12. ASSUME NEW p \in Exchanges, Auth!RevokeFamily(p) PROVE Auth!IInv'
  BY <1>12 DEF Auth!RevokeFamily
<1>13. ASSUME NEW p \in Exchanges, Auth!DenyAccess(p) PROVE Auth!IInv'
  BY <1>13 DEF Auth!DenyAccess
<1>14. ASSUME NEW p \in Exchanges, Auth!Fail(p) PROVE Auth!IInv'
  BY <1>14 DEF Auth!Fail
<1>15. ASSUME UNCHANGED Auth!vars PROVE Auth!IInv'
  BY <1>15 DEF Auth!vars
<1> QED
  BY <1>1, <1>2, <1>3, <1>4, <1>5, <1>6, <1>7, <1>8, <1>9, <1>10, <1>11, <1>12,
     <1>13, <1>14, <1>15 DEF Auth!Next, Auth!RequestStep

(* The inductive invariant of AuthCodes: who holds a code holds it alone,   *)
(* and what it produced stays undoable.                                     *)
THEOREM CodeInvariance ==
    ASSUME Auth!NoneAssumption
    PROVE  Auth!Spec => []Auth!IInv
  BY InitCodes, NextCodes, PTL DEF Auth!Spec

(* The types of codes, records and requests hold throughout.                *)
THEOREM CodeTypeCorrect ==
    ASSUME Auth!NoneAssumption
    PROVE  Auth!Spec => []Auth!TypeOK
<1>1. Auth!IInv => Auth!TypeOK
  BY DEF Auth!IInv
<1> QED BY <1>1, CodeInvariance, PTL

(* A replay that arrives after the exchange was answered leaves nothing of  *)
(* it usable, save a CodeGrant that expired or that another replay holds or *)
(* lost.                                                                    *)
THEOREM LateReplaysUndo ==
    ASSUME Auth!NoneAssumption
    PROVE  Auth!Spec => []Auth!LateReplayUndoes
<1>1. Auth!IInv => Auth!LateReplayUndoes
  BY DEF Auth!IInv, Auth!TypeOK, Auth!LateReplayUndoes, Auth!LateIsTaken, Auth!StaysUndoable
<1> QED BY <1>1, CodeInvariance, PTL

-----------------------------------------------------------------------------
(* Refinement of OneShotGrant.                                              *)
LEMMA InitRefines == Auth!Init => Auth!Grant!Init
  BY DEF Auth!Init, Auth!Grant!Init, Auth!Status, Auth!Answered

(* A step changes the status of at most one code; these are the ways.       *)
LEMMA LapseOf ==
    ASSUME NEW c \in Codes, Auth!Status(c) = "open", Auth!Status(c)' = "lapsed",
           \A d \in Codes : d # c => Auth!Status(d)' = Auth!Status(d),
           \A d \in Codes : Auth!Answered(d)' = Auth!Answered(d)
    PROVE  Auth!Grant!Next
<1>1. Auth!Grant!Lapse(c)
  BY DEF Auth!Grant!Lapse
<1> QED BY <1>1 DEF Auth!Grant!Next

(* A step that changes the standing and the winners of no code stutters.    *)
LEMMA StutterOf ==
    ASSUME \A d \in Codes : Auth!Status(d)' = Auth!Status(d) /\ Auth!Answered(d)' = Auth!Answered(d)
    PROVE  UNCHANGED Auth!Grant!vars
  BY DEF Auth!Grant!vars

(* A request that held a code and gives up on it.                           *)
LEMMA GiveUp ==
    ASSUME Auth!IInv, NEW p \in Exchanges, pc[p] \in Auth!Holding,
           NEW s \in {"refused", "failed"}, Auth!Goto(p, s), UNCHANGED <<code, codeOf>>
    PROVE  Auth!Grant!Next
<1>1. codeOf[p] \in Codes /\ Auth!Status(codeOf[p]) = "open" /\ Auth!Status(codeOf[p])' = "lapsed"
  BY DEF Auth!IInv, Auth!TypeOK, Auth!HoldsAlone, Auth!Status, Auth!Held, Auth!Answered
<1>2. \A d \in Codes : Auth!Answered(d)' = Auth!Answered(d)
  BY DEF Auth!IInv, Auth!TypeOK, Auth!HoldsAlone, Auth!Answered
<1>3. \A d \in Codes : d # codeOf[p] => Auth!Status(d)' = Auth!Status(d)
  BY <1>2 DEF Auth!IInv, Auth!TypeOK, Auth!Status, Auth!Held
<1> QED BY <1>1, <1>2, <1>3, LapseOf

(* A step that moves a request neither into nor out of holding or having    *)
(* been answered, and leaves the codes alone.                               *)
LEMMA Aside ==
    ASSUME Auth!IInv, NEW p \in Exchanges, NEW s \in Auth!PC, Auth!Goto(p, s), UNCHANGED code,
           pc[p] # "answered", s # "answered", pc[p] \in Auth!Holding <=> s \in Auth!Holding,
           \A q \in Exchanges : q # p \/ s \in Auth!Holding => codeOf'[q] = codeOf[q]
    PROVE  UNCHANGED Auth!Grant!vars
<1>1. \A d \in Codes : Auth!Answered(d)' = Auth!Answered(d)
  BY DEF Auth!IInv, Auth!TypeOK, Auth!Answered
<1>2. \A d \in Codes : Auth!Held(d)' <=> Auth!Held(d)
  BY DEF Auth!IInv, Auth!TypeOK, Auth!Held
<1>3. \A d \in Codes : Auth!Status(d)' = Auth!Status(d)
  BY <1>1, <1>2 DEF Auth!Status
<1> QED BY <1>1, <1>3, StutterOf

(* Every step of AuthCodes is a step of OneShotGrant or changes none of it. *)
LEMMA NextRefines == Auth!IInv /\ [Auth!Next]_(Auth!vars) => [Auth!Grant!Next]_(Auth!Grant!vars)
<1> SUFFICES ASSUME Auth!IInv, [Auth!Next]_(Auth!vars)
                    PROVE Auth!Grant!Next \/ UNCHANGED Auth!Grant!vars
  OBVIOUS
<1> USE DEF Auth!IInv, Auth!TypeOK
<1>1. ASSUME NEW c \in Codes, Auth!Issue(c) PROVE Auth!Grant!Next
  <2>1. Auth!Status(c) = "new" /\ Auth!Status(c)' = "open"
    BY <1>1 DEF Auth!Issue, Auth!Status, Auth!Answered, Auth!HoldsAlone
  <2>2. \A d \in Codes : Auth!Answered(d)' = Auth!Answered(d)
    BY <1>1 DEF Auth!Issue, Auth!Answered
  <2>3. \A d \in Codes : d # c => Auth!Status(d)' = Auth!Status(d)
    BY <1>1, <2>2 DEF Auth!Issue, Auth!Status, Auth!Held
  <2>4. Auth!Grant!Open(c)
    BY <2>1, <2>2, <2>3 DEF Auth!Grant!Open
  <2> QED BY <2>4 DEF Auth!Grant!Next
<1>2. ASSUME NEW c \in Codes, Auth!ExpireCode(c) PROVE Auth!Grant!Next
  <2>1. Auth!Status(c) = "open" /\ Auth!Status(c)' = "lapsed"
    BY <1>2 DEF Auth!ExpireCode, Auth!Status, Auth!Answered, Auth!Held, Auth!HoldsAlone
  <2>2. \A d \in Codes : Auth!Answered(d)' = Auth!Answered(d)
    BY <1>2 DEF Auth!ExpireCode, Auth!Answered
  <2>3. \A d \in Codes : d # c => Auth!Status(d)' = Auth!Status(d)
    BY <1>2, <2>2 DEF Auth!ExpireCode, Auth!Status, Auth!Held
  <2> QED BY <2>1, <2>2, <2>3, LapseOf
<1>3. ASSUME NEW c \in Codes, Auth!ExpireGrant(c) PROVE UNCHANGED Auth!Grant!vars
  <2>1. \A d \in Codes : Auth!Status(d)' = Auth!Status(d) /\ Auth!Answered(d)' = Auth!Answered(d)
    BY <1>3 DEF Auth!ExpireGrant, Auth!Status, Auth!Held, Auth!Answered
  <2> QED BY <2>1, StutterOf
<1>4. ASSUME NEW p \in Exchanges, NEW c \in Codes, Auth!Consume(p, c)
      PROVE UNCHANGED Auth!Grant!vars
  <2>1. \A d \in Codes : Auth!Answered(d)' = Auth!Answered(d)
    BY <1>4 DEF Auth!Consume, Auth!Answered
  <2>2. \A d \in Codes : d # c => Auth!Status(d)' = Auth!Status(d)
    BY <1>4, <2>1 DEF Auth!Consume, Auth!Status, Auth!Held
  <2>3. Auth!Status(c) = "open" /\ Auth!Status(c)' = "open"
    BY <1>4, <2>1 DEF Auth!Consume, Auth!Status, Auth!Held, Auth!Answered, Auth!HoldsAlone
  <2> QED BY <2>1, <2>2, <2>3, StutterOf
<1>5. ASSUME NEW p \in Exchanges, NEW c \in Codes, Auth!ConsumeMiss(p, c)
      PROVE UNCHANGED Auth!Grant!vars
  <2>1. /\ pc[p] = "idle" /\ Auth!Goto(p, "replay") /\ UNCHANGED code
        /\ \A q \in Exchanges : q # p => codeOf'[q] = codeOf[q]
    BY <1>5 DEF Auth!ConsumeMiss
  <2>2. "replay" \in Auth!PC /\ "replay" \notin Auth!Holding /\ pc[p] \notin Auth!Holding
    BY <2>1 DEF Auth!PC
  <2> QED BY <2>1, <2>2, Aside
<1>6. ASSUME NEW p \in Exchanges, Auth!Refuse(p) PROVE Auth!Grant!Next
  BY <1>6, GiveUp DEF Auth!Refuse
<1>7. ASSUME NEW p \in Exchanges, Auth!Reply(p) PROVE Auth!Grant!Next
  <2>1. PICK c \in Codes : c = codeOf[p] /\ Auth!Status(c) = "open"
    BY <1>7 DEF Auth!Reply, Auth!HoldsAlone, Auth!Status, Auth!Held, Auth!Answered
  <2>2. Auth!Answered(c)' = {p}
    BY <1>7, <2>1 DEF Auth!Reply, Auth!HoldsAlone, Auth!Answered
  <2>3. \A d \in Codes : d # c => Auth!Answered(d)' = Auth!Answered(d)
    BY <1>7, <2>1 DEF Auth!Reply, Auth!Answered
  <2>4. \A d \in Codes : d # c => Auth!Status(d)' = Auth!Status(d)
    BY <1>7, <2>1, <2>3 DEF Auth!Reply, Auth!Status, Auth!Held
  <2>5. Auth!Status(c)' = "answered"
    BY <2>2 DEF Auth!Status
  <2>6. Auth!Grant!Answer(c, p)
    BY <2>1, <2>2, <2>3, <2>4, <2>5 DEF Auth!Grant!Answer
  <2> QED BY <2>6 DEF Auth!Grant!Next
<1>8. ASSUME NEW p \in Exchanges, Auth!Pass(p) \/ Auth!Mint(p) \/ Auth!StoreGrant(p)
      PROVE UNCHANGED Auth!Grant!vars
  BY <1>8, Aside DEF Auth!Pass, Auth!Mint, Auth!StoreGrant, Auth!PC
<1>9. ASSUME NEW p \in Exchanges, Auth!TakeGrant(p) \/ Auth!RevokeFamily(p) \/ Auth!DenyAccess(p)
      PROVE UNCHANGED Auth!Grant!vars
  BY <1>9, Aside DEF Auth!TakeGrant, Auth!RevokeFamily, Auth!DenyAccess, Auth!PC
<1>10. ASSUME NEW p \in Exchanges, Auth!Fail(p) PROVE Auth!Grant!Next \/ UNCHANGED Auth!Grant!vars
  <2>1. CASE pc[p] \in Auth!Holding
    BY <2>1, <1>10, GiveUp DEF Auth!Fail
  <2>2. CASE pc[p] \notin Auth!Holding
    BY <2>2, <1>10, Aside DEF Auth!Fail, Auth!PC
  <2> QED BY <2>1, <2>2
<1>11. ASSUME UNCHANGED Auth!vars PROVE UNCHANGED Auth!Grant!vars
  <2>1. \A d \in Codes : Auth!Status(d)' = Auth!Status(d) /\ Auth!Answered(d)' = Auth!Answered(d)
    BY <1>11 DEF Auth!vars, Auth!Status, Auth!Held, Auth!Answered
  <2> QED BY <2>1, StutterOf
<1> QED
  BY <1>1, <1>2, <1>3, <1>4, <1>5, <1>6, <1>7, <1>8, <1>9, <1>10, <1>11
  DEF Auth!Next, Auth!RequestStep

(* An authorization code is a one-shot grant: however many requests present *)
(* it, at most one is answered with tokens, and none once it has lapsed.    *)
THEOREM CodesAreOneShot ==
    ASSUME Auth!NoneAssumption
    PROVE  Auth!Spec => Auth!CodeIsOneShot
  BY InitRefines, NextRefines, CodeInvariance, PTL DEF Auth!Spec, Auth!CodeIsOneShot,
     Auth!Grant!Spec

-----------------------------------------------------------------------------
(* The device authorization grant: proofs about DeviceCodes, for every set  *)
(* of devices, of user codes, of polls and of decisions.  A name that Ciba  *)
(* declares too is any constant, or any variable, here as there.            *)
CONSTANTS Devices, Polling, UserCodes, MaxAnswers
VARIABLES rec, mortal, shown, pointer, decider, answers, hasty, crossed
Device == INSTANCE DeviceCodes

USE DEF Device!issueVars, Device!historyVars, Device!Store, Device!Delete, Device!DropPointer,
        Device!Return, Device!Loaded, Device!IssueAs

(* What is in hand is a device whose code was issued, and a decision about  *)
(* to be stored is one.                                                     *)
IssuedInHand ==
    /\ \A d \in Devices : rec[d] # None => shown[d] # None
    /\ \A p \in Polls : /\ poll[p].pc = "idle" => poll[p].dev = None
                        /\ poll[p].pc # "idle" => /\ poll[p].dev \in Devices
                                                  /\ shown[poll[p].dev] # None
    /\ \A a \in Deciders : /\ decider[a].pc = "idle" => decider[a].dev = None
                           /\ decider[a].pc # "idle" => /\ decider[a].dev \in Devices
                                                        /\ shown[decider[a].dev] # None
                           /\ decider[a].pc \in {"store", "row"} => /\ decider[a].got.by = a
                                             /\ decider[a].got.status # "pending"

(* A device that is not hasty has one poll under way.                       *)
PollsAlone ==
    \A d \in Devices \ hasty, p, q \in Polls : poll[p].dev = d /\ poll[q].dev = d => p = q

(* What says that a decided is on a's device, and not before a has stored   *)
(* it.                                                                      *)
SaidBy(a) ==
    /\ \A d \in Devices : rec[d] # None /\ rec[d].by = a => d = decider[a].dev
    /\ \A p \in Polls : poll[p].pc # "idle" /\ poll[p].got.by = a => poll[p].dev = decider[a].dev
    /\ decider[a].pc \in {"idle", "page", "store"} =>
         /\ \A d \in Devices : rec[d] = None \/ rec[d].by # a
         /\ \A p \in Polls : poll[p].pc = "idle" \/ poll[p].got.by # a
         /\ answers[a] = 0

(* An approval is in the record, or in the hands of a poll, or answered.    *)
TakenOnce(a) ==
    decider[a].dev \notin hasty =>
        /\ answers[a] <= 1
        /\ \A p \in Polls : poll[p].pc # "idle" /\ poll[p].got.by = a => answers[a] = 0
        /\ \A d \in Devices : rec[d] # None /\ rec[d].by = a =>
              /\ answers[a] = 0
              /\ \A p \in Polls : poll[p].pc \in {"taken", "consume", "answer"} => poll[p].got.by # a

(* A decision that was stored while no poll was under way is final.         *)
Decided(a) ==
    decider[a].pc \in {"row", "done"} /\ decider[a].dev \notin crossed =>
        /\ ~ Device!Pending(decider[a].dev)
        /\ \A p \in Polls : poll[p].dev = decider[a].dev => poll[p].got.status # "pending"

DeviceInv ==
    /\ Device!TypeOK /\ IssuedInHand /\ PollsAlone
    /\ \A a \in Deciders : SaidBy(a) /\ TakenOnce(a) /\ Decided(a)

(* Devices start without a code, polls and decisions without a device.      *)
LEMMA InitDevice == ASSUME Device!DeviceAssumption PROVE Device!Init => DeviceInv
  BY DEF Device!DeviceAssumption, Device!Init, DeviceInv, Device!TypeOK, Device!Records,
         Device!Statuses, Device!Fresh, Device!IdlePoll, IssuedInHand, PollsAlone, SaidBy,
         TakenOnce, Decided

(* Types, and what is in hand.                                              *)
LEMMA NextDeviceHand == ASSUME Device!DeviceAssumption, Device!TypeOK, IssuedInHand,
                               [Device!Next]_(Device!vars)
                        PROVE  Device!TypeOK' /\ IssuedInHand'
<1> USE DEF Device!DeviceAssumption, Device!TypeOK, IssuedInHand, Device!Records,
            Device!Statuses, Device!Fresh, Device!IdlePoll
<1>1. ASSUME NEW d \in Devices, NEW u \in UserCodes,
             Device!Issue(d, u) \/ Device!IssueUnclaimed(d, u) \/ Device!IssueFails(d, u)
      PROVE  Device!TypeOK' /\ IssuedInHand'
  <2>1. shown' = [shown EXCEPT ![d] = u] /\ u # None /\ UNCHANGED <<poll, decider>>
    BY <1>1 DEF Device!Issue, Device!IssueUnclaimed, Device!IssueFails
  <2>2. rec' = rec \/ rec' = [rec EXCEPT ![d] = Device!Fresh]
    BY <1>1 DEF Device!Issue, Device!IssueUnclaimed, Device!IssueFails
  <2>3. IssuedInHand'
    BY <2>1, <2>2
  <2>4. /\ mortal' \in {mortal, mortal \cup {d}}
        /\ row' \in {row, [row EXCEPT ![d] = "pending"]}
        /\ pointer' \in {pointer, [pointer EXCEPT ![u] = d]}
        /\ UNCHANGED <<expired, answers, hasty, crossed>>
    BY <1>1 DEF Device!Issue, Device!IssueUnclaimed, Device!IssueFails
  <2>5. Device!TypeOK'
    <3>1. rec' \in [Devices -> Device!Records \cup {None}]
      <4>1. Device!Fresh \in Device!Records
        OBVIOUS
      <4> HIDE DEF Device!Fresh, Device!Records
      <4> QED BY <2>2, <4>1
    <3>2. row' \in [Devices -> Device!Statuses \cup {"none", "consumed"}]
      BY <2>4
    <3>3. pointer' \in [UserCodes -> Devices \cup {None}]
      BY <2>4
    <3>4. shown' \in [Devices -> UserCodes \cup {None}] /\ mortal' \subseteq Devices
      BY <2>1, <2>4
    <3> QED BY <2>1, <2>4, <3>1, <3>2, <3>3, <3>4
  <2> QED BY <2>3, <2>5
<1>2. ASSUME NEW p \in Polls, NEW d \in Polling, Device!PollLoad(p, d)
      PROVE  Device!TypeOK' /\ IssuedInHand'
  BY <1>2 DEF Device!PollLoad
<1>3. ASSUME NEW p \in Polls, Device!PollExpired(p) PROVE Device!TypeOK' /\ IssuedInHand'
  BY <1>3 DEF Device!PollExpired
<1>4. ASSUME NEW p \in Polls, Device!PollNoted(p) PROVE Device!TypeOK' /\ IssuedInHand'
  <2> DEFINE n == [poll[p].got EXCEPT !.polled = TRUE]
  <2>1. n \in Device!Records /\ poll[p].dev \in Devices /\ shown[poll[p].dev] # None
    <3>1. poll[p].pc = "loaded"
      BY <1>4 DEF Device!PollNoted
    <3>2. poll[p].got \in Device!Records
      OBVIOUS
    <3>3. n \in Device!Records
      BY <3>2
    <3> HIDE DEF n
    <3> QED BY <3>1, <3>3
  <2>2. /\ rec' = [rec EXCEPT ![poll[p].dev] = n] /\ mortal' \subseteq mortal
        /\ poll' = [poll EXCEPT ![p] = Device!IdlePoll]
        /\ UNCHANGED <<expired, shown, pointer, row, decider, answers, hasty, crossed>>
    BY <1>4 DEF Device!PollNoted
  <2> HIDE DEF n
  <2> QED BY <2>1, <2>2
<1>5. ASSUME NEW p \in Polls, Device!PollDenied(p) PROVE Device!TypeOK' /\ IssuedInHand'
  BY <1>5 DEF Device!PollDenied
<1>6. ASSUME NEW p \in Polls, Device!PollTake(p) PROVE Device!TypeOK' /\ IssuedInHand'
  <2> DEFINE n == [poll[p] EXCEPT !.pc = "taken"]
  <2>1. /\ poll' = [poll EXCEPT ![p] = Device!IdlePoll] \/ poll' = [poll EXCEPT ![p] = n]
        /\ rec' = [rec EXCEPT ![poll[p].dev] = None] /\ poll[p].pc = "loaded"
        /\ UNCHANGED <<mortal, expired, shown, pointer, row, decider, answers, hasty, crossed>>
    BY <1>6 DEF Device!PollTake
  <2> DEFINE T == [pc : {"idle", "expired", "loaded", "taken", "consume", "answer"},
                   dev : Devices \cup {None}, got : Device!Records]
  <2>2. /\ n \in T /\ n.dev = poll[p].dev /\ n.pc = "taken" /\ poll[p].dev \in Devices
        /\ Device!IdlePoll \in T /\ poll \in [Polls -> T] /\ shown[poll[p].dev] # None
    <3>1. /\ poll \in [Polls -> T] /\ Device!IdlePoll \in T
          /\ poll[p].dev \in Devices /\ shown[poll[p].dev] # None
      BY <2>1
    <3> HIDE DEF Device!TypeOK, IssuedInHand, Device!Records, Device!IdlePoll
    <3>2. poll[p] \in T
      BY <3>1
    <3>3. n \in T /\ n.dev = poll[p].dev /\ n.pc = "taken"
      BY <3>2
    <3> QED BY <3>1, <3>3
  <2> HIDE DEF n
  <2>3. poll' \in [Polls -> T]
    <3> HIDE DEF T, Device!IdlePoll, Device!TypeOK, IssuedInHand
    <3> QED BY <2>1, <2>2
  <2>4. Device!TypeOK'
    BY <2>1, <2>3
  <2>5. IssuedInHand'
    <3>1. \A q \in Polls : /\ poll'[q] \in {poll[q], n, Device!IdlePoll}
                           /\ q # p => poll'[q] = poll[q]
      BY <2>1
    <3>2. \A d \in Devices : rec'[d] # None => rec'[d] = rec[d]
      BY <2>1
    <3>3. Device!IdlePoll.pc = "idle" /\ Device!IdlePoll.dev = None
      OBVIOUS
    <3> HIDE DEF Device!IdlePoll
    <3> QED BY <2>1, <2>2, <3>1, <3>2, <3>3
  <2> QED BY <2>4, <2>5
<1>7. ASSUME NEW p \in Polls, Device!PollDropCode(p) \/ Device!PollConsume(p)
      PROVE  Device!TypeOK' /\ IssuedInHand'
  <2>1. CASE Device!PollDropCode(p)
    BY <2>1, SMTT(30) DEF Device!PollDropCode
  <2>2. CASE Device!PollConsume(p)
    BY <2>2 DEF Device!PollConsume
  <2> QED BY <1>7, <2>1, <2>2
<1>8. ASSUME NEW p \in Polls, Device!PollAnswer(p) PROVE Device!TypeOK' /\ IssuedInHand'
  <2>1. /\ poll' = [poll EXCEPT ![p] = Device!IdlePoll]
        /\ UNCHANGED <<rec, mortal, expired, shown, pointer, row, decider, hasty, crossed>>
    BY <1>8 DEF Device!PollAnswer
  <2>2. answers' \in [Deciders -> 0..MaxAnswers]
    <3> DEFINE a == poll[p].got.by
    <3>1. answers' = [answers EXCEPT ![a] = answers[a] + 1] /\ answers[a] < MaxAnswers
      BY <1>8 DEF Device!PollAnswer
    <3> HIDE DEF a
    <3>2. ASSUME NEW b \in Deciders PROVE answers'[b] \in 0..MaxAnswers
      BY <3>1
    <3> QED BY <3>1, <3>2
  <2> QED BY <2>1, <2>2
<1>9. ASSUME NEW p \in Polls, Device!PollFail(p) PROVE Device!TypeOK' /\ IssuedInHand'
  BY <1>9 DEF Device!PollFail
<1>10. ASSUME NEW a \in Deciders, NEW u \in UserCodes, Device!FindByUserCode(a, u)
       PROVE  Device!TypeOK' /\ IssuedInHand'
  BY <1>10 DEF Device!FindByUserCode, Device!Pending
<1>11. ASSUME NEW a \in Deciders, NEW v \in {"approved", "denied"}, Device!DecideLoad(a, v)
       PROVE  Device!TypeOK' /\ IssuedInHand'
  <2> DEFINE d == decider[a].dev
             got == [status |-> v, by |-> a, polled |-> rec[d].polled]
  <2>1. d \in Devices /\ shown[d] # None
    BY <1>11 DEF Device!DecideLoad
  <2>2. UNCHANGED <<rec, mortal, expired, shown, pointer, row, poll, answers, hasty, crossed>>
    BY <1>11 DEF Device!DecideLoad
  <2>3. CASE decider' = [decider EXCEPT ![a].pc = "refused"]
    BY <2>1, <2>2, <2>3
  <2>4. CASE Device!Pending(d) /\ decider' = [decider EXCEPT ![a].pc = "store", ![a].got = got]
    <3>1. got \in Device!Records /\ got.by = a /\ got.status # "pending"
      BY <2>1, <2>4 DEF Device!Pending
    <3> HIDE DEF got
    <3> DEFINE n == [decider[a] EXCEPT !.pc = "store", !.got = got]
               T == [pc : {"idle", "page", "store", "row", "done", "refused"},
                     dev : Devices \cup {None}, got : Device!Records]
    <3>2. decider' \in [Deciders -> T]
      <4>1. n \in T /\ decider \in [Deciders -> T]
        <5>1. decider \in [Deciders -> T] /\ got \in Device!Records
          BY <3>1
        <5> HIDE DEF Device!Records, Device!TypeOK, IssuedInHand
        <5>2. decider[a] \in T
          BY <5>1
        <5>3. n \in T
          BY <5>1, <5>2
        <5> QED BY <5>1, <5>3
      <4>2. decider' = [decider EXCEPT ![a] = n]
        <5> HIDE DEF Device!TypeOK, IssuedInHand, T, Device!Records
        <5> QED BY <2>4
      <4> HIDE DEF n, T, Device!TypeOK, IssuedInHand
      <4> QED BY <4>1, <4>2
    <3>3. Device!TypeOK'
      BY <2>2, <3>2
    <3>4. IssuedInHand'
      BY <2>1, <2>2, <2>4, <3>1
    <3> QED BY <3>3, <3>4
  <2> QED BY <1>11, <2>3, <2>4 DEF Device!DecideLoad
<1>12. ASSUME NEW a \in Deciders, Device!DecideStore(a) PROVE Device!TypeOK' /\ IssuedInHand'
  BY <1>12 DEF Device!DecideStore
<1>13. ASSUME NEW a \in Deciders, Device!DecideRow(a) PROVE Device!TypeOK' /\ IssuedInHand'
  BY <1>13, SMTT(30) DEF Device!DecideRow
<1>14. ASSUME NEW a \in Deciders, Device!DecideFail(a) PROVE Device!TypeOK' /\ IssuedInHand'
  BY <1>14 DEF Device!DecideFail
<1>15. ASSUME NEW d \in Devices, Device!PassDeadline(d) \/ Device!TtlRecord(d)
       PROVE  Device!TypeOK' /\ IssuedInHand'
  <2>1. CASE Device!PassDeadline(d)
    BY <2>1 DEF Device!PassDeadline
  <2>2. CASE Device!TtlRecord(d)
    BY <2>2 DEF Device!TtlRecord
  <2> QED BY <1>15, <2>1, <2>2
<1>16. ASSUME NEW u \in UserCodes, Device!TtlPointer(u) PROVE Device!TypeOK' /\ IssuedInHand'
  BY <1>16 DEF Device!TtlPointer
<1>17. ASSUME UNCHANGED Device!vars PROVE Device!TypeOK' /\ IssuedInHand'
  BY <1>17 DEF Device!vars
<1> HIDE DEF Device!DeviceAssumption, Device!TypeOK, IssuedInHand
<1> QED
  BY <1>1, <1>2, <1>3, <1>4, <1>5, <1>6, <1>7, <1>8, <1>9, <1>10, <1>11, <1>12, <1>13, <1>14,
     <1>15, <1>16, <1>17
  DEF Device!Next

(* A poll of a device that is not hasty is the only one.                    *)
LEMMA NextDeviceAlone == ASSUME Device!DeviceAssumption, Device!TypeOK, IssuedInHand, PollsAlone,
                                [Device!Next]_(Device!vars)
                         PROVE  PollsAlone'
<1>1. ASSUME NEW p \in Polls, NEW d \in Polling, Device!PollLoad(p, d) PROVE PollsAlone'
  BY <1>1 DEF Device!PollLoad, Device!TypeOK, PollsAlone, IssuedInHand, Device!DeviceAssumption
<1>2. ASSUME NEW p \in Polls, poll' = [poll EXCEPT ![p] = Device!IdlePoll], UNCHANGED hasty
      PROVE  PollsAlone'
  BY <1>2 DEF Device!TypeOK, PollsAlone, Device!IdlePoll, Device!DeviceAssumption
<1>3. ASSUME NEW p \in Polls, NEW s, poll' = [poll EXCEPT ![p].pc = s], UNCHANGED hasty
      PROVE  PollsAlone'
  BY <1>3 DEF Device!TypeOK, PollsAlone
<1>4. ASSUME UNCHANGED <<poll, hasty>> PROVE PollsAlone'
  BY <1>4 DEF PollsAlone
<1> QED
  BY <1>1, <1>2, <1>3, <1>4
  DEF Device!Next, Device!vars, Device!Issue, Device!IssueUnclaimed, Device!IssueFails,
      Device!PollExpired, Device!PollNoted, Device!PollDenied, Device!PollTake,
      Device!PollDropCode, Device!PollConsume, Device!PollAnswer, Device!PollFail,
      Device!FindByUserCode, Device!DecideLoad, Device!DecideStore, Device!DecideRow, Device!DecideFail,
      Device!PassDeadline, Device!TtlRecord, Device!TtlPointer

(* Who decided, said of the record and of polls.                            *)
LEMMA NextDeviceSaid == ASSUME Device!DeviceAssumption, DeviceInv, [Device!Next]_(Device!vars),
                               NEW a \in Deciders
                        PROVE  SaidBy(a)' /\ TakenOnce(a)'
<1> USE DEF Device!DeviceAssumption, DeviceInv, SaidBy, TakenOnce
<1>i. /\ Device!IdlePoll.pc = "idle" /\ Device!Fresh.by = None /\ a # None
      /\ rec \in [Devices -> Device!Records \cup {None}] /\ poll = [p \in Polls |-> poll[p]]
      /\ decider = [b \in Deciders |-> decider[b]] /\ answers \in [Deciders -> 0..MaxAnswers]
  BY DEF Device!TypeOK, Device!IdlePoll, Device!Fresh
<1>1. ASSUME NEW d \in Devices, NEW u \in UserCodes,
             Device!Issue(d, u) \/ Device!IssueUnclaimed(d, u) \/ Device!IssueFails(d, u)
      PROVE  SaidBy(a)' /\ TakenOnce(a)'
  <2>1. UNCHANGED <<poll, decider, answers, hasty>>
    BY <1>1 DEF Device!Issue, Device!IssueUnclaimed, Device!IssueFails
  <2>2. rec' = rec \/ rec' = [rec EXCEPT ![d] = Device!Fresh]
    BY <1>1 DEF Device!Issue, Device!IssueUnclaimed, Device!IssueFails
  <2>3. \A e \in Devices : rec'[e] = rec[e] \/ rec'[e].by = None
    BY <1>i, <2>2
  <2> QED BY <1>i, <2>1, <2>3
<1>2. ASSUME NEW p \in Polls, NEW d \in Polling, Device!PollLoad(p, d)
      PROVE  SaidBy(a)' /\ TakenOnce(a)'
  <2>1. /\ poll'[p].dev = d /\ poll'[p].got = rec[d] /\ poll'[p].pc \in {"expired", "loaded"}
        /\ \A q \in Polls \ {p} : poll'[q] = poll[q]
        /\ rec[d] # None /\ d \in Devices /\ hasty \subseteq hasty'
        /\ UNCHANGED <<rec, decider, answers>>
    BY <1>2, <1>i DEF Device!PollLoad
  <2>2. SaidBy(a)'
    BY <2>1
  <2> QED BY <2>1, <2>2
<1>3. ASSUME \A q \in Polls : poll'[q] = poll[q] \/ poll'[q].pc = "idle",
             \A d \in Devices : rec'[d] = rec[d] \/ rec'[d] = None,
             UNCHANGED <<decider, answers, hasty>>
      PROVE  SaidBy(a)' /\ TakenOnce(a)'
  BY <1>3
<1>4. ASSUME NEW p \in Polls, Device!PollExpired(p) \/ Device!PollDenied(p) \/ Device!PollFail(p)
      PROVE  SaidBy(a)' /\ TakenOnce(a)'
  <2>1. /\ poll' = [poll EXCEPT ![p] = Device!IdlePoll]
        /\ rec' = rec \/ rec' = [rec EXCEPT ![poll[p].dev] = None]
        /\ UNCHANGED <<decider, answers, hasty>>
    BY <1>4 DEF Device!PollExpired, Device!PollDenied, Device!PollFail
  <2> QED BY <1>i, <1>3, <2>1
<1>5. ASSUME NEW p \in Polls, Device!PollTake(p) PROVE SaidBy(a)' /\ TakenOnce(a)'
  <2> DEFINE d == poll[p].dev
  <2>1. /\ poll[p].pc = "loaded" /\ rec' = [rec EXCEPT ![d] = None]
        /\ UNCHANGED <<decider, answers, hasty>>
        /\ \/ poll' = [poll EXCEPT ![p] = Device!IdlePoll]
           \/ poll' = [poll EXCEPT ![p].pc = "taken"]
    BY <1>5 DEF Device!PollTake
  <2>2. /\ rec'[d] = None /\ \A e \in Devices \ {d} : rec'[e] = rec[e]
        /\ \A q \in Polls \ {p} : poll'[q] = poll[q]
    BY <1>i, <2>1 DEF IssuedInHand
  <2>3. CASE poll' = [poll EXCEPT ![p] = Device!IdlePoll]
    BY <1>i, <1>3, <2>1, <2>2, <2>3
  <2>4. CASE poll' = [poll EXCEPT ![p].pc = "taken"]
    <3>1. poll'[p].got = poll[p].got /\ poll'[p].dev = poll[p].dev /\ poll'[p].pc = "taken"
      BY <2>4 DEF Device!TypeOK
    <3>2. SaidBy(a)'
      BY <2>1, <2>2, <3>1
    <3>3. TakenOnce(a)'
      BY <2>1, <2>2, <3>1
    <3> QED BY <3>2, <3>3
  <2> QED BY <2>1, <2>3, <2>4
<1>6. ASSUME NEW p \in Polls, Device!PollDropCode(p) \/ Device!PollConsume(p)
      PROVE  SaidBy(a)' /\ TakenOnce(a)'
  <2>1. PICK s \in {"consume", "answer"} :
           /\ poll[p].pc \in {"taken", "consume"} /\ poll' = [poll EXCEPT ![p].pc = s]
           /\ UNCHANGED <<rec, decider, answers, hasty>>
    BY <1>6 DEF Device!PollDropCode, Device!PollConsume
  <2>2. /\ poll'[p].got = poll[p].got /\ poll'[p].dev = poll[p].dev /\ poll'[p].pc = s
        /\ \A q \in Polls \ {p} : poll'[q] = poll[q]
    BY <2>1 DEF Device!TypeOK
  <2> QED BY <2>1, <2>2
<1>7. ASSUME NEW p \in Polls, Device!PollNoted(p) PROVE SaidBy(a)' /\ TakenOnce(a)'
  <2> DEFINE d == poll[p].dev
             n == [poll[p].got EXCEPT !.polled = TRUE]
  <2>1. /\ poll[p].pc = "loaded" /\ d \in Devices /\ rec' = [rec EXCEPT ![d] = n]
        /\ poll' = [poll EXCEPT ![p] = Device!IdlePoll] /\ UNCHANGED <<decider, answers, hasty>>
    BY <1>7 DEF Device!PollNoted, IssuedInHand
  <2>2. n.by = poll[p].got.by
    BY DEF Device!TypeOK, Device!Records
  <2> HIDE DEF n
  <2>3. /\ rec'[d] = n /\ \A e \in Devices \ {d} : rec'[e] = rec[e]
        /\ poll'[p].pc = "idle" /\ \A q \in Polls \ {p} : poll'[q] = poll[q]
    BY <1>i, <2>1
  <2>4. SaidBy(a)'
    BY <2>1, <2>2, <2>3
  <2>5. TakenOnce(a)'
    <3>1. CASE poll[p].got.by = a /\ d \notin hasty
      <4>1. \A q \in Polls \ {p} : poll[q].dev # d
        BY <2>1, <3>1 DEF PollsAlone
      <4>2. d = decider[a].dev /\ answers[a] = 0
        BY <2>1, <3>1
      <4>3. \A q \in Polls \ {p} : poll[q].pc # "idle" => poll[q].got.by # a
        BY <4>1, <4>2
      <4> QED BY <2>1, <2>2, <2>3, <3>1, <4>2, <4>3
    <3>2. CASE poll[p].got.by = a /\ d \in hasty
      <4>1. d = decider[a].dev
        BY <2>1, <3>2
      <4> QED BY <2>1, <3>2, <4>1
    <3>3. CASE poll[p].got.by # a
      BY <2>1, <2>2, <2>3, <3>3
    <3> QED BY <3>1, <3>2, <3>3
  <2> QED BY <2>4, <2>5
<1>8. ASSUME NEW p \in Polls, Device!PollAnswer(p) PROVE SaidBy(a)' /\ TakenOnce(a)'
  <2> DEFINE b == poll[p].got.by
  <2>1. /\ poll[p].pc = "answer" /\ answers' = [answers EXCEPT ![b] = answers[b] + 1]
        /\ poll' = [poll EXCEPT ![p] = Device!IdlePoll] /\ UNCHANGED <<rec, decider, hasty>>
    BY <1>8 DEF Device!PollAnswer
  <2>2. poll'[p].pc = "idle" /\ \A q \in Polls \ {p} : poll'[q] = poll[q]
    BY <1>i, <2>1
  <2>3. CASE a # b
    <3>1. answers'[a] = answers[a]
      BY <1>i, <2>1, <2>3
    <3> QED BY <2>1, <2>2, <3>1
  <2>4. CASE a = b
    <3>1. SaidBy(a)'
      BY <2>1, <2>2, <2>4
    <3>2. TakenOnce(a)'
      <4> SUFFICES ASSUME decider[a].dev \notin hasty
                   PROVE  /\ answers'[a] <= 1
                          /\ \A q \in Polls : poll'[q].pc # "idle" => poll'[q].got.by # a
                          /\ \A d \in Devices : rec[d] # None => rec[d].by # a
        BY <2>1
      <4>1. answers[a] = 0 /\ poll[p].dev = decider[a].dev
        BY <2>1, <2>4
      <4>2. answers'[a] = 1
        BY <1>i, <2>1, <2>4, <4>1
      <4>3. \A d \in Devices : rec[d] # None => rec[d].by # a
        BY <2>1, <2>4
      <4>4. poll[p].dev \in Devices
        BY <2>1 DEF IssuedInHand
      <4>5. \A q \in Polls \ {p} : poll[q].dev # decider[a].dev
        BY <4>1, <4>4 DEF PollsAlone
      <4> QED BY <2>2, <4>2, <4>3, <4>5
    <3> QED BY <3>1, <3>2
  <2> QED BY <2>3, <2>4
<1>9. ASSUME NEW b \in Deciders, NEW u \in UserCodes, Device!FindByUserCode(b, u)
      PROVE  SaidBy(a)' /\ TakenOnce(a)'
  <2>1. /\ decider[b].pc = "idle" /\ UNCHANGED <<rec, poll, answers, hasty>>
        /\ decider' = [decider EXCEPT ![b].pc = "page", ![b].dev = pointer[u]]
    BY <1>9 DEF Device!FindByUserCode
  <2>2. /\ a # b => decider'[a] = decider[a]
        /\ a = b => decider'[a].pc = "page"
    BY <1>i, <2>1 DEF Device!TypeOK
  <2>3. CASE a # b
    <3>1. decider'[a] = decider[a] /\ UNCHANGED <<rec, poll, answers, hasty>>
      BY <2>1, <2>2, <2>3
    <3> QED BY <3>1
  <2>4. CASE a = b
    BY <2>1, <2>2, <2>4
  <2> QED BY <2>3, <2>4
<1>10. ASSUME NEW b \in Deciders, NEW v \in {"approved", "denied"}, Device!DecideLoad(b, v)
       PROVE  SaidBy(a)' /\ TakenOnce(a)'
  <2>1. decider[b].pc = "page" /\ UNCHANGED <<rec, poll, answers, hasty>>
    BY <1>10 DEF Device!DecideLoad
  <2>2. decider'[a] = decider[a] \/ (a = b /\ decider'[a].dev = decider[a].dev)
    BY <1>10 DEF Device!DecideLoad, Device!TypeOK
  <2> QED BY <2>1, <2>2
<1>11. ASSUME NEW b \in Deciders, Device!DecideStore(b) PROVE SaidBy(a)' /\ TakenOnce(a)'
  <2> DEFINE d == decider[b].dev
  <2>1. /\ decider[b].pc = "store" /\ rec' = [rec EXCEPT ![d] = decider[b].got]
        /\ decider' = [decider EXCEPT ![b].pc = "row"] /\ UNCHANGED <<poll, answers, hasty>>
        /\ d \in Devices /\ decider[b].got.by = b
    BY <1>11 DEF Device!DecideStore, IssuedInHand
  <2>2. /\ rec'[d] = decider[b].got /\ \A e \in Devices \ {d} : rec'[e] = rec[e]
        /\ a # b => decider'[a] = decider[a]
        /\ a = b => decider'[a].pc = "row" /\ decider'[a].dev = d
    BY <1>i, <2>1 DEF Device!TypeOK
  <2>3. CASE a # b
    <3>1. \A e \in Devices : rec'[e] # None /\ rec'[e].by = a => rec[e] # None /\ rec[e].by = a
      BY <2>1, <2>2, <2>3
    <3>2. decider'[a] = decider[a] /\ UNCHANGED <<poll, answers, hasty>>
      BY <2>1, <2>2, <2>3
    <3>3. SaidBy(a)'
      BY <3>1, <3>2
    <3>4. TakenOnce(a)'
      BY <3>1, <3>2
    <3> QED BY <3>3, <3>4
  <2>4. CASE a = b
    BY <2>1, <2>2, <2>4
  <2> QED BY <2>3, <2>4
<1>12. ASSUME NEW b \in Deciders, Device!DecideRow(b) \/ Device!DecideFail(b)
       PROVE  SaidBy(a)' /\ TakenOnce(a)'
  <2>1. UNCHANGED <<rec, poll, answers, hasty>>
    BY <1>12 DEF Device!DecideRow, Device!DecideFail
  <2>2. /\ decider'[a].dev = decider[a].dev
        /\ decider'[a].pc = decider[a].pc \/ decider'[a].pc \in {"done", "refused"}
    <3>1. ASSUME NEW s, decider' = [decider EXCEPT ![b].pc = s]
          PROVE  decider'[a].dev = decider[a].dev /\ decider'[a].pc \in {decider[a].pc, s}
      BY <3>1 DEF Device!TypeOK
    <3> QED BY <1>12, <3>1 DEF Device!DecideRow, Device!DecideFail
  <2> QED BY <2>1, <2>2
<1>13. ASSUME NEW d \in Devices, Device!TtlRecord(d) PROVE SaidBy(a)' /\ TakenOnce(a)'
  BY <1>i, <1>3, <1>13 DEF Device!TtlRecord
<1>14. ASSUME UNCHANGED <<rec, poll, decider, answers, hasty>> PROVE SaidBy(a)' /\ TakenOnce(a)'
  BY <1>14
<1>15. ASSUME NEW d \in Devices, Device!PassDeadline(d) PROVE SaidBy(a)' /\ TakenOnce(a)'
  BY <1>14, <1>15 DEF Device!PassDeadline
<1>16. ASSUME NEW u \in UserCodes, Device!TtlPointer(u) PROVE SaidBy(a)' /\ TakenOnce(a)'
  BY <1>14, <1>16 DEF Device!TtlPointer
<1>17. ASSUME UNCHANGED Device!vars PROVE SaidBy(a)' /\ TakenOnce(a)'
  BY <1>14, <1>17 DEF Device!vars
<1> HIDE DEF DeviceInv, SaidBy, TakenOnce
<1> QED
  BY <1>1, <1>2, <1>4, <1>5, <1>6, <1>7, <1>8, <1>9, <1>10, <1>11, <1>12, <1>13, <1>15, <1>16,
     <1>17
  DEF Device!Next

(* A decision that was stored while no poll was under way stays.            *)
LEMMA NextDeviceDecided == ASSUME Device!DeviceAssumption, DeviceInv, [Device!Next]_(Device!vars),
                                  NEW a \in Deciders
                           PROVE  Decided(a)'
<1> USE DEF Device!DeviceAssumption, DeviceInv, Decided, Device!Pending
<1>i. /\ Device!IdlePoll.dev = None
      /\ rec \in [Devices -> Device!Records \cup {None}] /\ poll = [p \in Polls |-> poll[p]]
      /\ decider = [b \in Deciders |-> decider[b]]
  BY DEF Device!TypeOK, Device!IdlePoll
<1>1. ASSUME NEW d \in Devices, NEW u \in UserCodes,
             Device!Issue(d, u) \/ Device!IssueUnclaimed(d, u) \/ Device!IssueFails(d, u)
      PROVE  Decided(a)'
  <2>1. shown[d] = None /\ UNCHANGED <<poll, decider, crossed>>
    BY <1>1 DEF Device!Issue, Device!IssueUnclaimed, Device!IssueFails
  <2>2. rec' = rec \/ rec' = [rec EXCEPT ![d] = Device!Fresh]
    BY <1>1 DEF Device!Issue, Device!IssueUnclaimed, Device!IssueFails
  <2>3. decider[a].pc # "idle" => decider[a].dev \in Devices \ {d}
    BY <2>1 DEF IssuedInHand
  <2>4. \A e \in Devices \ {d} : rec'[e] = rec[e]
    BY <1>i, <2>2
  <2> QED BY <2>1, <2>3, <2>4
<1>2. ASSUME NEW p \in Polls, NEW d \in Polling, Device!PollLoad(p, d) PROVE Decided(a)'
  <2>1. /\ poll'[p].dev = d /\ poll'[p].got = rec[d] /\ rec[d] # None
        /\ \A q \in Polls \ {p} : poll'[q] = poll[q]
        /\ UNCHANGED <<rec, decider, crossed>>
    BY <1>2, <1>i DEF Device!PollLoad
  <2> QED BY <2>1
<1>3. ASSUME \A q \in Polls : \/ poll'[q].dev = poll[q].dev /\ poll'[q].got = poll[q].got
                              \/ poll'[q].dev = None,
             \A d \in Devices : rec'[d] = rec[d] \/ ~ Device!Pending(d)',
             UNCHANGED <<decider, crossed>>
      PROVE  Decided(a)'
  <2>1. decider[a].pc # "idle" => decider[a].dev \in Devices
    BY DEF IssuedInHand
  <2> QED BY <1>3, <2>1
<1>4. ASSUME NEW p \in Polls, \/ Device!PollExpired(p) \/ Device!PollDenied(p) \/ Device!PollTake(p)
                              \/ Device!PollDropCode(p) \/ Device!PollConsume(p)
                              \/ Device!PollAnswer(p) \/ Device!PollFail(p)
      PROVE  Decided(a)'
  <2>1. /\ rec' = rec \/ rec' = [rec EXCEPT ![poll[p].dev] = None]
        /\ \/ poll' = [poll EXCEPT ![p] = Device!IdlePoll]
           \/ poll' = [poll EXCEPT ![p].pc = "taken"]
           \/ poll' = [poll EXCEPT ![p].pc = "consume"]
           \/ poll' = [poll EXCEPT ![p].pc = "answer"]
        /\ UNCHANGED <<decider, crossed>>
    BY <1>4 DEF Device!PollExpired, Device!PollDenied, Device!PollTake, Device!PollDropCode,
                Device!PollConsume, Device!PollAnswer, Device!PollFail
  <2>2. \A q \in Polls : \/ poll'[q].dev = poll[q].dev /\ poll'[q].got = poll[q].got
                         \/ poll'[q].dev = None
    <3>1. ASSUME NEW s, poll' = [poll EXCEPT ![p].pc = s], NEW q \in Polls
          PROVE  poll'[q].dev = poll[q].dev /\ poll'[q].got = poll[q].got
      BY <3>1 DEF Device!TypeOK
    <3> QED BY <1>i, <2>1, <3>1
  <2>3. \A d \in Devices : rec'[d] = rec[d] \/ rec'[d] = None
    BY <1>i, <2>1
  <2> QED BY <1>3, <2>1, <2>2, <2>3
<1>5. ASSUME NEW p \in Polls, Device!PollNoted(p) PROVE Decided(a)'
  <2> DEFINE d == poll[p].dev
             n == [poll[p].got EXCEPT !.polled = TRUE]
  <2>1. /\ d \in Devices /\ rec' = [rec EXCEPT ![d] = n]
        /\ poll' = [poll EXCEPT ![p] = Device!IdlePoll] /\ UNCHANGED <<decider, crossed>>
    BY <1>5 DEF Device!PollNoted, IssuedInHand
  <2>2. n.status = poll[p].got.status
    BY DEF Device!TypeOK, Device!Records
  <2> HIDE DEF n
  <2>3. /\ rec'[d] = n /\ \A e \in Devices \ {d} : rec'[e] = rec[e]
        /\ poll'[p].dev = None /\ \A q \in Polls \ {p} : poll'[q] = poll[q]
    BY <1>i, <2>1
  <2>4. decider[a].pc # "idle" => decider[a].dev \in Devices
    BY DEF IssuedInHand
  <2> QED BY <2>1, <2>2, <2>3, <2>4
<1>6. ASSUME NEW b \in Deciders, NEW u \in UserCodes, Device!FindByUserCode(b, u)
      PROVE  Decided(a)'
  <2>1. decider'[a] = decider[a] \/ decider'[a].pc = "page"
    BY <1>6 DEF Device!FindByUserCode, Device!TypeOK
  <2>2. UNCHANGED <<rec, poll, crossed>>
    BY <1>6 DEF Device!FindByUserCode
  <2> QED BY <2>1, <2>2
<1>7. ASSUME NEW b \in Deciders, NEW v \in {"approved", "denied"}, Device!DecideLoad(b, v)
      PROVE  Decided(a)'
  <2>1. decider'[a] = decider[a] \/ decider'[a].pc \in {"store", "refused"}
    BY <1>7 DEF Device!DecideLoad, Device!TypeOK
  <2>2. UNCHANGED <<rec, poll, crossed>>
    BY <1>7 DEF Device!DecideLoad
  <2> QED BY <2>1, <2>2
<1>8. ASSUME NEW b \in Deciders, Device!DecideStore(b) PROVE Decided(a)'
  <2> DEFINE d == decider[b].dev
  <2>1. /\ decider[b].pc = "store" /\ rec' = [rec EXCEPT ![d] = decider[b].got]
        /\ decider' = [decider EXCEPT ![b].pc = "row"] /\ UNCHANGED poll
        /\ d \in Devices /\ decider[b].got.status # "pending" /\ crossed \subseteq crossed'
        /\ d \notin crossed' => \A p \in Polls : poll[p].dev # d
    BY <1>8 DEF Device!DecideStore, IssuedInHand
  <2>2. /\ rec'[d] = decider[b].got /\ \A e \in Devices \ {d} : rec'[e] = rec[e]
        /\ a # b => decider'[a] = decider[a]
        /\ decider'[a].dev = decider[a].dev
    BY <1>i, <2>1 DEF Device!TypeOK
  <2>3. decider[a].pc # "idle" => decider[a].dev \in Devices
    BY DEF IssuedInHand
  <2>4. CASE decider[a].dev = d
    BY <2>1, <2>2, <2>4
  <2>5. CASE decider[a].dev # d
    BY <2>1, <2>2, <2>3, <2>5
  <2> QED BY <2>4, <2>5
<1>9. ASSUME NEW b \in Deciders, Device!DecideRow(b) \/ Device!DecideFail(b) PROVE Decided(a)'
  <2>1. UNCHANGED <<rec, poll, crossed>>
    BY <1>9 DEF Device!DecideRow, Device!DecideFail
  <2>2. /\ decider'[a].dev = decider[a].dev
        /\ \/ decider'[a].pc = decider[a].pc
           \/ decider'[a].pc = "refused"
           \/ decider'[a].pc = "done" /\ decider[a].pc = "row"
    BY <1>9 DEF Device!DecideRow, Device!DecideFail, Device!TypeOK
  <2> QED BY <2>1, <2>2
<1>10. ASSUME NEW d \in Devices, Device!TtlRecord(d) PROVE Decided(a)'
  BY <1>i, <1>3, <1>10 DEF Device!TtlRecord
<1>11. ASSUME UNCHANGED <<rec, poll, decider, crossed>> PROVE Decided(a)'
  BY <1>11
<1>12. ASSUME NEW d \in Devices, Device!PassDeadline(d) PROVE Decided(a)'
  BY <1>11, <1>12 DEF Device!PassDeadline
<1>13. ASSUME NEW u \in UserCodes, Device!TtlPointer(u) PROVE Decided(a)'
  BY <1>11, <1>13 DEF Device!TtlPointer
<1>14. ASSUME UNCHANGED Device!vars PROVE Decided(a)'
  BY <1>11, <1>14 DEF Device!vars
<1> HIDE DEF DeviceInv, Decided
<1> QED
  BY <1>1, <1>2, <1>4, <1>5, <1>6, <1>7, <1>8, <1>9, <1>10, <1>12, <1>13, <1>14
  DEF Device!Next

(* Every step keeps all of it.                                              *)
LEMMA NextDevice == ASSUME Device!DeviceAssumption
                    PROVE  DeviceInv /\ [Device!Next]_(Device!vars) => DeviceInv'
<1> SUFFICES ASSUME DeviceInv, [Device!Next]_(Device!vars) PROVE DeviceInv'
  OBVIOUS
<1>1. Device!TypeOK' /\ IssuedInHand' /\ PollsAlone'
  BY NextDeviceHand, NextDeviceAlone DEF DeviceInv
<1>2. \A a \in Deciders : SaidBy(a)' /\ TakenOnce(a)' /\ Decided(a)'
  BY NextDeviceSaid, NextDeviceDecided
<1> QED BY <1>1, <1>2 DEF DeviceInv

(* Types of the records, pointers, rows, polls and decisions.               *)
THEOREM DeviceTypeCorrect ==
    ASSUME Device!DeviceAssumption PROVE Device!Spec => []Device!TypeOK
<1>1. DeviceInv => Device!TypeOK
  BY DEF DeviceInv
<1> QED BY <1>1, InitDevice, NextDevice, PTL DEF Device!Spec

(* poll: one approval yields tokens once, for a device that waits for each  *)
(* answer before it polls again.                                            *)
THEOREM DeviceSpentOnce ==
    ASSUME Device!DeviceAssumption PROVE Device!Spec => []Device!ApprovalSpentOnce
<1>1. DeviceInv => Device!ApprovalSpentOnce
  BY DEF DeviceInv, TakenOnce, Device!ApprovalSpentOnce
<1> QED BY <1>1, InitDevice, NextDevice, PTL DEF Device!Spec

(* approve and deny: a decision that went through is not found pending      *)
(* again, unless a poll was under way when it was stored.                   *)
THEOREM DeviceDecisionFinal ==
    ASSUME Device!DeviceAssumption PROVE Device!Spec => []Device!DecisionSticks
<1>1. DeviceInv => Device!DecisionSticks
  BY DEF DeviceInv, Decided, Device!DecisionSticks
<1> QED BY <1>1, InitDevice, NextDevice, PTL DEF Device!Spec
=============================================================================
