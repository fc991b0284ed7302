------------------------- MODULE AuditChainProofs -------------------------
(***************************************************************************)
(* The audit log, for every set of nodes and events, every order in which  *)
(* they occur, all sizes of queues, pages and batches, and any number of   *)
(* faults.                                                                 *)
(*                                                                         *)
(* Then the messages that go out, by an instance of OutboundQueue: a claim *)
(* is exclusive, and without a fault a message is delivered once.          *)
(***************************************************************************)
EXTENDS AuditChain, NaturalsInduction, WellFoundedInduction, FiniteSetTheorems, SequenceTheorems,
        TLAPS

(* The types, and what each pass has in hand.                               *)
RowShape == [seq : Nat \ {0}, event : Events, prev : Events \cup {None}]
Walking == [at : {"checkpoint", "walk", "good", "broken"}, seq : Nat, event : Events \cup {None},
            last : Nat]
WalkShape == {Idle} \cup Walking
PurgeShape == {Idle, [at |-> "find"]} \cup [at : {"delete"}, upTo : Nat]
SinkShape == {Idle} \cup [at : {"deliver", "advance", "leap"}, seqs : SUBSET Nat]

WritersTyped ==
    /\ published \in [Nodes -> Seq(Events)] /\ queue \in [Nodes -> Seq(Events)]
    /\ parked \in [Nodes -> Seq(Events)] /\ singly \in [Nodes -> Seq(Events)]
    /\ \A n \in Nodes : Len(parked[n]) <= Limit
    /\ recorded \in Seq(Events) /\ lost \subseteq Events
ChainTyped ==
    /\ head \in [seq : Nat, event : Events \cup {None}]
    /\ rows \subseteq RowShape /\ \A r \in rows : r.seq <= head.seq
VerifyTyped ==
    /\ verified \in 0..head.seq /\ broken \in 0..head.seq /\ verifiedRow \in Events \cup {None}
    /\ walk \in WalkShape /\ (walk # Idle => walk.seq <= head.seq /\ walk.last <= head.seq)
    /\ torn \in BOOLEAN /\ raced \in BOOLEAN
PurgeTyped ==
    /\ cutoff \in Nat /\ purge \in PurgeShape
    /\ purge.at = "delete" => purge.upTo <= head.seq
SinkTyped ==
    /\ sinkSeq \in 0..head.seq /\ sink \in SinkShape
    /\ sink # Idle => \A s \in sink.seqs : s <= head.seq
    /\ faults \in Nat
Typed == WritersTyped /\ ChainTyped /\ VerifyTyped /\ PurgeTyped /\ SinkTyped

(* Rows are numbered once and name the row before them, the last is the     *)
(* head's, and but for a torn month nothing after a row is missing.         *)
LinkInv ==
    /\ \A r, q \in rows : r.seq = q.seq => r = q
    /\ \A r, q \in rows : q.seq + 1 = r.seq => r.prev = q.event
    /\ \A r \in rows : r.seq = head.seq => r.event = head.event
    /\ ~ torn => \A r \in rows : \A s \in r.seq..head.seq : s \in Seqs

(* A walk under which nothing was removed stands on a row; what it carries, *)
(* and what the checkpoint keeps, is that row, as long as it is there.      *)
Names(s, e) == \A q \in rows : q.seq = s => q.event = e
WalkInv ==
    /\ walk.at = "walk" /\ ~ raced => walk.seq \in Seqs \cup {0}
    /\ walk.at \in {"checkpoint", "walk", "good"} =>
         Names(walk.seq, walk.event) /\ walk.last \in {0, walk.seq}
    /\ Names(verified, verifiedRow)
    /\ AlarmHasACause

(* Every number given out is of a row or of one that was purged; what the   *)
(* export worker has read is all there is up to its last row.               *)
SinkInv ==
    /\ 1..head.seq \subseteq Seqs \cup purged
    /\ SinkSkipsOnlyInALeap
    /\ sink.at \in {"deliver", "advance"} =>
         \A s \in Nat, t \in sink.seqs : sinkSeq < s /\ s <= t => s \in sink.seqs \cup purged
    /\ sink.at = "advance" => sink.seqs \subseteq shipped

(* The events each writer still has, in the order they were published.      *)
Waiting(n) == Range(singly[n]) \cup Range(parked[n]) \cup Range(queue[n])
AllBefore(p, A, B) == \A e \in A, f \in B : Before(p, e, f)
Sorted(p, s) == \A i, j \in 1..Len(s) : i < j => Before(p, s[i], s[j])
InLine(p, s, k, q) ==
    /\ Range(s) \cup Range(k) \cup Range(q) \subseteq Range(p)
    /\ s = <<>> \/ k = <<>>
    /\ Sorted(p, s) /\ Sorted(p, k) /\ Sorted(p, q)
    /\ AllBefore(p, Range(s) \cup Range(k), Range(q))

Once(p, n) ==
    /\ \A i \in 1..Len(p) : Source[p[i]] = n
    /\ \A i, j \in 1..Len(p) : p[i] = p[j] => i = j
PublishedOnce == \A n \in Nodes : Once(published[n], n)
WaitingInOrder == \A n \in Nodes : InLine(published[n], singly[n], parked[n], queue[n])
(* What is recorded comes before what waits, but for what was recorded and  *)
(* its writer did not hear of it.                                           *)
RecordedFirst ==
    \A n \in Nodes :
        /\ Range(queue[n]) \cap Range(recorded) = {}
        /\ \A e \in Range(recorded), f \in Waiting(n) \ Range(recorded) :
             Source[e] = n => Before(published[n], e, f)
(* Lost and expired events wait nowhere.                                    *)
Settled ==
    /\ lost \subseteq Published
    /\ \A n \in Nodes : Waiting(n) \cap lost = {}
    /\ \A e \in Events : OccurredAt[e] < cutoff => /\ e \in Published
                                                   /\ \A n \in Nodes : e \notin Waiting(n)
(* The row of an event whose writer did not hear of it is there, out of the *)
(* retention's reach.                                                       *)
OutOfReach(r) ==
    /\ \A q \in Expired : q.seq < r.seq
    /\ purge.at = "delete" => purge.upTo < r.seq
UnheardIsThere ==
    \A n \in Nodes : \A e \in Waiting(n) \cap Range(recorded) :
        \E r \in rows : r.event = e /\ OutOfReach(r)
OrderInv ==
    PublishedOnce /\ WaitingInOrder /\ RecordedFirst /\ Settled /\ UnheardIsThere /\ InOrderOnce

-----------------------------------------------------------------------------
(* The writers' sequences.                                                  *)

(* Parking keeps at most Limit of the events, the last ones.                *)
LEMMA Parks ==
    ASSUME NEW n \in Nodes, NEW events \in Seq(Events), Park(n, events),
           parked \in [Nodes -> Seq(Events)]
    PROVE  \E over \in 0..Len(events) :
             /\ parked' = [parked EXCEPT ![n] = SubSeq(events, over + 1, Len(events))]
             /\ lost' = lost \cup Range(SubSeq(events, 1, over))
             /\ Len(events) - over <= Limit
<1> DEFINE over == IF Len(events) > Limit THEN Len(events) - Limit ELSE 0
<1>1. Limit \in Nat /\ Len(events) \in Nat
  BY AuditAssumption, LenProperties
<1>2. over \in 0..Len(events) /\ Len(events) - over <= Limit
  BY <1>1
<1>3. /\ parked' = [parked EXCEPT ![n] = SubSeq(events, over + 1, Len(events))]
      /\ lost' = lost \cup Range(SubSeq(events, 1, over))
  BY DEF Park
<1> QED BY <1>2, <1>3

(* A part of a sequence, from the front or from the back.                   *)
LEMMA PartOf ==
    ASSUME NEW S, NEW s \in Seq(S), NEW m \in 0..Len(s)
    PROVE  LET front == SubSeq(s, 1, m)  back == SubSeq(s, m + 1, Len(s))
           IN  /\ front \in Seq(S) /\ Len(front) = m /\ \A i \in 1..m : front[i] = s[i]
               /\ back \in Seq(S) /\ Len(back) = Len(s) - m
               /\ \A i \in 1..(Len(s) - m) : back[i] = s[i + m]
<1>1. Len(s) \in Nat /\ \A i \in 1..Len(s) : s[i] \in S
  BY LenProperties, ElementOfSeq
<1>2. SubSeq(s, 1, m) \in Seq(S) /\ Len(SubSeq(s, 1, m)) = m
  BY <1>1, SubSeqProperties
<1>3. \A i \in 1..m : SubSeq(s, 1, m)[i] = s[i]
  BY <1>1, SubSeqProperties
<1>4. /\ SubSeq(s, m + 1, Len(s)) \in Seq(S) /\ Len(SubSeq(s, m + 1, Len(s))) = Len(s) - m
  BY <1>1, SubSeqProperties
<1>5. \A i \in 1..(Len(s) - m) : SubSeq(s, m + 1, Len(s))[i] = s[i + m]
  BY <1>1, SubSeqProperties
<1> QED BY <1>2, <1>3, <1>4, <1>5

(* Each writer's step, as what it does to the chain and to its events.      *)
LEMMA WritersStep ==
    ASSUME WritersTyped, NEW n \in Nodes, WriterReceives(n) \/ WriterRetries(n) \/ WriterOne(n)
    PROVE  /\ UNCHANGED <<published, verifyVars, purgeVars, sinkVars>>
           /\ \/ UNCHANGED <<chainVars, recorded>>
              \/ \E events \in Seq(Events) : events # <<>> /\ RecordChain(events)
           /\ UNCHANGED faults \/ Fault
<1>1. ASSUME NEW events \in Seq(Events), events # <<>>, WriteChain(n, events)
      PROVE  /\ \/ UNCHANGED <<chainVars, recorded>>
                \/ RecordChain(events)
             /\ UNCHANGED faults \/ Fault
  BY <1>1 DEF WriteChain
<1>2. queue[n] \in Seq(Events) /\ parked[n] \in Seq(Events) /\ singly[n] \in Seq(Events)
  BY DEF WritersTyped
<1>3. CASE WriterReceives(n)
  BY <1>1, <1>2, <1>3 DEF WriterReceives
<1>4. CASE WriterRetries(n)
  BY <1>1, <1>2, <1>4 DEF WriterRetries
<1>5. CASE WriterOne(n)
  <2>1. singly[n] # <<>> => <<singly[n][1]>> \in Seq(Events) /\ <<singly[n][1]>> # <<>>
    BY <1>2
  <2> HIDE DEF RecordChain, Park, GiveUp
  <2> QED BY <1>5, <2>1 DEF WriterOne
<1> QED BY <1>3, <1>4, <1>5

(* Every step leaves sequences of events.                                   *)
LEMMA NextWriters == ASSUME WritersTyped, [Next]_vars PROVE WritersTyped'
<1>0. /\ <<>> \in Seq(Events)
      /\ \A n \in Nodes : /\ published[n] \in Seq(Events) /\ queue[n] \in Seq(Events)
                          /\ parked[n] \in Seq(Events) /\ singly[n] \in Seq(Events)
                          /\ Len(parked[n]) <= Limit
      /\ recorded \in Seq(Events) /\ Len(<<>>) <= Limit /\ Limit \in Nat
  BY AuditAssumption DEF WritersTyped
<1>1. ASSUME NEW n \in Nodes, NEW events \in Seq(Events), Park(n, events)
      PROVE  /\ parked' \in [Nodes -> Seq(Events)] /\ \A m \in Nodes : Len(parked'[m]) <= Limit
             /\ lost' \subseteq Events
  <2>1. PICK over \in 0..Len(events) :
             /\ parked' = [parked EXCEPT ![n] = SubSeq(events, over + 1, Len(events))]
             /\ lost' = lost \cup Range(SubSeq(events, 1, over))
             /\ Len(events) - over <= Limit
    BY <1>1, Parks DEF WritersTyped
  <2>2. /\ SubSeq(events, over + 1, Len(events)) \in Seq(Events)
        /\ Len(SubSeq(events, over + 1, Len(events))) <= Limit
        /\ SubSeq(events, 1, over) \in Seq(Events)
    BY <2>1, PartOf
  <2>3. Range(SubSeq(events, 1, over)) \subseteq Events
    BY <2>2, RangeOfSeq
  <2> QED BY <1>0, <2>1, <2>2, <2>3 DEF WritersTyped
<1>2. ASSUME NEW events \in Seq(Events), RecordChain(events)
      PROVE  recorded' \in Seq(Events)
  BY <1>0, <1>2 DEF RecordChain
<1>3. ASSUME NEW n \in Nodes, NEW events \in Seq(Events), events # <<>>, WriteChain(n, events)
      PROVE  /\ parked' \in [Nodes -> Seq(Events)] /\ \A m \in Nodes : Len(parked'[m]) <= Limit
             /\ singly' \in [Nodes -> Seq(Events)] /\ recorded' \in Seq(Events)
             /\ lost' \subseteq Events
  <2>1. CASE /\ RecordChain(events) /\ parked' = [parked EXCEPT ![n] = <<>>]
             /\ UNCHANGED <<singly, lost>>
    BY <1>0, <1>2, <2>1 DEF WritersTyped
  <2>2. CASE /\ parked' = [parked EXCEPT ![n] = <<>>]
             /\ IF Len(events) > 1 THEN singly' = [singly EXCEPT ![n] = events] /\ UNCHANGED lost
                ELSE GiveUp(events[1]) /\ UNCHANGED singly
             /\ UNCHANGED recorded
    <3>1. events[1] \in Events
      BY <1>3
    <3> QED BY <1>0, <2>2, <3>1 DEF WritersTyped, GiveUp
  <2>3. CASE Park(n, events) /\ (RecordChain(events) \/ UNCHANGED recorded) /\ UNCHANGED singly
    BY <1>0, <1>1, <1>2, <2>3 DEF WritersTyped
  <2> QED BY <1>3, <2>1, <2>2, <2>3 DEF WriteChain
<1>4. ASSUME NEW e \in Events, Publish(e) PROVE WritersTyped'
  <2>1. Source[e] \in Nodes
    BY AuditAssumption
  <2>2. /\ Append(published[Source[e]], e) \in Seq(Events)
        /\ Append(queue[Source[e]], e) \in Seq(Events)
    BY <1>0, <2>1
  <2> QED BY <1>4, <2>1, <2>2 DEF Publish, WritersTyped
<1>5. ASSUME NEW n \in Nodes, WriterReceives(n) PROVE WritersTyped'
  <2>1. CASE parked[n] = <<>>
    <3>1. WriteChain(n, queue[n]) /\ queue' = [queue EXCEPT ![n] = <<>>] /\ UNCHANGED published
      BY <1>5, <2>1 DEF WriterReceives
    <3> QED BY <1>0, <1>3, <1>5, <3>1 DEF WritersTyped, WriterReceives
  <2>2. CASE parked[n] # <<>>
    <3>1. /\ Park(n, parked[n] \o queue[n]) /\ queue' = [queue EXCEPT ![n] = <<>>]
          /\ UNCHANGED <<published, recorded, singly>>
      BY <1>5, <2>2 DEF WriterReceives
    <3>2. parked[n] \o queue[n] \in Seq(Events)
      BY <1>0
    <3> QED BY <1>0, <1>1, <3>1, <3>2 DEF WritersTyped
  <2> QED BY <2>1, <2>2
<1>6. ASSUME NEW n \in Nodes, WriterRetries(n) PROVE WritersTyped'
  <2>1. WriteChain(n, parked[n]) /\ parked[n] # <<>> /\ UNCHANGED <<published, queue>>
    BY <1>6 DEF WriterRetries
  <2> QED BY <1>0, <1>3, <2>1 DEF WritersTyped
<1>7. ASSUME NEW n \in Nodes, WriterOne(n) PROVE WritersTyped'
  <2> DEFINE e == singly[n][1]
  <2>1. singly[n] # <<>> /\ UNCHANGED <<published, queue>>
    BY <1>7 DEF WriterOne
  <2>2. e \in Events /\ Tail(singly[n]) \in Seq(Events) /\ <<e>> \in Seq(Events)
    BY <1>0, <2>1
  <2>3. CASE /\ GiveUp(e) /\ singly' = [singly EXCEPT ![n] = Tail(@)]
             /\ UNCHANGED <<recorded, parked>>
    BY <1>0, <2>1, <2>2, <2>3 DEF WritersTyped, GiveUp
  <2>4. CASE /\ RecordChain(<<e>>) /\ singly' = [singly EXCEPT ![n] = Tail(@)]
             /\ UNCHANGED <<parked, lost>>
    BY <1>0, <1>2, <2>1, <2>2, <2>4 DEF WritersTyped
  <2>5. CASE /\ Park(n, singly[n]) /\ singly' = [singly EXCEPT ![n] = <<>>]
             /\ RecordChain(<<e>>) \/ UNCHANGED recorded
    <3>1. recorded' \in Seq(Events)
      BY <1>0, <1>2, <2>2, <2>5
    <3> QED BY <1>0, <1>1, <2>1, <2>5, <3>1 DEF WritersTyped
  <2> QED BY <1>7, <2>3, <2>4, <2>5 DEF WriterOne
<1>8. CASE UNCHANGED writerVars
  BY <1>8 DEF writerVars, WritersTyped
<1> QED
  BY <1>4, <1>5, <1>6, <1>7, <1>8
  DEF Next, vars, VerifyStart, VerifyCheckpoint, VerifyPage, VerifyEnd, Expire, DropPartition,
      PurgeFind, PurgeDelete, SinkRead, SinkDeliver, SinkAdvance

-----------------------------------------------------------------------------
(* The rows of the chain.                                                   *)

(* Every set of numbers has a least one.                                    *)
LEMMA LeastOf == ASSUME NEW S \in SUBSET Nat, S # {}
                 PROVE  \E m \in S : \A t \in S : m <= t
<1> DEFINE R == OpToRel(<, Nat)
<1>1. \A x, y \in Nat : <<y, x>> \in R <=> y < x
  BY DEF OpToRel
<1>2. IsWellFoundedOn(R, Nat)
  BY NatLessThanWellFounded, Zenon
<1> HIDE DEF R
<1>3. PICK m \in S : \A t \in S : ~ (<<t, m>> \in R)
  BY <1>2, WFMin
<1>4. \A t \in S : ~ (t < m)
  BY <1>1, <1>3
<1> QED BY <1>3, <1>4

(* The least of a set of numbers.                                           *)
LEMMA MinOf == ASSUME NEW S \in SUBSET Nat, S # {}
               PROVE  Min(S) \in S /\ \A t \in S : Min(S) <= t
<1>1. \E m \in S : \A t \in S : m <= t
  BY LeastOf
<1> QED BY <1>1 DEF Min

(* The greatest of a bounded set of numbers.                                *)
LEMMA MaxOf == ASSUME NEW S \in SUBSET Nat, S # {}, NEW b \in Nat, \A t \in S : t <= b
               PROVE  Max(S) \in S /\ \A t \in S : t <= Max(S)
<1> DEFINE T == {b - t : t \in S}
<1>1. T \in SUBSET Nat /\ T # {}
  <2>1. \A t \in S : b - t \in Nat
    OBVIOUS
  <2>2. T # {}
    OBVIOUS
  <2> QED BY <2>1, <2>2
<1> HIDE DEF T
<1>2. PICK m \in T : \A t \in T : m <= t
  BY <1>1, LeastOf
<1>3. PICK s \in S : m = b - s
  BY <1>2 DEF T
<1>4. \A t \in S : t <= s
  <2> SUFFICES ASSUME NEW t \in S PROVE t <= s
    OBVIOUS
  <2>1. b - t \in T
    BY DEF T
  <2>2. m <= b - t
    BY <1>2, <2>1
  <2> QED BY <1>3, <2>2
<1>5. \E x \in S : \A y \in S : x >= y
  BY <1>3, <1>4
<1> QED BY <1>5 DEF Max

(* The numbers of the rows are numbers up to the head's.                    *)
LEMMA SeqsBounded ==
    ASSUME ChainTyped
    PROVE  /\ Seqs \in SUBSET (Nat \ {0}) /\ IsFiniteSet(Seqs) /\ head.seq \in Nat
           /\ \A s \in Seqs : s <= head.seq
<1>1. Seqs \in SUBSET (Nat \ {0}) /\ head.seq \in Nat /\ \A s \in Seqs : s <= head.seq
  BY DEF ChainTyped, Seqs, RowShape
<1> QED BY <1>1, FS_BoundedSetOfNaturals

(* A page leaves no row out between its start and its last row.             *)
LEMMA PageIsFirst ==
    ASSUME ChainTyped, NEW s \in Nat, NEW n \in Nat, NEW r \in RowsAfter(s, n)
    PROVE  /\ r \in rows /\ r.seq > s
           /\ \A q \in rows : s < q.seq /\ q.seq < r.seq => q \in RowsAfter(s, n)
<1>1. r \in rows /\ r.seq > s /\ Cardinality({q \in Seqs : s < q /\ q < r.seq}) < n
  BY DEF RowsAfter
<1>2. ASSUME NEW q \in rows, s < q.seq, q.seq < r.seq
      PROVE  q \in RowsAfter(s, n)
  <2> DEFINE A == {x \in Seqs : s < x /\ x < q.seq}  B == {x \in Seqs : s < x /\ x < r.seq}
  <2>1. q.seq \in Nat /\ r.seq \in Nat /\ Seqs \subseteq Nat
    BY <1>1, <1>2, SeqsBounded DEF ChainTyped, RowShape
  <2>2. A \subseteq B /\ B \subseteq Seqs
    <3> SUFFICES ASSUME NEW x \in A PROVE x \in B
      OBVIOUS
    <3>1. x \in Nat /\ x \in Seqs /\ s < x /\ x < q.seq
      BY <2>1
    <3>2. x < r.seq
      BY <1>2, <2>1, <3>1
    <3> QED BY <3>1, <3>2
  <2> HIDE DEF A, B
  <2>3. IsFiniteSet(B)
    BY <2>2, SeqsBounded, FS_Subset
  <2>4. Cardinality(A) <= Cardinality(B) /\ IsFiniteSet(A)
    BY <2>2, <2>3, FS_Subset
  <2>5. Cardinality(A) \in Nat /\ Cardinality(B) \in Nat
    BY <2>3, <2>4, FS_CardinalityType
  <2>6. Cardinality(A) < n
    BY <1>1, <2>4, <2>5 DEF B
  <2> QED BY <1>2, <2>6 DEF RowsAfter, A
<1> QED BY <1>1, <1>2

(* The row that is appended for the i-th event.                             *)
NewRow(events, i) ==
    [seq |-> head.seq + i, event |-> events[i],
     prev |-> IF i = 1 THEN head.event ELSE events[i - 1]]

(* An append numbers its rows past the head.                                *)
LEMMA Appended ==
    ASSUME ChainTyped, NEW events \in Seq(Events), events # <<>>, RecordChain(events)
    PROVE  /\ Len(events) \in Nat \ {0} /\ head.seq \in Nat
           /\ \A i \in 1..Len(events) : events[i] \in Events
           /\ rows' = rows \cup {NewRow(events, i) : i \in 1..Len(events)}
           /\ head'.seq = head.seq + Len(events) /\ head'.event = events[Len(events)]
           /\ head' \in [seq : Nat, event : Events \cup {None}]
           /\ \A i \in 1..Len(events) :
                /\ NewRow(events, i) \in RowShape /\ NewRow(events, i).seq = head.seq + i
                /\ NewRow(events, i).event = events[i]
                /\ NewRow(events, i).prev = IF i = 1 THEN head.event ELSE events[i - 1]
<1>1. Len(events) \in Nat \ {0} /\ \A i \in 1..Len(events) : events[i] \in Events
  BY EmptySeq, ElementOfSeq
<1>2. head.seq \in Nat /\ head.event \in Events \cup {None}
  BY DEF ChainTyped
<1>3. ASSUME NEW i \in 1..Len(events)
      PROVE  /\ NewRow(events, i) \in RowShape /\ NewRow(events, i).seq = head.seq + i
             /\ NewRow(events, i).event = events[i]
             /\ NewRow(events, i).prev = IF i = 1 THEN head.event ELSE events[i - 1]
  <2>1. i # 1 => i - 1 \in 1..Len(events)
    BY <1>1, <1>3
  <2>2. head.seq + i \in Nat \ {0}
    BY <1>1, <1>2
  <2>3. (IF i = 1 THEN head.event ELSE events[i - 1]) \in Events \cup {None}
    BY <1>1, <1>2, <2>1
  <2> QED BY <1>1, <2>2, <2>3 DEF RowShape, NewRow
<1>4. /\ rows' = rows \cup {NewRow(events, i) : i \in 1..Len(events)}
      /\ head' = [seq |-> head.seq + Len(events), event |-> events[Len(events)]]
  BY DEF RecordChain, ChainHead, NewRow
<1>5. head.seq + Len(events) \in Nat /\ events[Len(events)] \in Events
  BY <1>1, <1>2
<1> QED BY <1>1, <1>2, <1>3, <1>4, <1>5

(* What is appended or discarded is typed.                                  *)
LEMMA ChainTypes ==
    ASSUME ChainTyped,
           \/ UNCHANGED chainVars
           \/ \E events \in Seq(Events) : events # <<>> /\ RecordChain(events)
           \/ \E gone : Discard(gone) /\ UNCHANGED head
    PROVE  ChainTyped' /\ head.seq \in Nat /\ head'.seq \in Nat /\ head.seq <= head'.seq
<1>1. CASE UNCHANGED chainVars
  BY <1>1 DEF chainVars, ChainTyped
<1>2. ASSUME NEW events \in Seq(Events), events # <<>>, RecordChain(events)
      PROVE  ChainTyped' /\ head.seq \in Nat /\ head'.seq \in Nat /\ head.seq <= head'.seq
  <2>1. /\ Len(events) \in Nat \ {0} /\ head.seq \in Nat
        /\ rows' = rows \cup {NewRow(events, i) : i \in 1..Len(events)}
        /\ head'.seq = head.seq + Len(events)
        /\ head' \in [seq : Nat, event : Events \cup {None}]
        /\ \A i \in 1..Len(events) :
             NewRow(events, i) \in RowShape /\ NewRow(events, i).seq = head.seq + i
    BY <1>2, Appended
  <2>2. ASSUME NEW r \in rows' PROVE r \in RowShape /\ r.seq <= head'.seq
    <3>1. CASE r \in rows
      <4>1. r \in RowShape /\ r.seq <= head.seq /\ r.seq \in Nat
        BY <3>1 DEF ChainTyped, RowShape
      <4> QED BY <2>1, <4>1
    <3>2. ASSUME NEW i \in 1..Len(events), r = NewRow(events, i)
          PROVE  r \in RowShape /\ r.seq <= head'.seq
      <4>1. r \in RowShape /\ r.seq = head.seq + i /\ i <= Len(events)
        BY <2>1, <3>2
      <4> QED BY <2>1, <4>1
    <3> QED BY <2>1, <3>1, <3>2
  <2> QED BY <2>1, <2>2 DEF ChainTyped
<1>3. ASSUME NEW gone, Discard(gone), UNCHANGED head
      PROVE  ChainTyped' /\ head.seq \in Nat /\ head'.seq \in Nat /\ head.seq <= head'.seq
  BY <1>3 DEF Discard, ChainTyped
<1> QED BY <1>1, <1>2, <1>3

(* What each step does to the chain: a writer appends, retention removes.   *)
LEMMA ChainSteps ==
    ASSUME WritersTyped, Next
    PROVE  \/ UNCHANGED chainVars
           \/ \E events \in Seq(Events) : events # <<>> /\ RecordChain(events)
           \/ \E gone : Discard(gone) /\ UNCHANGED head
<1>1. ASSUME NEW n \in Nodes, WriterReceives(n) \/ WriterRetries(n) \/ WriterOne(n)
      PROVE  \/ UNCHANGED chainVars
             \/ \E events \in Seq(Events) : events # <<>> /\ RecordChain(events)
  BY <1>1, WritersStep
<1>2. CASE DropPartition
  BY <1>2 DEF DropPartition
<1>3. CASE PurgeDelete
  BY <1>3 DEF PurgeDelete
<1> HIDE DEF Discard, RecordChain
<1> QED
  BY <1>1, <1>2, <1>3
  DEF Next, Publish, VerifyStart, VerifyCheckpoint, VerifyPage, VerifyEnd, Expire, PurgeFind,
      SinkRead, SinkDeliver, SinkAdvance

(* The last row of a set of rows.                                           *)
LEMMA LastOfRows ==
    ASSUME ChainTyped, NEW page \in SUBSET rows, page # {}
    PROVE  /\ \E r \in page : r.seq = LastOf(page)
           /\ \A r \in page : r.seq <= LastOf(page)
           /\ LastOf(page) \in Seqs /\ LastOf(page) \in Nat /\ LastOf(page) <= head.seq
           /\ LastRow(page) \in page /\ LastRow(page).seq = LastOf(page)
<1> DEFINE S == {r.seq : r \in page}
<1>1. S \subseteq Seqs /\ S # {}
  BY DEF Seqs
<1>2. S \in SUBSET Nat /\ head.seq \in Nat /\ \A t \in S : t <= head.seq
  BY <1>1, SeqsBounded
<1> HIDE DEF S
<1>3. Max(S) \in S /\ \A t \in S : t <= Max(S)
  BY <1>1, <1>2, MaxOf
<1>4. LastOf(page) = Max(S)
  BY DEF LastOf, S
<1>5. \A r \in page : r.seq \in S
  BY DEF S
<1>6. \E r \in page : r.seq = Max(S)
  BY <1>3 DEF S
<1>7. LastRow(page) \in page /\ LastRow(page).seq = LastOf(page)
  BY <1>4, <1>6 DEF LastRow
<1> QED BY <1>1, <1>2, <1>3, <1>4, <1>5, <1>6, <1>7

(* A page of the walk ends in a break at one of its rows, or stands on the  *)
(* last of them.                                                            *)
LEMMA PageOfWalk ==
    ASSUME ChainTyped, VerifyPage
    PROVE  LET page == RowsAfter(walk.seq, Page)
               before(r) == LET older == {q \in page : q.seq < r.seq}
                            IN  IF older = {} THEN walk ELSE LastRow(older)
           IN  \/ /\ walk' = [at |-> "broken", seq |-> walk'.seq, event |-> None, last |-> 0]
                  /\ \E r \in page : walk'.seq = r.seq /\ ~ Follows(r, before(r))
               \/ page = {} /\ walk' = [walk EXCEPT !.at = "good"]
               \/ /\ page # {}
                  /\ \E at \in {"good", "walk"} :
                       walk' = [at |-> at, seq |-> LastOf(page), event |-> LastRow(page).event,
                                last |-> LastOf(page)]
<1> DEFINE page == RowsAfter(walk.seq, Page)
           before(r) == LET older == {q \in page : q.seq < r.seq}
                        IN  IF older = {} THEN walk ELSE LastRow(older)
           wrong == {r.seq : r \in {r \in page : ~ Follows(r, before(r))}}
<1>1. walk' = IF wrong # {}
              THEN [at |-> "broken", seq |-> Min(wrong), event |-> None, last |-> 0]
              ELSE IF page = {} THEN [walk EXCEPT !.at = "good"]
              ELSE [at |-> IF Cardinality(page) < Page THEN "good" ELSE "walk",
                    seq |-> LastOf(page), event |-> LastRow(page).event, last |-> LastOf(page)]
  BY DEF VerifyPage
<1>2. wrong \subseteq Seqs
  BY DEF RowsAfter, Seqs
<1>3. wrong \in SUBSET Nat
  BY <1>2, SeqsBounded
<1>4. ASSUME wrong # {}
      PROVE  \E r \in page : Min(wrong) = r.seq /\ ~ Follows(r, before(r))
  <2>1. Min(wrong) \in wrong
    BY <1>3, <1>4, MinOf
  <2> HIDE DEF page, before
  <2> QED BY <2>1
<1> HIDE DEF page, wrong, before
<1>5. CASE wrong # {}
  <2>1. walk' = [at |-> "broken", seq |-> Min(wrong), event |-> None, last |-> 0]
    BY <1>1, <1>5
  <2>2. walk'.seq = Min(wrong)
    BY <2>1
  <2>3. \E r \in page : walk'.seq = r.seq /\ ~ Follows(r, before(r))
    BY <1>4, <1>5, <2>2
  <2> QED BY <2>1, <2>2, <2>3 DEF page, before
<1>6. CASE wrong = {} /\ page = {}
  BY <1>1, <1>6 DEF page
<1>7. CASE wrong = {} /\ page # {}
  BY <1>1, <1>7 DEF page
<1> QED BY <1>5, <1>6, <1>7

(* Every step leaves the verification within the chain.                     *)
LEMMA NextVerify ==
    ASSUME ChainTyped, VerifyTyped, Next, head'.seq \in Nat, head.seq <= head'.seq,
           PurgeTyped
    PROVE  VerifyTyped'
<1>0. /\ head.seq \in Nat /\ verified \in Nat /\ broken \in Nat /\ verified <= head.seq
      /\ broken <= head.seq
  BY DEF ChainTyped, VerifyTyped
<1>1. CASE UNCHANGED verifyVars /\ UNCHANGED torn
  <2>1. verified' \in 0..head'.seq /\ broken' \in 0..head'.seq
    BY <1>0, <1>1 DEF verifyVars
  <2>2. walk # Idle => /\ walk.seq \in Nat /\ walk.last \in Nat
                       /\ walk.seq <= head'.seq /\ walk.last <= head'.seq
    BY <1>0 DEF VerifyTyped, WalkShape, Walking
  <2> QED BY <1>1, <2>1, <2>2 DEF verifyVars, VerifyTyped
<1>2. CASE VerifyStart
  <2>1. /\ \/ walk' = [at |-> "checkpoint", seq |-> verified, event |-> verifiedRow, last |-> 0]
           \/ walk' = [at |-> "walk", seq |-> 0, event |-> None, last |-> 0]
        /\ raced' = FALSE /\ UNCHANGED <<verified, verifiedRow, broken, torn, head>>
    BY <1>2 DEF VerifyStart, purgeVars, chainVars
  <2>2. /\ walk' \in Walking
        /\ walk'.seq <= head.seq /\ walk'.last <= head.seq
    BY <1>0, <2>1 DEF VerifyTyped, Walking
  <2> QED BY <2>1, <2>2 DEF VerifyTyped, WalkShape
<1>3. CASE VerifyCheckpoint
  <2>1. /\ walk.at = "checkpoint" /\ UNCHANGED <<verified, verifiedRow, broken, torn, head, raced>>
        /\ \/ walk' = [at |-> "walk", seq |-> 0, event |-> None, last |-> 0]
           \/ \E at \in {"broken", "walk"} : walk' = [walk EXCEPT !.at = at]
    BY <1>3 DEF VerifyCheckpoint, purgeVars, chainVars
  <2>2. walk # Idle
    BY <2>1 DEF Idle
  <2>3. walk \in Walking /\ walk.seq <= head.seq /\ walk.last <= head.seq
    BY <2>2 DEF VerifyTyped, WalkShape
  <2>4. walk' \in Walking /\ walk'.seq <= head.seq /\ walk'.last <= head.seq
    BY <1>0, <2>1, <2>3 DEF Walking
  <2> QED BY <2>1, <2>4 DEF VerifyTyped, WalkShape
<1>4. CASE VerifyPage
  <2>1. walk.at = "walk" /\ UNCHANGED <<verified, verifiedRow, broken, torn, head, raced>>
    BY <1>4 DEF VerifyPage, purgeVars, chainVars
  <2>2. walk # Idle
    BY <2>1 DEF Idle
  <2>3. walk \in Walking /\ walk.seq <= head.seq /\ walk.last <= head.seq
    BY <2>2 DEF VerifyTyped, WalkShape
  <2> DEFINE page == RowsAfter(walk.seq, Page)
  <2>4. page \in SUBSET rows
    BY DEF RowsAfter
  <2>5. page # {} => /\ LastOf(page) \in Nat /\ LastOf(page) <= head.seq
                     /\ LastRow(page).event \in Events
    BY <2>4, LastOfRows DEF ChainTyped, RowShape
  <2>6. \A r \in page : r.seq \in Nat /\ r.seq <= head.seq
    BY <2>4 DEF ChainTyped, RowShape
  <2> HIDE DEF page
  <2>7. \/ /\ walk' = [at |-> "broken", seq |-> walk'.seq, event |-> None, last |-> 0]
           /\ \E r \in page : walk'.seq = r.seq
        \/ walk' = [walk EXCEPT !.at = "good"]
        \/ /\ page # {}
           /\ \E at \in {"good", "walk"} :
                walk' = [at |-> at, seq |-> LastOf(page), event |-> LastRow(page).event,
                         last |-> LastOf(page)]
    BY <1>4, PageOfWalk DEF page
  <2>8. walk' \in Walking /\ walk'.seq <= head.seq /\ walk'.last <= head.seq
    BY <1>0, <2>3, <2>5, <2>6, <2>7 DEF Walking
  <2> QED BY <2>1, <2>8 DEF VerifyTyped, WalkShape
<1>5. CASE VerifyEnd
  <2>1. /\ walk.at \in {"good", "broken"} /\ walk' = Idle /\ UNCHANGED <<torn, head, raced>>
        /\ broken' \in {broken, walk.seq, 0} /\ verified' \in {verified, walk.last}
        /\ verifiedRow' \in {verifiedRow, walk.event}
    BY <1>5 DEF VerifyEnd, purgeVars, chainVars
  <2>2. walk # Idle
    BY <2>1 DEF Idle
  <2>3. /\ walk.seq \in Nat /\ walk.last \in Nat /\ walk.seq <= head.seq /\ walk.last <= head.seq
        /\ walk.event \in Events \cup {None}
    BY <2>2 DEF VerifyTyped, WalkShape, Walking
  <2> QED BY <1>0, <2>1, <2>3 DEF VerifyTyped, WalkShape
<1>6. ASSUME NEW gone, Discard(gone), torn' \in BOOLEAN,
             UNCHANGED <<head, verified, verifiedRow, broken, walk>>
      PROVE  VerifyTyped'
  <2>1. raced' \in BOOLEAN
    BY <1>6 DEF Discard, VerifyTyped
  <2> QED BY <1>6, <2>1 DEF VerifyTyped
<1>7. CASE DropPartition
  <2> DEFINE gone == {r \in rows : OccurredAt[r.event] < MonthEnd}
  <2>1. /\ Discard(gone) /\ UNCHANGED <<head, verified, verifiedRow, broken, walk>>
        /\ torn' = (torn \/ \E r \in gone, q \in rows \ gone : q.seq < r.seq)
    BY <1>7 DEF DropPartition
  <2> HIDE DEF gone
  <2>2. torn' \in BOOLEAN
    BY <2>1
  <2> QED BY <1>6, <2>1, <2>2
<1>8. CASE PurgeDelete
  <2> DEFINE gone == {r \in RowsAfter(0, Batch) : r.seq <= purge.upTo}
  <2>1. Discard(gone) /\ UNCHANGED <<torn, head, verified, verifiedRow, broken, walk>>
    BY <1>8 DEF PurgeDelete
  <2> QED BY <1>6, <2>1 DEF VerifyTyped
<1>9. CASE Expire \/ PurgeFind
  BY <1>1, <1>9 DEF Expire, PurgeFind
<1>10. CASE SinkRead \/ SinkDeliver \/ SinkAdvance
  BY <1>1, <1>10 DEF SinkRead, SinkDeliver, SinkAdvance, purgeVars
<1>11. CASE \E e \in Events : Publish(e)
  BY <1>1, <1>11 DEF Publish, purgeVars
<1>12. CASE \E n \in Nodes : WriterReceives(n) \/ WriterRetries(n) \/ WriterOne(n)
  BY <1>1, <1>12 DEF WriterReceives, WriterRetries, WriterOne, purgeVars
<1> QED
  BY <1>2, <1>3, <1>4, <1>5, <1>7, <1>8, <1>9, <1>10, <1>11, <1>12 DEF Next

(* Every step leaves the retention pass within the chain.                   *)
LEMMA NextPurge ==
    ASSUME ChainTyped, PurgeTyped, Next, head'.seq \in Nat, head.seq <= head'.seq
    PROVE  PurgeTyped'
<1>0. head.seq \in Nat /\ cutoff \in Nat
  BY DEF ChainTyped, PurgeTyped
<1>1. ASSUME purge' = purge, cutoff' \in Nat PROVE PurgeTyped'
  <2>1. purge.at = "delete" => purge.upTo \in Nat /\ purge.upTo <= head.seq
    BY DEF PurgeTyped, PurgeShape, Idle
  <2> QED BY <1>0, <1>1, <2>1 DEF PurgeTyped
<1>2. ASSUME purge' = Idle \/ purge' = [at |-> "find"], cutoff' \in Nat PROVE PurgeTyped'
  BY <1>2 DEF PurgeTyped, PurgeShape, Idle
<1>3. CASE Expire
  BY <1>0, <1>1, <1>3 DEF Expire
<1>4. CASE DropPartition
  BY <1>0, <1>2, <1>4 DEF DropPartition
<1>5. CASE PurgeFind
  <2>1. /\ purge' = IF Expired = {} THEN Idle ELSE [at |-> "delete", upTo |-> LastOf(Expired)]
        /\ UNCHANGED <<cutoff, head>>
    BY <1>5 DEF PurgeFind, chainVars
  <2>2. Expired \in SUBSET rows
    BY DEF Expired
  <2>3. Expired # {} => LastOf(Expired) \in Nat /\ LastOf(Expired) <= head.seq
    BY <2>2, LastOfRows
  <2>4. CASE Expired # {}
    <3>1. purge' = [at |-> "delete", upTo |-> LastOf(Expired)]
      BY <2>1, <2>4
    <3>2. purge' \in [at : {"delete"}, upTo : Nat] /\ purge'.upTo <= head'.seq
      BY <2>1, <2>3, <2>4, <3>1
    <3> QED BY <1>0, <2>1, <3>2 DEF PurgeTyped, PurgeShape
  <2> QED BY <1>0, <1>2, <2>1, <2>4
<1>6. CASE PurgeDelete
  BY <1>0, <1>1, <1>2, <1>6 DEF PurgeDelete
<1>7. CASE UNCHANGED purgeVars
  BY <1>0, <1>1, <1>7 DEF purgeVars
<1> QED
  BY <1>3, <1>4, <1>5, <1>6, <1>7
  DEF Next, Publish, WriterReceives, WriterRetries, WriterOne, VerifyStart, VerifyCheckpoint,
      VerifyPage, VerifyEnd, SinkRead, SinkDeliver, SinkAdvance

(* Every step leaves the export pass within the chain.                      *)
LEMMA NextSink ==
    ASSUME WritersTyped, ChainTyped, SinkTyped, Next, head'.seq \in Nat, head.seq <= head'.seq
    PROVE  SinkTyped'
<1>0. head.seq \in Nat /\ sinkSeq \in Nat /\ sinkSeq <= head.seq /\ faults \in Nat
  BY DEF ChainTyped, SinkTyped
<1>1. ASSUME sink' = sink, sinkSeq' = sinkSeq, faults' = faults \/ Fault PROVE SinkTyped'
  <2>1. sink # Idle => \A s \in sink.seqs : s <= head'.seq
    <3>1. sink # Idle => sink.seqs \subseteq Nat /\ \A s \in sink.seqs : s <= head.seq
      BY DEF SinkTyped, SinkShape
    <3> QED BY <1>0, <3>1
  <2>2. faults' \in Nat
    BY <1>0, <1>1 DEF Fault
  <2>3. sinkSeq' \in 0..head'.seq
    BY <1>0, <1>1
  <2> QED BY <1>1, <2>1, <2>2, <2>3 DEF SinkTyped
<1>2. CASE SinkRead
  <2> DEFINE S == {r.seq : r \in RowsAfter(sinkSeq, Batch)}
  <2>1. /\ sink' = [at |-> IF RowsAfter(sinkSeq, Batch) = {} THEN "leap" ELSE "deliver", seqs |-> S]
        /\ UNCHANGED <<sinkSeq, faults, head>>
    BY <1>2 DEF SinkRead, chainVars
  <2>2. S \subseteq Seqs
    BY DEF RowsAfter, Seqs
  <2>3. S \subseteq Nat /\ \A s \in S : s <= head.seq
    BY <2>2, SeqsBounded
  <2> HIDE DEF S
  <2>4. /\ sink' \in [at : {"deliver", "advance", "leap"}, seqs : SUBSET Nat]
        /\ \A s \in sink'.seqs : s <= head.seq
    BY <2>1, <2>3
  <2> QED BY <1>0, <2>1, <2>4 DEF SinkTyped, SinkShape
<1>3. CASE SinkDeliver
  <2>1. /\ sink.at = "deliver" /\ UNCHANGED <<sinkSeq, head>>
        /\ sink' = Idle \/ sink' = [sink EXCEPT !.at = "advance"]
        /\ faults' = faults \/ Fault
    BY <1>3 DEF SinkDeliver, chainVars
  <2>2. sink # Idle
    BY <2>1 DEF Idle
  <2>3. /\ sink \in [at : {"deliver", "advance", "leap"}, seqs : SUBSET Nat]
        /\ \A s \in sink.seqs : s <= head.seq
    BY <2>2 DEF SinkTyped, SinkShape
  <2>4. \/ sink' = Idle
        \/ /\ sink' \in [at : {"deliver", "advance", "leap"}, seqs : SUBSET Nat]
           /\ sink'.seqs = sink.seqs
    BY <2>1, <2>3
  <2>5. faults' \in Nat
    BY <1>0, <2>1 DEF Fault
  <2> QED BY <1>0, <2>1, <2>3, <2>4, <2>5 DEF SinkTyped, SinkShape
<1>4. CASE SinkAdvance
  <2>1. /\ sink.at \in {"advance", "leap"} /\ sink' = Idle /\ UNCHANGED <<head, faults>>
        /\ sinkSeq' = IF sink.at = "leap" THEN head.seq ELSE Max(sink.seqs \cup {sinkSeq})
    BY <1>4 DEF SinkAdvance, chainVars
  <2>2. sink # Idle
    BY <2>1 DEF Idle
  <2>3. sink.seqs \subseteq Nat /\ \A s \in sink.seqs : s <= head.seq
    BY <2>2 DEF SinkTyped, SinkShape
  <2> DEFINE S == sink.seqs \cup {sinkSeq}
  <2>4. S \in SUBSET Nat /\ S # {} /\ \A t \in S : t <= head.seq
    BY <1>0, <2>3
  <2> HIDE DEF S
  <2>5. Max(S) \in S
    BY <1>0, <2>4, MaxOf
  <2>6. sinkSeq' = head.seq \/ sinkSeq' = Max(S)
    BY <2>1 DEF S
  <2>7. \E m \in Nat : m <= head.seq /\ sinkSeq' = m
    <3>1. CASE sinkSeq' = head.seq
      BY <1>0, <3>1
    <3>2. CASE sinkSeq' = Max(S)
      BY <2>4, <2>5, <3>2
    <3> QED BY <2>6, <3>1, <3>2
  <2>8. sinkSeq' \in 0..head'.seq
    BY <1>0, <2>1, <2>7
  <2> QED BY <1>0, <2>1, <2>8 DEF SinkTyped, SinkShape
<1>5. CASE UNCHANGED sinkVars /\ UNCHANGED faults
  BY <1>1, <1>5 DEF sinkVars
<1>6. ASSUME NEW n \in Nodes, WriterReceives(n) \/ WriterRetries(n) \/ WriterOne(n)
      PROVE  SinkTyped'
  BY <1>1, <1>6, WritersStep DEF sinkVars
<1> QED
  BY <1>2, <1>3, <1>4, <1>5, <1>6
  DEF Next, Publish, VerifyStart, VerifyCheckpoint, VerifyPage, VerifyEnd, Expire, DropPartition,
      PurgeFind, PurgeDelete

(* Every step keeps the types.                                              *)
LEMMA NextTyped == ASSUME Typed, [Next]_vars PROVE Typed'
<1>1. CASE UNCHANGED vars
  BY <1>1
  DEF vars, writerVars, chainVars, verifyVars, purgeVars, sinkVars, Typed, WritersTyped,
      ChainTyped, VerifyTyped, PurgeTyped, SinkTyped
<1>2. CASE Next
  <2>1. WritersTyped'
    BY NextWriters DEF Typed
  <2>2. ChainTyped' /\ head'.seq \in Nat /\ head.seq <= head'.seq
    BY <1>2, ChainSteps, ChainTypes DEF Typed
  <2> QED BY <1>2, <2>1, <2>2, NextVerify, NextPurge, NextSink DEF Typed
<1> QED BY <1>1, <1>2

(* The initial state is typed.                                              *)
LEMMA InitTyped == ASSUME Init PROVE Typed
<1>1. <<>> \in Seq(Events) /\ Len(<<>>) = 0 /\ Limit \in Nat
  BY AuditAssumption
<1>2. WritersTyped
  BY <1>1 DEF Init, WritersTyped
<1>3. ChainTyped
  BY DEF Init, ChainTyped
<1>4. VerifyTyped
  <2>1. head.seq = 0 /\ 0 \in 0..0
    BY DEF Init
  <2> QED BY <2>1 DEF Init, VerifyTyped, WalkShape
<1>5. PurgeTyped
  BY DEF Init, PurgeTyped, PurgeShape, Idle
<1>6. SinkTyped
  BY DEF Init, SinkTyped, SinkShape
<1> QED BY <1>2, <1>3, <1>4, <1>5, <1>6 DEF Typed

(* Type correctness: no writer parks more than its limit, and no position   *)
(* kept beside the chain (verified, broken, the sink's cursor) is past it.  *)
THEOREM TypeCorrect == Spec => []TypeOK
<1>1. Typed => TypeOK
  BY DEF Typed, WritersTyped, ChainTyped, VerifyTyped, PurgeTyped, SinkTyped, TypeOK, RowShape,
         WalkShape, Walking, PurgeShape, SinkShape, Idle
<1> QED BY <1>1, InitTyped, NextTyped, PTL DEF Spec

-----------------------------------------------------------------------------
(* The chain stays linked.                                                  *)

(* An append follows the head and numbers on.                               *)
LEMMA AppendKeepsLinks ==
    ASSUME ChainTyped, LinkInv, NEW events \in Seq(Events), events # <<>>, RecordChain(events),
           UNCHANGED torn
    PROVE  LinkInv'
<1> DEFINE k == Len(events)  new(i) == NewRow(events, i)
<1>1. /\ k \in Nat \ {0} /\ head.seq \in Nat /\ \A i \in 1..k : events[i] \in Events
      /\ rows' = rows \cup {new(i) : i \in 1..k}
      /\ head'.seq = head.seq + k /\ head'.event = events[k]
      /\ \A i \in 1..k : /\ new(i).seq = head.seq + i /\ new(i).event = events[i]
                         /\ new(i).prev = IF i = 1 THEN head.event ELSE events[i - 1]
  BY Appended
<1>2. \A r \in rows : r.seq \in Nat /\ r.seq <= head.seq
  BY DEF ChainTyped, RowShape
<1> HIDE DEF k, new
<1>3. ASSUME NEW r \in rows', NEW q \in rows', r.seq = q.seq PROVE r = q
  <2>1. CASE r \in rows /\ q \in rows
    BY <1>3, <2>1 DEF LinkInv
  <2>2. ASSUME NEW i \in 1..k, r = new(i) PROVE r = q
    <3>1. r.seq = head.seq + i
      BY <1>1, <2>2
    <3>2. q \notin rows
      BY <1>1, <1>2, <1>3, <2>2, <3>1
    <3>3. PICK j \in 1..k : q = new(j)
      BY <1>1, <3>2
    <3>4. q.seq = head.seq + j
      BY <1>1, <3>3
    <3>5. i = j
      BY <1>1, <1>3, <2>2, <3>1, <3>3, <3>4
    <3> QED BY <2>2, <3>3, <3>5
  <2>3. ASSUME NEW i \in 1..k, q = new(i), r \in rows PROVE r = q
    <3>1. q.seq = head.seq + i
      BY <1>1, <2>3
    <3> QED BY <1>1, <1>2, <1>3, <2>3, <3>1
  <2> QED BY <1>1, <2>1, <2>2, <2>3
<1>4. ASSUME NEW r \in rows', NEW q \in rows', q.seq + 1 = r.seq PROVE r.prev = q.event
  <2>1. CASE r \in rows /\ q \in rows
    BY <1>4, <2>1 DEF LinkInv
  <2>2. ASSUME NEW i \in 1..k, r = new(i), q \in rows PROVE r.prev = q.event
    <3>1. /\ r.seq = head.seq + i /\ r.prev = IF i = 1 THEN head.event ELSE events[i - 1]
          /\ q.seq \in Nat /\ q.seq <= head.seq
      BY <1>1, <1>2, <2>2
    <3>4. head.seq \in Nat /\ i \in Nat /\ i >= 1
      BY <1>1
    <3>2. i = 1 /\ q.seq = head.seq
      BY <1>4, <3>1, <3>4
    <3>3. q.event = head.event
      BY <2>2, <3>2 DEF LinkInv
    <3> QED BY <3>1, <3>2, <3>3
  <2>3. ASSUME NEW i \in 1..k, r = new(i), NEW j \in 1..k, q = new(j) PROVE r.prev = q.event
    <3>1. /\ r.seq = head.seq + i /\ r.prev = IF i = 1 THEN head.event ELSE events[i - 1]
          /\ q.seq = head.seq + j /\ q.event = events[j]
      BY <1>1, <2>3
    <3>2. i # 1 /\ i - 1 = j
      BY <1>1, <1>4, <3>1
    <3> QED BY <3>1, <3>2
  <2>4. ASSUME r \in rows, NEW j \in 1..k, q = new(j) PROVE FALSE
    <3>1. q.seq = head.seq + j /\ r.seq \in Nat /\ r.seq <= head.seq
      BY <1>1, <1>2, <2>4
    <3> QED BY <1>1, <1>4, <3>1
  <2> QED BY <1>1, <2>1, <2>2, <2>3, <2>4
<1>5. ASSUME NEW r \in rows', r.seq = head'.seq PROVE r.event = head'.event
  <2>1. r \notin rows
    BY <1>1, <1>2, <1>5
  <2>2. PICK i \in 1..k : r = new(i)
    BY <1>1, <2>1
  <2>3. r.seq = head.seq + i /\ r.event = events[i]
    BY <1>1, <2>2
  <2>4. i = k
    BY <1>1, <1>5, <2>3
  <2> QED BY <1>1, <2>3, <2>4
<1>6. ASSUME ~ torn, NEW r \in rows', NEW s \in r.seq..head'.seq PROVE s \in Seqs'
  <2>0. r.seq \in Nat
    <3>1. ASSUME NEW i \in 1..k, r = new(i) PROVE r.seq \in Nat
      BY <1>1, <3>1
    <3> QED BY <1>1, <1>2, <3>1
  <2>1. s \in Nat /\ r.seq <= s /\ s <= head.seq + k
    BY <1>1, <1>6, <2>0
  <2>2. CASE s <= head.seq
    <3>1. r \in rows
      <4> SUFFICES ASSUME NEW i \in 1..k, r = new(i) PROVE FALSE
        BY <1>1
      <4>1. r.seq = head.seq + i
        BY <1>1
      <4> QED BY <1>1, <2>1, <2>2, <4>1
    <3>2. s \in r.seq..head.seq
      BY <1>1, <1>2, <2>1, <2>2, <3>1
    <3>3. s \in Seqs
      BY <1>6, <3>1, <3>2 DEF LinkInv
    <3> QED BY <1>1, <3>3 DEF Seqs
  <2>3. CASE s > head.seq
    <3> DEFINE i == s - head.seq
    <3>1. i \in 1..k /\ head.seq + i = s
      BY <1>1, <2>1, <2>3
    <3> HIDE DEF i
    <3>2. new(i) \in rows' /\ new(i).seq = s
      BY <1>1, <3>1
    <3> QED BY <3>2 DEF Seqs
  <2> QED BY <1>1, <2>1, <2>2, <2>3
<1> QED BY <1>3, <1>4, <1>5, <1>6 DEF LinkInv

(* Removing rows keeps the rest linked when no row after a kept one goes.   *)
LEMMA DiscardKeepsLinks ==
    ASSUME ChainTyped, LinkInv, NEW gone, Discard(gone), UNCHANGED head, torn \in BOOLEAN,
           ~ torn' => ~ torn /\ \A r \in gone, q \in rows \ gone : ~ q.seq < r.seq
    PROVE  LinkInv'
<1>1. rows' = rows \ gone /\ head' = head
  BY DEF Discard
<1>2. ASSUME ~ torn', NEW r \in rows', NEW s \in r.seq..head'.seq PROVE s \in Seqs'
  <2>1. r \in rows /\ s \in Seqs
    BY <1>1, <1>2 DEF LinkInv
  <2>2. PICK q \in rows : q.seq = s
    BY <2>1 DEF Seqs
  <2>3. q.seq \in Nat /\ r.seq \in Nat /\ head.seq \in Nat
    BY <2>1 DEF ChainTyped, RowShape
  <2>4. r.seq <= q.seq
    BY <1>1, <1>2, <2>2, <2>3
  <2>5. CASE r.seq = q.seq
    <3>1. r = q
      BY <2>1, <2>5 DEF LinkInv
    <3> QED BY <1>2, <2>2, <3>1 DEF Seqs
  <2>6. CASE r.seq < q.seq
    <3>1. q \notin gone
      BY <1>1, <1>2, <2>1, <2>6
    <3> QED BY <1>1, <2>2, <3>1 DEF Seqs
  <2> QED BY <2>3, <2>4, <2>5, <2>6
<1> QED BY <1>1, <1>2 DEF LinkInv

(* What retention deletes up to a row is a prefix of the chain.             *)
LEMMA PurgeIsPrefix ==
    ASSUME ChainTyped, PurgeTyped, purge.at = "delete"
    PROVE  LET gone == {r \in RowsAfter(0, Batch) : r.seq <= purge.upTo}
           IN  \A r \in gone, q \in rows \ gone : ~ q.seq < r.seq
<1> DEFINE gone == {r \in RowsAfter(0, Batch) : r.seq <= purge.upTo}
<1> SUFFICES ASSUME NEW r \in gone, NEW q \in rows, q.seq < r.seq PROVE q \in gone
  OBVIOUS
<1>1. Batch \in Nat /\ 0 \in Nat /\ r \in RowsAfter(0, Batch) /\ r.seq <= purge.upTo
  BY AuditAssumption
<1>2. purge.upTo \in Nat
  BY DEF PurgeTyped, PurgeShape, Idle
<1>3. r \in rows
  BY <1>1, PageIsFirst
<1>4. r.seq \in Nat /\ q.seq \in Nat /\ 0 < q.seq
  BY <1>3 DEF ChainTyped, RowShape
<1>5. q \in RowsAfter(0, Batch)
  BY <1>1, <1>4, PageIsFirst
<1>6. q.seq <= purge.upTo
  BY <1>1, <1>2, <1>4
<1> QED BY <1>5, <1>6

(* Every step keeps the chain linked.                                       *)
LEMMA NextLink == ASSUME Typed, LinkInv, [Next]_vars PROVE LinkInv'
<1>1. CASE UNCHANGED <<chainVars, torn>>
  BY <1>1 DEF chainVars, LinkInv, Seqs
<1>2. ASSUME NEW n \in Nodes, WriterReceives(n) \/ WriterRetries(n) \/ WriterOne(n)
      PROVE  LinkInv'
  <2>1. /\ UNCHANGED torn
        /\ \/ UNCHANGED chainVars
           \/ \E events \in Seq(Events) : events # <<>> /\ RecordChain(events)
    BY <1>2, WritersStep DEF Typed, purgeVars
  <2> QED BY <1>1, <2>1, AppendKeepsLinks DEF Typed
<1>3. CASE DropPartition
  <2> DEFINE gone == {r \in rows : OccurredAt[r.event] < MonthEnd}
  <2>1. /\ Discard(gone) /\ UNCHANGED head
        /\ torn' = (torn \/ \E r \in gone, q \in rows \ gone : q.seq < r.seq)
    BY <1>3 DEF DropPartition
  <2> HIDE DEF gone
  <2>2. ~ torn' => ~ torn /\ \A r \in gone, q \in rows \ gone : ~ q.seq < r.seq
    BY <2>1
  <2> QED BY <2>1, <2>2, DiscardKeepsLinks DEF Typed, VerifyTyped
<1>4. CASE PurgeDelete
  <2> DEFINE gone == {r \in RowsAfter(0, Batch) : r.seq <= purge.upTo}
  <2>1. Discard(gone) /\ UNCHANGED <<head, torn>> /\ purge.at = "delete"
    BY <1>4 DEF PurgeDelete
  <2>2. \A r \in gone, q \in rows \ gone : ~ q.seq < r.seq
    BY <2>1, PurgeIsPrefix DEF Typed
  <2> HIDE DEF gone
  <2> QED BY <2>1, <2>2, DiscardKeepsLinks DEF Typed, VerifyTyped
<1>5. CASE UNCHANGED vars
  BY <1>1, <1>5 DEF vars, purgeVars
<1> QED
  BY <1>1, <1>2, <1>3, <1>4, <1>5
  DEF Next, Publish, VerifyStart, VerifyCheckpoint, VerifyPage, VerifyEnd, Expire, PurgeFind,
      SinkRead, SinkDeliver, SinkAdvance, purgeVars

(* The empty chain is linked.                                               *)
LEMMA InitLink == ASSUME Init PROVE LinkInv
  BY DEF Init, LinkInv

(* A row that is not the first retained one follows another.                *)
LEMMA LinkedIsRetained == ASSUME Typed, LinkInv PROVE RetainedIsLinked
<1> SUFFICES ASSUME ~ torn, NEW r \in rows, r.seq # Min(Seqs)
             PROVE  \E q \in rows : q.seq + 1 = r.seq /\ r.prev = q.event
  BY DEF RetainedIsLinked, LinkInv
<1>1. r.seq \in Seqs
  BY DEF Seqs
<1>2. Seqs \in SUBSET Nat /\ Seqs # {} /\ head.seq \in Nat /\ \A t \in Seqs : t <= head.seq
  BY <1>1, SeqsBounded DEF Typed
<1>3. Min(Seqs) \in Seqs /\ \A t \in Seqs : Min(Seqs) <= t
  BY <1>2, MinOf
<1>4. PICK m \in rows : m.seq = Min(Seqs)
  BY <1>3 DEF Seqs
<1>5. m.seq \in Nat /\ r.seq \in Nat /\ m.seq <= r.seq /\ r.seq <= head.seq /\ m.seq # r.seq
  BY <1>1, <1>2, <1>3, <1>4
<1>6. r.seq - 1 \in m.seq..head.seq
  BY <1>2, <1>5
<1>7. r.seq - 1 \in Seqs
  BY <1>6 DEF LinkInv
<1>8. PICK q \in rows : q.seq = r.seq - 1
  BY <1>7 DEF Seqs
<1>9. q.seq + 1 = r.seq
  BY <1>5, <1>8
<1> QED BY <1>9 DEF LinkInv

(* What retention leaves of the chain is one piece, every row linked to the *)
(* one before it (record_chain, purge_prefix): unless a dropped partition   *)
(* held a row later in the chain than one that was kept.                    *)
THEOREM Retained == Spec => []RetainedIsLinked
<1> DEFINE I == Typed /\ LinkInv
<1>1. Init => I
  BY InitTyped, InitLink
<1>2. I /\ [Next]_vars => I'
  BY NextTyped, NextLink
<1>3. I => RetainedIsLinked
  BY LinkedIsRetained
<1> QED BY <1>1, <1>2, <1>3, PTL DEF Spec

-----------------------------------------------------------------------------
(* The verification raises no false alarm.                                  *)

(* In a linked chain the next row of the walk follows the one before it.    *)
LEMMA PageFollows ==
    ASSUME Typed, LinkInv, ~ torn, NEW w, w.seq \in Nat, w.seq \in Seqs \cup {0},
           Names(w.seq, w.event), NEW r \in RowsAfter(w.seq, Page)
    PROVE  LET page == RowsAfter(w.seq, Page)
               older == {q \in page : q.seq < r.seq}
           IN  Follows(r, IF older = {} THEN w ELSE LastRow(older))
<1> DEFINE page == RowsAfter(w.seq, Page)
           older == {q \in page : q.seq < r.seq}
           b == IF older = {} THEN w ELSE LastRow(older)
<1>0. Page \in Nat /\ ChainTyped /\ head.seq \in Nat
  BY AuditAssumption DEF Typed, ChainTyped
<1>1. \A q \in page : /\ q \in rows /\ q.seq \in Nat /\ q.seq > w.seq /\ q.seq <= head.seq
                      /\ \A x \in rows : w.seq < x.seq /\ x.seq < q.seq => x \in page
  BY <1>0, PageIsFirst DEF ChainTyped, RowShape
<1>2. older \in SUBSET rows /\ \A q \in older : q \in page /\ q.seq < r.seq
  BY <1>1
<1>3. \A q \in page : q.seq < r.seq => q \in older
  OBVIOUS
<1>4. r \in page
  OBVIOUS
<1> HIDE DEF page, older
<1>5. /\ b.seq \in Nat /\ b.seq < r.seq /\ w.seq <= b.seq /\ b.seq \in Seqs \cup {0}
      /\ \A q \in page : q.seq < r.seq => q.seq <= b.seq
      /\ Names(b.seq, b.event)
  <2>1. CASE older = {}
    BY <1>1, <1>3, <1>4, <2>1
  <2>2. CASE older # {}
    <3>1. b = LastRow(older)
      BY <2>2
    <3> HIDE DEF b
    <3>2. b \in older /\ b.seq = LastOf(older) /\ b.seq \in Seqs /\ \A q \in older : q.seq <= b.seq
      BY <1>0, <1>2, <2>2, <3>1, LastOfRows
    <3>3. b \in rows /\ b.seq \in Nat /\ b.seq < r.seq /\ w.seq < b.seq
      BY <1>1, <1>2, <3>2
    <3>4. Names(b.seq, b.event)
      BY <3>3 DEF LinkInv, Names
    <3>5. w.seq <= b.seq
      BY <3>3
    <3> QED BY <1>3, <3>2, <3>3, <3>4, <3>5
  <2> QED BY <2>1, <2>2
<1> HIDE DEF b
<1>6. CASE b.seq = 0
  BY <1>6 DEF Follows, b, page, older
<1>7. CASE b.seq # 0
  <2>1. PICK x \in rows : x.seq = b.seq
    BY <1>5, <1>7 DEF Seqs
  <2>2. r \in rows /\ r.seq \in Nat /\ r.seq <= head.seq
    BY <1>1, <1>4
  <2>3. b.seq + 1 \in x.seq..head.seq
    BY <1>0, <1>5, <2>1, <2>2
  <2>4. PICK q \in rows : q.seq = b.seq + 1
    BY <2>3 DEF LinkInv, Seqs
  <2>5. q.seq = r.seq
    <3> SUFFICES ASSUME q.seq # r.seq PROVE FALSE
      OBVIOUS
    <3>1. w.seq < q.seq /\ q.seq < r.seq
      BY <1>5, <2>2, <2>4
    <3>2. q \in page
      BY <1>1, <1>4, <3>1
    <3>3. q.seq <= b.seq
      BY <1>5, <3>1, <3>2
    <3> QED BY <1>5, <2>4, <3>3
  <2>6. r.seq = b.seq + 1
    BY <2>4, <2>5
  <2>7. r.prev = x.event
    BY <2>1, <2>2, <2>6 DEF LinkInv
  <2>8. x.event = b.event
    BY <1>5, <2>1 DEF Names
  <2>9. Follows(r, b)
    BY <2>6, <2>7, <2>8 DEF Follows
  <2> QED BY <2>9 DEF b, page, older
<1> QED BY <1>6, <1>7

(* Every step: a break that is found has a cause, a walk under which        *)
(* nothing was removed stands on a row, and what it carries is that row.    *)
LEMMA NextWalk == ASSUME Typed, LinkInv, WalkInv, [Next]_vars PROVE WalkInv'
<1>0. /\ verified <= head.seq /\ head.seq \in Nat /\ verified \in Nat
      /\ walk # Idle => walk \in Walking /\ walk.seq <= head.seq /\ walk.seq \in Nat
  BY DEF Typed, VerifyTyped, WalkShape, Walking, ChainTyped
<1>a. walk.at \in {"checkpoint", "walk", "good"} => walk # Idle
  BY DEF Idle
<1>1. ASSUME UNCHANGED <<walk, verified, verifiedRow>>, raced => raced', torn => torn',
             ~ raced' => Seqs \subseteq Seqs',
             \A q \in rows' : q \in rows \/ q.seq > head.seq
      PROVE  WalkInv'
  <2>1. ASSUME NEW t \in Nat, t <= head.seq, NEW e, Names(t, e) PROVE Names(t, e)'
    BY <1>0, <1>1, <2>1 DEF Names
  <2>2. Names(verified, verifiedRow)'
    BY <1>0, <1>1, <2>1 DEF WalkInv, Names
  <2>3. walk.at \in {"checkpoint", "walk", "good"} => Names(walk.seq, walk.event)'
    BY <1>0, <1>a, <1>1, <2>1 DEF WalkInv, Names
  <2> QED BY <1>1, <2>2, <2>3 DEF WalkInv, AlarmHasACause
<1>2. ASSUME NEW gone, Discard(gone), torn => torn', UNCHANGED <<walk, verified, verifiedRow>>
      PROVE  WalkInv'
  <2>1. rows' = rows \ gone /\ raced' = (raced \/ (gone # {} /\ walk # Idle))
    BY <1>2 DEF Discard
  <2>2. CASE gone = {}
    <3>1. Seqs' = Seqs /\ raced' = raced
      BY <2>1, <2>2 DEF Seqs, Typed, VerifyTyped
    <3> QED BY <1>1, <1>2, <2>1, <3>1
  <2>3. CASE walk = Idle
    <3>1. Names(verified, verifiedRow)'
      BY <1>2, <2>1 DEF WalkInv, Names
    <3> QED BY <1>2, <2>3, <3>1 DEF WalkInv, AlarmHasACause, Idle
  <2>4. CASE gone # {} /\ walk # Idle
    BY <1>1, <1>2, <2>1, <2>4
  <2> QED BY <2>2, <2>3, <2>4
<1>3. ASSUME NEW n \in Nodes, WriterReceives(n) \/ WriterRetries(n) \/ WriterOne(n)
      PROVE  WalkInv'
  <2>1. /\ UNCHANGED <<walk, verified, verifiedRow, raced, torn>>
        /\ \/ UNCHANGED chainVars
           \/ \E events \in Seq(Events) : events # <<>> /\ RecordChain(events)
    BY <1>3, WritersStep DEF Typed, purgeVars, verifyVars
  <2>2. rows \subseteq rows'
    BY <2>1 DEF RecordChain, chainVars
  <2>3. Seqs \subseteq Seqs'
    BY <2>2 DEF Seqs
  <2>4. \A q \in rows' : q \in rows \/ q.seq > head.seq
    <3>1. CASE UNCHANGED chainVars
      BY <3>1 DEF chainVars
    <3>2. ASSUME NEW events \in Seq(Events), events # <<>>, RecordChain(events),
                 NEW q \in rows', q \notin rows
          PROVE  q.seq > head.seq
      <4>1. PICK i \in 1..Len(events) : q.seq = head.seq + i
        BY <3>2, Appended DEF Typed
      <4>2. Len(events) \in Nat
        BY <3>2, LenProperties
      <4> QED BY <1>0, <4>1, <4>2
    <3> HIDE DEF RecordChain
    <3> QED BY <2>1, <3>1, <3>2
  <2> QED BY <1>1, <2>1, <2>3, <2>4
<1>4. CASE VerifyStart
  <2>1. /\ \/ walk' = [at |-> "checkpoint", seq |-> verified, event |-> verifiedRow, last |-> 0]
           \/ walk' = [at |-> "walk", seq |-> 0, event |-> None, last |-> 0]
        /\ UNCHANGED <<rows, verified, verifiedRow>>
    BY <1>4 DEF VerifyStart, chainVars
  <2>2. Names(0, None)
    BY DEF Names, Typed, ChainTyped, RowShape
  <2>3. /\ walk'.at \in {"checkpoint", "walk"} /\ walk'.last = 0
        /\ Names(walk'.seq, walk'.event) /\ (walk'.at = "walk" => walk'.seq = 0)
    BY <2>1, <2>2 DEF WalkInv
  <2>4. Names(walk'.seq, walk'.event) => Names(walk.seq, walk.event)'
    BY <2>1 DEF Names
  <2>5. Names(verified, verifiedRow)'
    BY <2>1 DEF WalkInv, Names
  <2> QED BY <2>3, <2>4, <2>5 DEF WalkInv, AlarmHasACause
<1>5. CASE VerifyCheckpoint
  <2>1. /\ walk.at = "checkpoint" /\ UNCHANGED <<rows, verified, verifiedRow>>
        /\ \/ /\ walk' = [at |-> "walk", seq |-> 0, event |-> None, last |-> 0]
           \/ /\ walk.seq \in Seqs
              /\ walk' = [walk EXCEPT !.at = IF \E r \in rows : r.seq = walk.seq
                                                               /\ r.event # walk.event
                                             THEN "broken" ELSE "walk"]
    BY <1>5 DEF VerifyCheckpoint, chainVars
  <2>2. walk \in Walking /\ Names(walk.seq, walk.event) /\ walk.last \in {0, walk.seq}
    BY <1>0, <1>a, <2>1 DEF WalkInv
  <2>3. Names(0, None)
    BY DEF Names, Typed, ChainTyped, RowShape
  <2>4. ~ \E r \in rows : r.seq = walk.seq /\ r.event # walk.event
    BY <2>2 DEF Names
  <2>5. /\ walk'.at = "walk" /\ walk'.last \in {0, walk'.seq}
        /\ Names(walk'.seq, walk'.event) /\ walk'.seq \in Seqs \cup {0}
    <3>1. CASE walk' = [at |-> "walk", seq |-> 0, event |-> None, last |-> 0]
      BY <2>3, <3>1
    <3>2. CASE walk.seq \in Seqs /\ walk' = [walk EXCEPT !.at = "walk"]
      BY <2>2, <3>2 DEF Walking
    <3> QED BY <2>1, <2>4, <3>1, <3>2
  <2>6. Names(walk'.seq, walk'.event) => Names(walk.seq, walk.event)'
    BY <2>1 DEF Names
  <2>7. Names(verified, verifiedRow)' /\ Seqs' = Seqs
    BY <2>1 DEF WalkInv, Names, Seqs
  <2> QED BY <2>5, <2>6, <2>7 DEF WalkInv, AlarmHasACause
<1>6. CASE VerifyPage
  <2> DEFINE page == RowsAfter(walk.seq, Page)
             before(r) == LET older == {q \in page : q.seq < r.seq}
                          IN  IF older = {} THEN walk ELSE LastRow(older)
  <2>1. walk.at = "walk" /\ UNCHANGED <<rows, raced, torn, verified, verifiedRow>>
    BY <1>6 DEF VerifyPage, chainVars, purgeVars
  <2>2. /\ walk \in Walking /\ walk.seq \in Nat /\ Names(walk.seq, walk.event)
        /\ walk.last \in {0, walk.seq}
    BY <1>0, <1>a, <2>1 DEF WalkInv
  <2>3. page \in SUBSET rows
    BY DEF RowsAfter
  <2>4. page # {} => /\ LastOf(page) \in Seqs /\ LastRow(page) \in rows
                     /\ LastRow(page).seq = LastOf(page)
    BY <2>3, LastOfRows DEF Typed
  <2>5. page # {} => Names(LastOf(page), LastRow(page).event)
    BY <2>4 DEF LinkInv, Names
  <2>6. ~ torn /\ ~ raced => \A r \in page : Follows(r, before(r))
    BY <2>1, <2>2, PageFollows DEF WalkInv
  <2>7. \/ /\ walk' = [at |-> "broken", seq |-> walk'.seq, event |-> None, last |-> 0]
           /\ \E r \in page : ~ Follows(r, before(r))
        \/ walk' = [walk EXCEPT !.at = "good"]
        \/ /\ page # {}
           /\ \E at \in {"good", "walk"} :
                walk' = [at |-> at, seq |-> LastOf(page), event |-> LastRow(page).event,
                         last |-> LastOf(page)]
    BY <1>6, PageOfWalk DEF Typed
  <2>8. Names(verified, verifiedRow)' /\ Seqs' = Seqs
    BY <2>1 DEF WalkInv, Names, Seqs
  <2>9. Names(walk'.seq, walk'.event) => Names(walk.seq, walk.event)'
    BY <2>1 DEF Names
  <2> HIDE DEF page, before
  <2>10. CASE /\ walk' = [at |-> "broken", seq |-> walk'.seq, event |-> None, last |-> 0]
              /\ \E r \in page : ~ Follows(r, before(r))
    <3>1. walk'.at = "broken"
      BY <2>10
    <3> QED BY <2>1, <2>6, <2>8, <2>10, <3>1 DEF WalkInv, AlarmHasACause
  <2>11. CASE walk' = [walk EXCEPT !.at = "good"]
    <3>1. walk'.at = "good" /\ walk'.seq = walk.seq /\ walk'.event = walk.event /\ walk'.last = walk.last
      BY <2>2, <2>11 DEF Walking
    <3> QED BY <2>2, <2>8, <2>9, <3>1 DEF WalkInv, AlarmHasACause
  <2>12. ASSUME page # {}, NEW at \in {"good", "walk"},
                walk' = [at |-> at, seq |-> LastOf(page), event |-> LastRow(page).event,
                         last |-> LastOf(page)]
         PROVE  WalkInv'
    <3>1. /\ walk'.at = at /\ walk'.seq = LastOf(page) /\ walk'.event = LastRow(page).event
          /\ walk'.last = LastOf(page)
      BY <2>12
    <3> QED BY <2>4, <2>5, <2>8, <2>9, <2>12, <3>1 DEF WalkInv, AlarmHasACause
  <2> QED BY <2>7, <2>10, <2>11, <2>12
<1>7. CASE VerifyEnd
  <2>1. /\ walk' = Idle /\ UNCHANGED rows
        /\ \/ UNCHANGED <<verified, verifiedRow>>
           \/ /\ walk.at = "good" /\ walk.last # 0
              /\ verified' = walk.last /\ verifiedRow' = walk.event
    BY <1>7 DEF VerifyEnd, chainVars
  <2>2. Names(verified', verifiedRow')
    BY <2>1 DEF WalkInv
  <2>3. Names(verified, verifiedRow)'
    BY <2>1, <2>2 DEF Names
  <2> QED BY <2>1, <2>3 DEF WalkInv, AlarmHasACause, Idle
<1>8. CASE DropPartition
  <2> DEFINE gone == {r \in rows : OccurredAt[r.event] < MonthEnd}
  <2>1. /\ Discard(gone) /\ UNCHANGED <<walk, verified, verifiedRow>>
        /\ torn' = (torn \/ \E r \in gone, q \in rows \ gone : q.seq < r.seq)
    BY <1>8 DEF DropPartition
  <2> QED BY <1>2, <2>1
<1>9. CASE PurgeDelete
  BY <1>2, <1>9 DEF PurgeDelete
<1>10. CASE UNCHANGED <<chainVars, verifyVars, torn>>
  BY <1>1, <1>10 DEF chainVars, verifyVars, Seqs
<1> QED
  BY <1>3, <1>4, <1>5, <1>6, <1>7, <1>8, <1>9, <1>10
  DEF Next, vars, Publish, Expire, PurgeFind, SinkRead, SinkDeliver, SinkAdvance, purgeVars

(* No verification has begun.                                               *)
LEMMA InitWalk == ASSUME Init PROVE WalkInv
  BY DEF Init, WalkInv, Names, AlarmHasACause, Idle

(* No false alarm: the verification (verify_one) that finds a break walked  *)
(* a torn chain, or had rows removed under it by retention.                 *)
THEOREM Alarm == Spec => []AlarmHasACause
<1> DEFINE I == Typed /\ LinkInv /\ WalkInv
<1>1. Init => I
  BY InitTyped, InitLink, InitWalk
<1>2. I /\ [Next]_vars => I'
  BY NextTyped, NextLink, NextWalk
<1>3. I => AlarmHasACause
  BY DEF WalkInv
<1> QED BY <1>1, <1>2, <1>3, PTL DEF Spec

-----------------------------------------------------------------------------
(* The export worker.                                                       *)

(* Every step: what the cursor has passed was shipped, purged or leapt.     *)
LEMMA NextExport == ASSUME Typed, SinkInv, [Next]_vars PROVE SinkInv'
<1>0. head.seq \in Nat /\ sinkSeq \in Nat /\ sinkSeq <= head.seq
  BY DEF Typed, ChainTyped, SinkTyped
<1>1. ASSUME UNCHANGED sinkVars, purged \subseteq purged', 1..head'.seq \subseteq Seqs' \cup purged'
      PROVE  SinkInv'
  <2>1. SinkSkipsOnlyInALeap'
    BY <1>1 DEF SinkInv, SinkSkipsOnlyInALeap, sinkVars
  <2> QED BY <1>1, <2>1 DEF SinkInv, sinkVars
<1>2. CASE UNCHANGED <<chainVars, purged, sinkVars>>
  BY <1>1, <1>2 DEF SinkInv, chainVars, Seqs
<1>3. ASSUME NEW n \in Nodes, WriterReceives(n) \/ WriterRetries(n) \/ WriterOne(n)
      PROVE  SinkInv'
  <2>1. /\ UNCHANGED <<sinkVars, purged>>
        /\ \/ UNCHANGED chainVars
           \/ \E events \in Seq(Events) : events # <<>> /\ RecordChain(events)
    BY <1>3, WritersStep DEF Typed, purgeVars
  <2>2. ASSUME NEW events \in Seq(Events), events # <<>>, RecordChain(events) PROVE SinkInv'
    <3> DEFINE k == Len(events)  new(i) == NewRow(events, i)
    <3>1. /\ k \in Nat \ {0} /\ rows' = rows \cup {new(i) : i \in 1..k}
          /\ head'.seq = head.seq + k /\ \A i \in 1..k : new(i).seq = head.seq + i
      BY <2>2, Appended DEF Typed
    <3> HIDE DEF k, new
    <3>2. ASSUME NEW s \in 1..head'.seq PROVE s \in Seqs' \cup purged
      <4>1. CASE s <= head.seq
        <5>1. s \in Seqs \cup purged
          BY <1>0, <3>1, <4>1 DEF SinkInv
        <5> QED BY <3>1, <5>1 DEF Seqs
      <4>2. CASE s > head.seq
        <5> DEFINE i == s - head.seq
        <5>1. i \in 1..k /\ head.seq + i = s
          BY <1>0, <3>1, <4>2
        <5> HIDE DEF i
        <5>2. new(i) \in rows' /\ new(i).seq = s
          BY <3>1, <5>1
        <5> QED BY <5>2 DEF Seqs
      <4> QED BY <1>0, <3>1, <4>1, <4>2
    <3> QED BY <1>1, <2>1, <3>2
  <2> QED BY <1>2, <2>1, <2>2
<1>4. ASSUME NEW gone, Discard(gone), UNCHANGED <<head, sinkVars>> PROVE SinkInv'
  <2>1. rows' = rows \ gone /\ purged' = purged \cup {r.seq : r \in gone}
    BY <1>4 DEF Discard
  <2>2. Seqs \cup purged \subseteq Seqs' \cup purged'
    BY <2>1 DEF Seqs
  <2> QED BY <1>1, <1>4, <2>1, <2>2 DEF SinkInv
<1>5. CASE DropPartition
  BY <1>4, <1>5 DEF DropPartition
<1>6. CASE PurgeDelete
  BY <1>4, <1>6 DEF PurgeDelete
<1>7. CASE SinkRead
  <2> DEFINE page == RowsAfter(sinkSeq, Batch)  S == {r.seq : r \in page}
  <2>1. /\ sink' = [at |-> IF page = {} THEN "leap" ELSE "deliver", seqs |-> S]
        /\ UNCHANGED <<sinkSeq, shipped, leapt, rows, head, purged>>
    BY <1>7 DEF SinkRead, chainVars, purgeVars
  <2>2. ASSUME NEW s \in Nat, NEW t \in S, sinkSeq < s, s <= t PROVE s \in S \cup purged
    <3>1. PICK r \in page : r.seq = t
      OBVIOUS
    <3>2. /\ r \in rows /\ \A q \in rows : sinkSeq < q.seq /\ q.seq < r.seq => q \in page
      BY <1>0, <3>1, PageIsFirst, AuditAssumption DEF Typed
    <3>3. r.seq \in Nat /\ r.seq <= head.seq
      BY <3>2 DEF Typed, ChainTyped, RowShape
    <3>4. s \in 1..head.seq
      BY <1>0, <2>2, <3>1, <3>3
    <3>5. s \in Seqs \cup purged
      BY <3>4 DEF SinkInv
    <3>6. ASSUME NEW q \in rows, q.seq = s PROVE s \in S
      <4>1. CASE s = t
        BY <4>1
      <4>2. CASE s < t
        <5>1. q \in page
          BY <2>2, <3>1, <3>2, <3>6, <4>2
        <5> QED BY <3>6, <5>1
      <4> QED BY <2>2, <3>1, <3>3, <4>1, <4>2
    <3> HIDE DEF S
    <3> QED BY <3>5, <3>6 DEF Seqs
  <2> HIDE DEF page, S
  <2>3. sink'.at \in {"leap", "deliver"} /\ sink'.seqs = S
    BY <2>1
  <2>4. Seqs' = Seqs /\ SinkSkipsOnlyInALeap'
    BY <2>1 DEF Seqs, SinkInv, SinkSkipsOnlyInALeap
  <2> QED BY <2>1, <2>2, <2>3, <2>4 DEF SinkInv
<1>8. CASE SinkDeliver
  <2>1. /\ sink.at = "deliver" /\ UNCHANGED <<sinkSeq, leapt, rows, head, purged>>
        /\ \/ shipped' = shipped \cup sink.seqs /\ sink' = [sink EXCEPT !.at = "advance"]
           \/ sink' = Idle /\ shipped' \in {shipped, shipped \cup sink.seqs}
    BY <1>8 DEF SinkDeliver, chainVars, purgeVars
  <2>2. sink # Idle
    BY <2>1 DEF Idle
  <2>3. sink \in [at : {"deliver", "advance", "leap"}, seqs : SUBSET Nat]
    BY <2>2 DEF Typed, SinkTyped, SinkShape
  <2>4. Seqs' = Seqs /\ SinkSkipsOnlyInALeap'
    BY <2>1 DEF Seqs, SinkInv, SinkSkipsOnlyInALeap
  <2>5. CASE shipped' = shipped \cup sink.seqs /\ sink' = [sink EXCEPT !.at = "advance"]
    <3>1. sink'.at = "advance" /\ sink'.seqs = sink.seqs
      BY <2>3, <2>5
    <3> QED BY <2>1, <2>4, <2>5, <3>1 DEF SinkInv
  <2>6. CASE sink' = Idle
    BY <2>1, <2>4, <2>6 DEF SinkInv, Idle
  <2> QED BY <2>1, <2>5, <2>6
<1>9. CASE SinkAdvance
  <2>1. /\ sink.at \in {"advance", "leap"} /\ sink' = Idle
        /\ UNCHANGED <<rows, head, purged, shipped>>
        /\ sinkSeq' = IF sink.at = "leap" THEN head.seq ELSE Max(sink.seqs \cup {sinkSeq})
        /\ leapt' = IF sink.at = "leap" THEN leapt \cup (Seqs \ 1..sinkSeq) ELSE leapt
    BY <1>9 DEF SinkAdvance, chainVars, purgeVars
  <2>2. sink # Idle
    BY <2>1 DEF Idle
  <2>3. sink.seqs \subseteq Nat /\ \A s \in sink.seqs : s <= head.seq
    BY <2>2 DEF Typed, SinkTyped, SinkShape
  <2>4. ASSUME NEW s \in 1..sinkSeq' PROVE s \in shipped' \cup purged' \cup leapt'
    <3>1. s \in 1..sinkSeq => s \in shipped \cup purged \cup leapt
      BY DEF SinkInv, SinkSkipsOnlyInALeap
    <3>2. CASE sink.at = "leap"
      <4>1. s \in 1..head.seq
        BY <2>1, <3>2
      <4>2. s \in Seqs \cup purged
        BY <4>1 DEF SinkInv
      <4> QED BY <2>1, <3>1, <3>2, <4>2
    <3>3. CASE sink.at = "advance"
      <4> DEFINE S == sink.seqs \cup {sinkSeq}
      <4>1. S \in SUBSET Nat /\ S # {} /\ \A t \in S : t <= head.seq
        BY <1>0, <2>3
      <4>2. sinkSeq' = Max(S)
        BY <2>1, <3>3
      <4> HIDE DEF S
      <4>3. PICK m \in S : sinkSeq' = m
        BY <1>0, <4>1, <4>2, MaxOf
      <4>4. s \in Nat /\ 1 <= s /\ s <= m /\ m \in Nat
        BY <4>1, <4>3
      <4>5. CASE s <= sinkSeq
        <5>1. s \in 1..sinkSeq
          BY <1>0, <4>4, <4>5
        <5> QED BY <2>1, <3>1, <3>3, <5>1
      <4>6. CASE sinkSeq < s
        <5>1. m \in sink.seqs
          BY <1>0, <4>3, <4>4, <4>6 DEF S
        <5>2. s \in sink.seqs \cup purged
          BY <3>3, <4>4, <4>6, <5>1 DEF SinkInv
        <5>3. sink.seqs \subseteq shipped
          BY <3>3 DEF SinkInv
        <5> QED BY <2>1, <5>2, <5>3
      <4> QED BY <1>0, <4>4, <4>5, <4>6
    <3> QED BY <2>1, <3>2, <3>3
  <2>5. SinkSkipsOnlyInALeap' /\ Seqs' = Seqs
    BY <2>1, <2>4 DEF SinkSkipsOnlyInALeap, Seqs
  <2> QED BY <2>1, <2>5 DEF SinkInv, Idle
<1> QED
  BY <1>2, <1>3, <1>5, <1>6, <1>7, <1>8, <1>9
  DEF Next, vars, Publish, VerifyStart, VerifyCheckpoint, VerifyPage, VerifyEnd, Expire,
      PurgeFind, purgeVars

(* Nothing has been exported.                                               *)
LEMMA InitExport == ASSUME Init PROVE SinkInv
<1>1. head.seq = 0 /\ sinkSeq = 0 /\ sink.at = "idle"
  BY DEF Init, Idle
<1>2. 1..0 = {}
  OBVIOUS
<1> QED BY <1>1, <1>2 DEF SinkInv, SinkSkipsOnlyInALeap

(* The one way past a row neither shipped nor purged is the leap to the     *)
(* head of now (advance_sink), over a row appended since the pass read.     *)
THEOREM Export == Spec => []SinkSkipsOnlyInALeap
<1> DEFINE I == Typed /\ SinkInv
<1>1. Init => I
  BY InitTyped, InitExport
<1>2. I /\ [Next]_vars => I'
  BY NextTyped, NextExport
<1>3. I => SinkSkipsOnlyInALeap
  BY DEF SinkInv
<1> QED BY <1>1, <1>2, <1>3, PTL DEF Spec

-----------------------------------------------------------------------------
(* The order of the events.                                                 *)

(* No event is before itself.                                               *)
LEMMA NotBeforeItself ==
    ASSUME NEW p \in Seq(Events), NEW n, Once(p, n), NEW e PROVE ~ Before(p, e, e)
  BY LenProperties DEF Once, Before

(* What is published next comes last.                                       *)
LEMMA PublishedLast ==
    ASSUME NEW p \in Seq(Events), NEW e \in Events
    PROVE  /\ \A x, y : Before(p, x, y) => Before(Append(p, e), x, y)
           /\ \A x \in Range(p) : Before(Append(p, e), x, e)
           /\ Range(Append(p, e)) = Range(p) \cup {e}
<1> DEFINE q == Append(p, e)
<1>1. /\ q \in Seq(Events) /\ Len(p) \in Nat /\ Len(q) = Len(p) + 1 /\ q[Len(p) + 1] = e
      /\ \A i \in 1..Len(p) : q[i] = p[i]
  BY AppendProperties
<1> HIDE DEF q
<1>2. ASSUME NEW x, NEW y, Before(p, x, y) PROVE Before(q, x, y)
  <2>1. PICK i, j \in 1..Len(p) : i < j /\ p[i] = x /\ p[j] = y
    BY <1>2 DEF Before
  <2>2. i \in 1..Len(q) /\ j \in 1..Len(q) /\ q[i] = x /\ q[j] = y
    BY <1>1, <2>1
  <2> QED BY <2>1, <2>2 DEF Before
<1>3. ASSUME NEW x \in Range(p) PROVE Before(q, x, e)
  <2>1. PICK i \in 1..Len(p) : p[i] = x
    BY <1>3, RangeEquality
  <2>2. /\ i \in 1..Len(q) /\ Len(p) + 1 \in 1..Len(q) /\ i < Len(p) + 1
        /\ q[i] = x /\ q[Len(p) + 1] = e
    BY <1>1, <2>1
  <2> QED BY <2>2 DEF Before
<1>4. Range(q) = Range(p) \cup {e}
  <2>1. Range(q) = {q[i] : i \in 1..Len(q)} /\ Range(p) = {p[i] : i \in 1..Len(p)}
    BY <1>1, RangeEquality
  <2>2. 1..Len(q) = 1..Len(p) \cup {Len(p) + 1}
    BY <1>1
  <2> QED BY <1>1, <2>1, <2>2
<1> QED BY <1>2, <1>3, <1>4 DEF q

(* The parts of a sorted sequence.                                          *)
LEMMA SortedPart ==
    ASSUME NEW p, NEW s \in Seq(Events), Sorted(p, s), NEW m \in 0..Len(s)
    PROVE  LET front == SubSeq(s, 1, m)  back == SubSeq(s, m + 1, Len(s))
           IN  /\ Sorted(p, front) /\ Sorted(p, back)
               /\ AllBefore(p, Range(front), Range(back))
               /\ Range(front) \cup Range(back) = Range(s)
<1> DEFINE front == SubSeq(s, 1, m)  back == SubSeq(s, m + 1, Len(s))
<1>1. /\ front \in Seq(Events) /\ Len(front) = m /\ \A i \in 1..m : front[i] = s[i]
      /\ back \in Seq(Events) /\ Len(back) = Len(s) - m
      /\ \A i \in 1..(Len(s) - m) : back[i] = s[i + m]
      /\ Len(s) \in Nat /\ m \in Nat /\ m <= Len(s)
  BY PartOf, LenProperties
<1> HIDE DEF front, back
<1>2. Sorted(p, front)
  BY <1>1 DEF Sorted
<1>3. Sorted(p, back)
  <2> SUFFICES ASSUME NEW i \in 1..Len(back), NEW j \in 1..Len(back), i < j
               PROVE  Before(p, back[i], back[j])
    BY DEF Sorted
  <2>1. /\ i + m \in 1..Len(s) /\ j + m \in 1..Len(s) /\ i + m < j + m
        /\ back[i] = s[i + m] /\ back[j] = s[j + m]
    BY <1>1
  <2> QED BY <2>1 DEF Sorted
<1>4. /\ Range(front) = {front[i] : i \in 1..m} /\ Range(s) = {s[i] : i \in 1..Len(s)}
      /\ Range(back) = {back[i] : i \in 1..(Len(s) - m)}
  <2>0. front \in Seq(Events) /\ back \in Seq(Events)
    BY <1>1
  <2>1. Range(front) = {front[i] : i \in 1..Len(front)}
    BY <2>0, RangeEquality, Zenon
  <2>2. Range(back) = {back[i] : i \in 1..Len(back)}
    BY <2>0, RangeEquality, Zenon
  <2>3. Range(s) = {s[i] : i \in 1..Len(s)}
    BY RangeEquality
  <2> QED BY <1>1, <2>1, <2>2, <2>3
<1>5. AllBefore(p, Range(front), Range(back))
  <2> SUFFICES ASSUME NEW i \in 1..m, NEW j \in 1..(Len(s) - m)
               PROVE  Before(p, front[i], back[j])
    BY <1>4 DEF AllBefore
  <2>1. i \in 1..Len(s) /\ j + m \in 1..Len(s) /\ i < j + m /\ front[i] = s[i] /\ back[j] = s[j + m]
    BY <1>1
  <2> QED BY <2>1 DEF Sorted
<1>6. Range(front) \cup Range(back) = Range(s)
  <2>1. ASSUME NEW i \in 1..Len(s) PROVE s[i] \in Range(front) \cup Range(back)
    <3>1. CASE i <= m
      BY <1>1, <1>4, <3>1
    <3>2. CASE i > m
      <4>1. i - m \in 1..(Len(s) - m) /\ (i - m) + m = i
        BY <1>1, <3>2
      <4>2. back[i - m] = s[i]
        BY <1>1, <4>1
      <4> QED BY <1>4, <4>1, <4>2
    <3> QED BY <1>1, <3>1, <3>2
  <2>2. ASSUME NEW i \in 1..m PROVE front[i] \in Range(s)
    <3>1. i \in 1..Len(s) /\ front[i] = s[i]
      BY <1>1
    <3> QED BY <1>4, <3>1
  <2>3. ASSUME NEW i \in 1..(Len(s) - m) PROVE back[i] \in Range(s)
    <3>1. i + m \in 1..Len(s) /\ back[i] = s[i + m]
      BY <1>1
    <3> QED BY <1>4, <3>1
  <2> QED BY <1>4, <2>1, <2>2, <2>3
<1> QED BY <1>2, <1>3, <1>5, <1>6 DEF front, back

(* Two sorted sequences, one behind the other.                              *)
LEMMA SortedConcat ==
    ASSUME NEW p, NEW s \in Seq(Events), NEW t \in Seq(Events), Sorted(p, s), Sorted(p, t),
           AllBefore(p, Range(s), Range(t))
    PROVE  Sorted(p, s \o t) /\ Range(s \o t) = Range(s) \cup Range(t)
<1> DEFINE u == s \o t
<1>1. /\ u \in Seq(Events) /\ Len(u) = Len(s) + Len(t) /\ Len(s) \in Nat /\ Len(t) \in Nat
      /\ \A i \in 1..Len(u) : u[i] = IF i <= Len(s) THEN s[i] ELSE t[i - Len(s)]
  BY ConcatProperties, LenProperties
<1>2. Range(u) = Range(s) \cup Range(t)
  BY RangeConcatenation
<1>3. /\ \A i \in 1..Len(s) : s[i] \in Range(s)
      /\ \A i \in 1..Len(t) : t[i] \in Range(t)
  BY RangeEquality
<1> HIDE DEF u
<1>4. ASSUME NEW i \in 1..Len(u), NEW j \in 1..Len(u), i < j PROVE Before(p, u[i], u[j])
  <2>1. CASE j <= Len(s)
    <3>1. i \in 1..Len(s) /\ j \in 1..Len(s) /\ u[i] = s[i] /\ u[j] = s[j]
      BY <1>1, <1>4, <2>1
    <3> QED BY <1>4, <3>1 DEF Sorted
  <2>2. CASE i <= Len(s) /\ j > Len(s)
    <3>1. i \in 1..Len(s) /\ j - Len(s) \in 1..Len(t) /\ u[i] = s[i] /\ u[j] = t[j - Len(s)]
      BY <1>1, <1>4, <2>2
    <3> QED BY <1>3, <3>1 DEF AllBefore
  <2>3. CASE i > Len(s)
    <3>1. /\ i - Len(s) \in 1..Len(t) /\ j - Len(s) \in 1..Len(t) /\ i - Len(s) < j - Len(s)
          /\ u[i] = t[i - Len(s)] /\ u[j] = t[j - Len(s)]
      BY <1>1, <1>4, <2>3
    <3> QED BY <3>1 DEF Sorted
  <2> QED BY <1>1, <2>1, <2>2, <2>3
<1> QED BY <1>2, <1>4 DEF Sorted, u

(* Nothing is in the empty sequence.                                        *)
LEMMA EmptyLine ==
    /\ <<>> \in Seq(Events) /\ Range(<<>>) = {} /\ \A p : Sorted(p, <<>>)
<1>1. <<>> \in Seq(Events) /\ Len(<<>>) = 0
  OBVIOUS
<1>2. Range(<<>>) = {<<>>[i] : i \in 1..Len(<<>>)}
  BY <1>1, RangeEquality
<1>3. 1..0 = {}
  OBVIOUS
<1>4. Range(<<>>) = {}
  BY <1>1, <1>2, <1>3
<1> QED BY <1>1, <1>3, <1>4 DEF Sorted

(* What is parked of a line keeps its order, and what is dropped is gone    *)
(* from it.                                                                 *)
LEMMA ParkInLine ==
    ASSUME NEW n, NEW p \in Seq(Events), Once(p, n), NEW s \in Seq(Events), NEW q \in Seq(Events),
           InLine(p, <<>>, s, q), NEW over \in 0..Len(s)
    PROVE  LET front == SubSeq(s, 1, over)  back == SubSeq(s, over + 1, Len(s))
           IN  /\ InLine(p, <<>>, back, q) /\ Range(back) \subseteq Range(s)
               /\ Range(front) \subseteq Range(s) \ (Range(back) \cup Range(q))
<1> DEFINE front == SubSeq(s, 1, over)  back == SubSeq(s, over + 1, Len(s))
<1>1. /\ Sorted(p, s) /\ Sorted(p, q) /\ AllBefore(p, Range(s), Range(q))
      /\ Range(s) \subseteq Range(p)
  BY DEF InLine, AllBefore
<1>2. /\ Sorted(p, back) /\ AllBefore(p, Range(front), Range(back))
      /\ Range(front) \cup Range(back) = Range(s)
  BY <1>1, SortedPart
<1> HIDE DEF front, back
<1>3. ASSUME NEW e \in Range(front) PROVE e \notin Range(back) /\ e \notin Range(q)
  <2>1. e \in Range(s)
    BY <1>2, <1>3
  <2> QED BY <1>1, <1>2, <1>3, <2>1, NotBeforeItself DEF AllBefore
<1>4. InLine(p, <<>>, back, q)
  BY <1>1, <1>2 DEF InLine, AllBefore
<1> QED BY <1>2, <1>3, <1>4 DEF front, back

(* A writer's step on its own events: those that still wait are some of     *)
(* those that did, in the same order; what it loses waits no more; and what *)
(* it records is the head of its line.                                      *)
WriterKeepsOrder(n) ==
    /\ InLine(published[n], singly'[n], parked'[n], queue'[n])
    /\ Range(queue'[n]) \subseteq Range(queue[n])
    /\ Waiting(n)' \subseteq Waiting(n)
    /\ lost' \ lost \subseteq Waiting(n) \ Waiting(n)'
    /\ \/ UNCHANGED <<chainVars, recorded>>
       \/ \E events \in Seq(Events) :
            /\ events # <<>> /\ RecordChain(events)
            /\ Range(events) \subseteq Waiting(n) /\ Sorted(published[n], events)
            /\ AllBefore(published[n], Range(events),
                         (Waiting(n) \ Range(events)) \cup Range(queue'[n]))

(* write_chain, for the first events of the writer's line.                  *)
LEMMA WriteChainInOrder ==
    ASSUME WritersTyped, NEW n \in Nodes, Once(published[n], n), singly[n] = <<>>,
           NEW events \in Seq(Events), events # <<>>, NEW rest \in Seq(Events),
           InLine(published[n], <<>>, events, rest), Waiting(n) = Range(events) \cup Range(rest),
           queue'[n] = rest, Range(rest) \subseteq Range(queue[n]), WriteChain(n, events)
    PROVE  /\ WriterKeepsOrder(n)
           /\ \A m \in Nodes \ {n} : parked'[m] = parked[m] /\ singly'[m] = singly[m]
<1> DEFINE p == published[n]
<1>1. /\ p \in Seq(Events) /\ parked \in [Nodes -> Seq(Events)] /\ singly \in [Nodes -> Seq(Events)]
  BY DEF WritersTyped
<1>2. /\ Sorted(p, events) /\ Sorted(p, rest) /\ AllBefore(p, Range(events), Range(rest))
      /\ Range(events) \subseteq Range(p) /\ Range(rest) \subseteq Range(p)
  BY DEF InLine, AllBefore
<1>3. <<>> \in Seq(Events) /\ Range(<<>>) = {} /\ Sorted(p, <<>>)
  BY EmptyLine
<1>4. AllBefore(p, Range(events), (Waiting(n) \ Range(events)) \cup Range(rest))
  BY <1>2 DEF AllBefore
<1>5. \A e \in Range(events) : e \notin Range(rest)
  BY <1>1, <1>2, NotBeforeItself DEF AllBefore
<1>6. RecordChain(events) =>
        \E es \in Seq(Events) :
            /\ es # <<>> /\ RecordChain(es)
            /\ Range(es) \subseteq Waiting(n) /\ Sorted(p, es)
            /\ AllBefore(p, Range(es), (Waiting(n) \ Range(es)) \cup Range(queue'[n]))
  <2> HIDE DEF RecordChain, Waiting
  <2> QED BY <1>2, <1>4
<1>7. InLine(p, <<>>, <<>>, rest)
  BY <1>2, <1>3 DEF InLine, AllBefore
<1> HIDE DEF RecordChain
<1>8. CASE /\ RecordChain(events) /\ parked' = [parked EXCEPT ![n] = <<>>]
           /\ UNCHANGED <<singly, lost>>
  <2>1. parked'[n] = <<>> /\ singly'[n] = <<>>
    BY <1>1, <1>8
  <2>2. Waiting(n)' = Range(rest)
    BY <1>3, <2>1 DEF Waiting
  <2>3. InLine(p, singly'[n], parked'[n], queue'[n])
    BY <1>7, <2>1
  <2> QED BY <1>1, <1>6, <1>8, <2>2, <2>3 DEF WriterKeepsOrder
<1>9. CASE /\ parked' = [parked EXCEPT ![n] = <<>>]
           /\ singly' = [singly EXCEPT ![n] = events] /\ UNCHANGED <<lost, chainVars, recorded>>
  <2>1. parked'[n] = <<>> /\ singly'[n] = events
    BY <1>1, <1>9
  <2>2. Waiting(n)' = Range(events) \cup Range(rest)
    BY <1>3, <2>1 DEF Waiting
  <2>3. InLine(p, events, <<>>, rest)
    BY <1>2, <1>3 DEF InLine, AllBefore
  <2> QED BY <1>1, <1>9, <2>1, <2>2, <2>3 DEF WriterKeepsOrder
<1>10. CASE /\ parked' = [parked EXCEPT ![n] = <<>>] /\ Len(events) <= 1 /\ GiveUp(events[1])
            /\ UNCHANGED <<singly, chainVars, recorded>>
  <2>1. parked'[n] = <<>> /\ singly'[n] = <<>>
    BY <1>1, <1>10
  <2>2. Waiting(n)' = Range(rest)
    BY <1>3, <2>1 DEF Waiting
  <2>3. InLine(p, singly'[n], parked'[n], queue'[n])
    BY <1>7, <2>1
  <2>4. events[1] \in Range(events)
    BY RangeEquality, EmptySeq
  <2>5. lost' \ lost \subseteq {events[1]}
    BY <1>10 DEF GiveUp
  <2>6. lost' \ lost \subseteq Waiting(n) \ Waiting(n)'
    BY <1>5, <2>2, <2>4, <2>5
  <2> QED BY <1>1, <1>10, <2>2, <2>3, <2>6 DEF WriterKeepsOrder
<1>11. CASE /\ Park(n, events) /\ UNCHANGED singly
            /\ RecordChain(events) \/ UNCHANGED <<chainVars, recorded>>
  <2>1. PICK over \in 0..Len(events) :
             /\ parked' = [parked EXCEPT ![n] = SubSeq(events, over + 1, Len(events))]
             /\ lost' = lost \cup Range(SubSeq(events, 1, over))
    BY <1>1, <1>11, Parks
  <2> DEFINE front == SubSeq(events, 1, over)  back == SubSeq(events, over + 1, Len(events))
  <2>2. /\ InLine(p, <<>>, back, rest) /\ Range(back) \subseteq Range(events)
        /\ Range(front) \subseteq Range(events) \ (Range(back) \cup Range(rest))
    BY <1>1, ParkInLine
  <2> HIDE DEF front, back
  <2>3. parked'[n] = back /\ singly'[n] = <<>> /\ \A m \in Nodes \ {n} : parked'[m] = parked[m]
    BY <1>1, <1>11, <2>1 DEF back
  <2>4. Waiting(n)' = Range(back) \cup Range(rest)
    BY <1>3, <2>3 DEF Waiting
  <2>5. lost' \ lost \subseteq Waiting(n) \ Waiting(n)'
    BY <2>1, <2>2, <2>4 DEF front
  <2>6. InLine(p, singly'[n], parked'[n], queue'[n]) /\ Waiting(n)' \subseteq Waiting(n)
    BY <2>2, <2>3, <2>4
  <2> QED BY <1>6, <1>11, <2>3, <2>5, <2>6 DEF WriterKeepsOrder
<1>12. Len(events) <= 1 \/ Len(events) > 1
  BY LenProperties
<1> QED BY <1>8, <1>9, <1>10, <1>11, <1>12 DEF WriteChain

(* Each step of a writer.                                                   *)
LEMMA WriterInOrder ==
    ASSUME WritersTyped, PublishedOnce, WaitingInOrder, NEW n \in Nodes,
           WriterReceives(n) \/ WriterRetries(n) \/ WriterOne(n)
    PROVE  /\ WriterKeepsOrder(n)
           /\ \A m \in Nodes \ {n} : /\ queue'[m] = queue[m] /\ parked'[m] = parked[m]
                                     /\ singly'[m] = singly[m]
<1> DEFINE p == published[n]
<1>1. /\ p \in Seq(Events) /\ parked \in [Nodes -> Seq(Events)] /\ singly \in [Nodes -> Seq(Events)]
      /\ queue \in [Nodes -> Seq(Events)]
      /\ queue[n] \in Seq(Events) /\ parked[n] \in Seq(Events) /\ singly[n] \in Seq(Events)
  BY DEF WritersTyped
<1>2. Once(p, n) /\ InLine(p, singly[n], parked[n], queue[n])
  BY DEF PublishedOnce, WaitingInOrder
<1>3. <<>> \in Seq(Events) /\ Range(<<>>) = {} /\ Sorted(p, <<>>)
  BY EmptyLine
<1>4. CASE WriterReceives(n)
  <2>1. queue[n] # <<>> /\ singly[n] = <<>> /\ queue' = [queue EXCEPT ![n] = <<>>]
    BY <1>4 DEF WriterReceives
  <2>2. queue'[n] = <<>> /\ \A m \in Nodes \ {n} : queue'[m] = queue[m]
    BY <1>1, <2>1
  <2>3. CASE parked[n] = <<>>
    <3>1. WriteChain(n, queue[n])
      BY <1>4, <2>3 DEF WriterReceives
    <3>2. InLine(p, <<>>, queue[n], <<>>)
      BY <1>2, <1>3 DEF InLine, AllBefore
    <3>3. Waiting(n) = Range(queue[n]) \cup Range(<<>>)
      BY <1>3, <2>1, <2>3 DEF Waiting
    <3> QED BY <1>1, <1>2, <1>3, <2>1, <2>2, <3>1, <3>2, <3>3, WriteChainInOrder
  <2>4. CASE parked[n] # <<>>
    <3> DEFINE line == parked[n] \o queue[n]
    <3>1. Park(n, line) /\ UNCHANGED <<chainVars, recorded, singly>>
      BY <1>4, <2>4 DEF WriterReceives
    <3>2. line \in Seq(Events)
      BY <1>1
    <3>3. Sorted(p, line) /\ Range(line) = Range(parked[n]) \cup Range(queue[n])
      BY <1>1, <1>2, SortedConcat DEF InLine, AllBefore
    <3> HIDE DEF line
    <3>4. InLine(p, <<>>, line, <<>>) /\ Waiting(n) = Range(line)
      BY <1>2, <1>3, <2>1, <3>3 DEF InLine, AllBefore, Waiting
    <3>5. PICK over \in 0..Len(line) :
               /\ parked' = [parked EXCEPT ![n] = SubSeq(line, over + 1, Len(line))]
               /\ lost' = lost \cup Range(SubSeq(line, 1, over))
      BY <1>1, <3>1, <3>2, Parks
    <3> DEFINE front == SubSeq(line, 1, over)  back == SubSeq(line, over + 1, Len(line))
    <3>6. /\ InLine(p, <<>>, back, <<>>) /\ Range(back) \subseteq Range(line)
          /\ Range(front) \subseteq Range(line) \ (Range(back) \cup Range(<<>>))
      BY <1>1, <1>2, <1>3, <3>2, <3>4, ParkInLine
    <3> HIDE DEF front, back
    <3>7. parked'[n] = back /\ singly'[n] = <<>> /\ \A m \in Nodes \ {n} : parked'[m] = parked[m]
      BY <1>1, <2>1, <3>1, <3>5 DEF back
    <3>8. Waiting(n)' = Range(back)
      BY <1>3, <2>2, <3>7 DEF Waiting
    <3>9. lost' \ lost \subseteq Waiting(n) \ Waiting(n)'
      BY <3>4, <3>5, <3>6, <3>8 DEF front
    <3>10. /\ InLine(p, singly'[n], parked'[n], queue'[n]) /\ Waiting(n)' \subseteq Waiting(n)
           /\ Range(queue'[n]) \subseteq Range(queue[n])
      BY <1>3, <2>2, <3>4, <3>6, <3>7, <3>8
    <3> QED BY <2>2, <3>1, <3>7, <3>9, <3>10 DEF WriterKeepsOrder
  <2> QED BY <2>3, <2>4
<1>5. CASE WriterRetries(n)
  <2>1. parked[n] # <<>> /\ singly[n] = <<>> /\ WriteChain(n, parked[n]) /\ UNCHANGED queue
    BY <1>5 DEF WriterRetries
  <2>2. InLine(p, <<>>, parked[n], queue[n])
    BY <1>2, <2>1
  <2>3. Waiting(n) = Range(parked[n]) \cup Range(queue[n])
    BY <1>3, <2>1 DEF Waiting
  <2>4. queue'[n] = queue[n] /\ Range(queue[n]) \subseteq Range(queue[n])
    BY <2>1
  <2> QED BY <1>1, <1>2, <2>1, <2>2, <2>3, <2>4, WriteChainInOrder
<1>6. CASE WriterOne(n)
  <2> DEFINE s == singly[n]  e == s[1]  t == Tail(s)
  <2>1. s # <<>> /\ UNCHANGED queue /\ parked[n] = <<>>
    BY <1>2, <1>6 DEF WriterOne, InLine
  <2>2. /\ Len(s) \in Nat \ {0} /\ e \in Events /\ t \in Seq(Events) /\ <<e>> \in Seq(Events)
    BY <1>1, <2>1, EmptySeq
  <2>3. 1 \in 0..Len(s) /\ t = SubSeq(s, 1 + 1, Len(s))
    BY <1>1, <2>1, <2>2
  <2>4. <<e>> = SubSeq(s, 1, 1)
    BY <1>1, <2>2
  <2>5. /\ Sorted(p, s) /\ Sorted(p, queue[n]) /\ AllBefore(p, Range(s), Range(queue[n]))
        /\ Range(s) \subseteq Range(p) /\ Range(queue[n]) \subseteq Range(p)
    BY <1>2 DEF InLine, AllBefore
  <2>6. /\ Sorted(p, <<e>>) /\ Sorted(p, t) /\ AllBefore(p, Range(<<e>>), Range(t))
        /\ Range(<<e>>) \cup Range(t) = Range(s)
    <3> DEFINE front == SubSeq(s, 1, 1)  back == SubSeq(s, 1 + 1, Len(s))
    <3>1. /\ Sorted(p, front) /\ Sorted(p, back) /\ AllBefore(p, Range(front), Range(back))
          /\ Range(front) \cup Range(back) = Range(s)
      BY <1>1, <2>3, <2>5, SortedPart, Zenon
    <3>2. front = <<e>> /\ back = t
      BY <2>3, <2>4
    <3> HIDE DEF front, back, e, t
    <3> QED BY <3>1, <3>2, Zenon
  <2>7. Range(<<e>>) = {e}
    <3>1. Range(<<e>>) = {<<e>>[i] : i \in 1..Len(<<e>>)}
      BY <2>2, RangeEquality
    <3>2. 1..Len(<<e>>) = {1} /\ <<e>>[1] = e
      OBVIOUS
    <3> QED BY <3>1, <3>2
  <2>8. Waiting(n) = {e} \cup Range(t) \cup Range(queue[n])
    BY <1>3, <2>1, <2>6, <2>7 DEF Waiting
  <2>9. e \notin Range(t) /\ e \notin Range(queue[n])
    BY <1>1, <1>2, <2>5, <2>6, <2>7, NotBeforeItself DEF AllBefore
  <2>10. InLine(p, t, <<>>, queue[n])
    BY <1>3, <2>5, <2>6 DEF InLine, AllBefore
  <2>11. ASSUME singly' = [singly EXCEPT ![n] = Tail(@)], UNCHANGED parked
         PROVE  /\ singly'[n] = t /\ \A m \in Nodes \ {n} : singly'[m] = singly[m]
                /\ Waiting(n)' = Range(t) \cup Range(queue[n])
                /\ InLine(p, singly'[n], parked'[n], queue'[n])
    <3>1. singly'[n] = t /\ parked'[n] = <<>> /\ queue'[n] = queue[n]
      BY <1>1, <2>1, <2>11
    <3> QED BY <1>1, <1>3, <2>10, <2>11, <3>1 DEF Waiting
  <2> HIDE DEF RecordChain
  <2>12. CASE /\ GiveUp(e) /\ singly' = [singly EXCEPT ![n] = Tail(@)]
              /\ UNCHANGED <<chainVars, recorded, parked>>
    <3>1. lost' \ lost \subseteq {e}
      BY <2>12 DEF GiveUp
    <3>2. lost' \ lost \subseteq Waiting(n) \ Waiting(n)'
      BY <2>8, <2>9, <2>11, <2>12, <3>1
    <3> HIDE DEF s, e, t
    <3> QED BY <2>1, <2>8, <2>11, <2>12, <3>2 DEF WriterKeepsOrder
  <2>15. RecordChain(<<e>>) =>
           \E events \in Seq(Events) :
             /\ events # <<>> /\ RecordChain(events)
             /\ Range(events) \subseteq Waiting(n) /\ Sorted(p, events)
             /\ AllBefore(p, Range(events), (Waiting(n) \ Range(events)) \cup Range(queue'[n]))
    <3> DEFINE one == <<e>>
    <3>1. one \in Seq(Events) /\ one # <<>> /\ Range(one) = {e} /\ Sorted(p, one)
      BY <2>2, <2>6, <2>7
    <3>2. AllBefore(p, Range(one), (Waiting(n) \ Range(one)) \cup Range(queue'[n]))
      BY <2>1, <2>5, <2>6, <2>7, <2>8 DEF AllBefore
    <3>3. RecordChain(<<e>>) => RecordChain(one)
      OBVIOUS
    <3> HIDE DEF s, e, t, one
    <3> QED BY <2>8, <3>1, <3>2, <3>3
  <2>13. CASE /\ RecordChain(<<e>>) /\ singly' = [singly EXCEPT ![n] = Tail(@)]
              /\ UNCHANGED <<parked, lost>>
    <3> HIDE DEF s, e, t
    <3> QED BY <2>1, <2>8, <2>11, <2>13, <2>15 DEF WriterKeepsOrder
  <2>14. CASE /\ Park(n, s) /\ singly' = [singly EXCEPT ![n] = <<>>]
              /\ RecordChain(<<e>>) \/ UNCHANGED <<chainVars, recorded>>
    <3>1. PICK over \in 0..Len(s) :
               /\ parked' = [parked EXCEPT ![n] = SubSeq(s, over + 1, Len(s))]
               /\ lost' = lost \cup Range(SubSeq(s, 1, over))
      BY <1>1, <2>14, Parks
    <3> DEFINE front == SubSeq(s, 1, over)  back == SubSeq(s, over + 1, Len(s))
    <3>2. InLine(p, <<>>, s, queue[n])
      BY <1>3, <2>5 DEF InLine, AllBefore
    <3>3. /\ InLine(p, <<>>, back, queue[n]) /\ Range(back) \subseteq Range(s)
          /\ Range(front) \subseteq Range(s) \ (Range(back) \cup Range(queue[n]))
      BY <1>1, <1>2, <3>2, ParkInLine
    <3> HIDE DEF front, back
    <3>4. /\ parked'[n] = back /\ singly'[n] = <<>> /\ queue'[n] = queue[n]
          /\ \A m \in Nodes \ {n} : parked'[m] = parked[m] /\ singly'[m] = singly[m]
      BY <1>1, <2>1, <2>14, <3>1 DEF back
    <3>5. /\ Waiting(n)' = Range(back) \cup Range(queue[n])
          /\ Waiting(n) = Range(s) \cup Range(queue[n])
      BY <1>3, <2>1, <3>4 DEF Waiting
    <3>6. lost' \ lost \subseteq Waiting(n) \ Waiting(n)'
      BY <3>1, <3>3, <3>5 DEF front
    <3>7. InLine(p, singly'[n], parked'[n], queue'[n]) /\ Waiting(n)' \subseteq Waiting(n)
      BY <3>3, <3>4, <3>5
    <3> HIDE DEF s, e, t
    <3> QED BY <2>1, <2>14, <2>15, <3>4, <3>6, <3>7 DEF WriterKeepsOrder
  <2> QED BY <1>6, <2>12, <2>13, <2>14 DEF WriterOne
<1> QED BY <1>4, <1>5, <1>6

(* Where a published event stands.                                          *)
LEMMA PublishedBy ==
    ASSUME WritersTyped, PublishedOnce
    PROVE  /\ \A n \in Nodes : \A e \in Range(published[n]) : Source[e] = n /\ e \in Events
           /\ \A e \in Published : Source[e] \in Nodes /\ e \in Range(published[Source[e]])
<1>1. ASSUME NEW n \in Nodes, NEW e \in Range(published[n]) PROVE Source[e] = n /\ e \in Events
  <2>1. published[n] \in Seq(Events)
    BY DEF WritersTyped
  <2>2. PICK i \in 1..Len(published[n]) : e = published[n][i]
    BY <2>1, RangeEquality
  <2> QED BY <2>1, <2>2 DEF PublishedOnce, Once
<1>2. ASSUME NEW e \in Published PROVE \E n \in Nodes : e \in Range(published[n])
  BY DEF Published
<1> QED BY <1>1, <1>2

(* What a writer records was not recorded before and has not expired.       *)
LEMMA RecordsNew ==
    ASSUME Typed, OrderInv, NEW n \in Nodes, NEW events \in Seq(Events), RecordChain(events),
           Range(events) \subseteq Waiting(n), NEW e \in Range(events)
    PROVE  e \notin Range(recorded) /\ Source[e] = n /\ ~ OccurredAt[e] < cutoff /\ e \in Events
<1>1. e \in Waiting(n) /\ e \in Range(published[n])
  BY DEF OrderInv, WaitingInOrder, InLine, Waiting
<1>2. Source[e] = n /\ e \in Events
  BY <1>1, PublishedBy DEF Typed, OrderInv
<1>3. ~ OccurredAt[e] < cutoff
  BY <1>1, <1>2 DEF OrderInv, Settled
<1>4. PICK i \in 1..Len(events) : e = events[i]
  BY RangeEquality
<1>5. ~ \E r \in rows : r.event = e
  BY <1>4 DEF RecordChain, Refused
<1>6. e \notin Range(recorded)
  BY <1>1, <1>5 DEF OrderInv, UnheardIsThere
<1> QED BY <1>2, <1>3, <1>6

(* An append leaves the rows there are, and adds one for each of its        *)
(* events, out of the retention's reach when they have not expired.         *)
LEMMA AppendedOutOfReach ==
    ASSUME Typed, NEW events \in Seq(Events), events # <<>>, RecordChain(events),
           UNCHANGED <<cutoff, purge>>, \A e \in Range(events) : ~ OccurredAt[e] < cutoff
    PROVE  /\ \A r \in rows : r \in rows' /\ (OutOfReach(r) => OutOfReach(r)')
           /\ \A e \in Range(events) : \E r \in rows' : r.event = e /\ OutOfReach(r)'
<1> DEFINE k == Len(events)  new(i) == NewRow(events, i)
<1>1. /\ k \in Nat \ {0} /\ head.seq \in Nat /\ rows' = rows \cup {new(i) : i \in 1..k}
      /\ \A i \in 1..k : new(i).seq = head.seq + i /\ new(i).event = events[i]
  BY Appended DEF Typed
<1>2. \A i \in 1..k : events[i] \in Range(events)
  BY RangeEquality
<1>3. \A e \in Range(events) : \E i \in 1..k : e = events[i]
  BY RangeEquality
<1> HIDE DEF k, new
<1>4. Expired' \subseteq Expired
  <2> SUFFICES ASSUME NEW r \in rows', OccurredAt[r.event] < cutoff PROVE r \in rows
    BY DEF Expired
  <2>1. ASSUME NEW i \in 1..k, r = new(i) PROVE FALSE
    BY <1>1, <1>2, <2>1
  <2> QED BY <1>1, <2>1
<1>5. \A r : OutOfReach(r) => OutOfReach(r)'
  BY <1>4 DEF OutOfReach
<1>6. ASSUME NEW i \in 1..k, NEW r \in rows', r = new(i)
      PROVE  OutOfReach(r)' /\ r.event = events[i]
  <2>1. r.seq = head.seq + i /\ r.event = events[i]
    BY <1>1, <1>6
  <2>2. \A q \in Expired' : q.seq < r.seq
    <3> SUFFICES ASSUME NEW q \in rows PROVE q.seq < r.seq
      BY <1>4 DEF Expired
    <3>1. q.seq \in Nat /\ q.seq <= head.seq
      BY DEF Typed, ChainTyped, RowShape
    <3> QED BY <1>1, <1>6, <2>1, <3>1
  <2>3. purge.at = "delete" => purge.upTo < r.seq
    <3>1. purge.at = "delete" => purge.upTo \in Nat /\ purge.upTo <= head.seq
      BY DEF Typed, PurgeTyped, PurgeShape, Idle
    <3> QED BY <1>1, <1>6, <2>1, <3>1
  <2> QED BY <2>1, <2>2, <2>3 DEF OutOfReach
<1>7. ASSUME NEW e \in Range(events) PROVE \E r \in rows' : r.event = e /\ OutOfReach(r)'
  <2>1. PICK i \in 1..k : e = events[i]
    BY <1>3
  <2>2. PICK r \in rows' : r = new(i)
    BY <1>1
  <2> QED BY <1>6, <2>1, <2>2
<1> QED BY <1>1, <1>5, <1>7

(* A writer's step keeps the order.                                         *)
LEMMA WriterOrder ==
    ASSUME Typed, OrderInv, NEW n \in Nodes,
           WriterReceives(n) \/ WriterRetries(n) \/ WriterOne(n)
    PROVE  OrderInv'
<1>1. /\ WriterKeepsOrder(n)
      /\ \A m \in Nodes \ {n} : /\ queue'[m] = queue[m] /\ parked'[m] = parked[m]
                                /\ singly'[m] = singly[m]
  BY WriterInOrder DEF Typed, OrderInv
<1>2. UNCHANGED <<published, cutoff, purge>>
  BY WritersStep DEF Typed, purgeVars
<1>3. \A m \in Nodes \ {n} : Waiting(m)' = Waiting(m)
  BY <1>1 DEF Waiting
<1>4. \A m \in Nodes : /\ Waiting(m)' \subseteq Waiting(m)
                       /\ Range(queue'[m]) \subseteq Range(queue[m])
                       /\ Waiting(m) \subseteq Range(published[m])
  <2>1. \A m \in Nodes : Waiting(m) \subseteq Range(published[m])
    BY DEF OrderInv, WaitingInOrder, InLine, Waiting
  <2> QED BY <1>1, <1>3, <2>1 DEF WriterKeepsOrder
<1>5. PublishedOnce' /\ Published' = Published
  BY <1>2 DEF OrderInv, PublishedOnce, Published
<1>6. WaitingInOrder'
  <2> SUFFICES ASSUME NEW m \in Nodes
               PROVE  InLine(published[m], singly'[m], parked'[m], queue'[m])
    BY <1>2 DEF WaitingInOrder
  <2>1. CASE m = n
    BY <1>1, <2>1 DEF WriterKeepsOrder
  <2>2. CASE m # n
    BY <1>1, <2>2 DEF OrderInv, WaitingInOrder
  <2> QED BY <2>1, <2>2
<1>7. Settled'
  <2>1. lost' \ lost \subseteq Waiting(n) \ Waiting(n)'
    BY <1>1 DEF WriterKeepsOrder
  <2>2. lost' \subseteq Published'
    <3>1. Waiting(n) \subseteq Published
      BY <1>4 DEF Published
    <3> QED BY <1>5, <2>1, <3>1 DEF OrderInv, Settled
  <2>3. ASSUME NEW m \in Nodes, NEW e \in Waiting(m)', e \in lost' PROVE FALSE
    <3>1. e \in Waiting(m) /\ e \notin lost
      BY <1>4, <2>3 DEF OrderInv, Settled
    <3>2. e \in Waiting(n) \ Waiting(n)'
      BY <2>1, <2>3, <3>1
    <3>3. m = n
      BY <1>4, <3>1, <3>2, PublishedBy DEF Typed, OrderInv
    <3> QED BY <2>3, <3>2, <3>3
  <2>4. \A e \in Events : OccurredAt[e] < cutoff' =>
          e \in Published' /\ \A m \in Nodes : e \notin Waiting(m)'
    BY <1>2, <1>4, <1>5 DEF OrderInv, Settled
  <2> HIDE DEF Waiting, Published
  <2> QED BY <2>2, <2>3, <2>4 DEF Settled
<1>8. CASE UNCHANGED <<chainVars, recorded>>
  <2>1. RecordedFirst'
    BY <1>2, <1>4, <1>8 DEF OrderInv, RecordedFirst
  <2>2. UnheardIsThere'
    <3>1. \A r : OutOfReach(r)' <=> OutOfReach(r)
      BY <1>2, <1>8 DEF OutOfReach, Expired, chainVars
    <3> QED BY <1>4, <1>8, <3>1 DEF OrderInv, UnheardIsThere, chainVars
  <2>3. InOrderOnce'
    BY <1>2, <1>5, <1>8 DEF OrderInv, InOrderOnce
  <2> QED BY <1>5, <1>6, <1>7, <2>1, <2>2, <2>3 DEF OrderInv
<1>9. ASSUME NEW events \in Seq(Events), events # <<>>, RecordChain(events),
             Range(events) \subseteq Waiting(n), Sorted(published[n], events),
             AllBefore(published[n], Range(events),
                       (Waiting(n) \ Range(events)) \cup Range(queue'[n]))
      PROVE  OrderInv'
  <2>0. published[n] \in Seq(Events) /\ Once(published[n], n) /\ recorded \in Seq(Events)
    BY DEF Typed, WritersTyped, OrderInv, PublishedOnce
  <2>1. recorded' = recorded \o events /\ Range(recorded') = Range(recorded) \cup Range(events)
    BY <1>9, <2>0, RangeConcatenation DEF RecordChain
  <2>2. \A e \in Range(events) : /\ e \notin Range(recorded) /\ Source[e] = n
                                 /\ ~ OccurredAt[e] < cutoff /\ e \in Events
    BY <1>9, RecordsNew
  <2>3. RecordedFirst'
    <3>1. ASSUME NEW m \in Nodes, NEW e \in Range(queue'[m]), e \in Range(recorded') PROVE FALSE
      <4>1. e \notin Range(recorded) /\ e \in Range(queue[m])
        BY <1>4, <3>1 DEF OrderInv, RecordedFirst
      <4>2. e \in Range(events)
        BY <2>1, <3>1, <4>1
      <4>3. m = n
        <5>1. e \in Range(published[m])
          BY <1>4, <4>1 DEF Waiting
        <5> QED BY <2>2, <4>2, <5>1, PublishedBy DEF Typed, OrderInv
      <4>4. Before(published[n], e, e)
        BY <1>9, <3>1, <4>2, <4>3 DEF AllBefore
      <4> QED BY <2>0, <4>4, NotBeforeItself
    <3>2. ASSUME NEW m \in Nodes, NEW e \in Range(recorded'), NEW f \in Waiting(m)',
                 f \notin Range(recorded'), Source[e] = m
          PROVE  Before(published[m], e, f)
      <4>1. f \in Waiting(m) /\ f \notin Range(recorded) /\ f \notin Range(events)
        BY <1>4, <2>1, <3>2
      <4>2. CASE e \in Range(recorded)
        BY <3>2, <4>1, <4>2 DEF OrderInv, RecordedFirst
      <4>3. CASE e \in Range(events)
        <5>1. m = n
          BY <2>2, <3>2, <4>3
        <5> QED BY <1>9, <4>1, <4>3, <5>1 DEF AllBefore
      <4> QED BY <2>1, <3>2, <4>2, <4>3
    <3> HIDE DEF Waiting
    <3> QED BY <1>2, <3>1, <3>2 DEF RecordedFirst
  <2>4. UnheardIsThere'
    <3>1. /\ \A r \in rows : r \in rows' /\ (OutOfReach(r) => OutOfReach(r)')
          /\ \A e \in Range(events) : \E r \in rows' : r.event = e /\ OutOfReach(r)'
      BY <1>2, <1>9, <2>2, AppendedOutOfReach
    <3>2. ASSUME NEW m \in Nodes, NEW e \in Waiting(m)', e \in Range(recorded')
          PROVE  \E r \in rows' : r.event = e /\ OutOfReach(r)'
      <4>1. CASE e \in Range(events)
        BY <3>1, <4>1
      <4>2. CASE e \in Range(recorded)
        <5>1. PICK r \in rows : r.event = e /\ OutOfReach(r)
          BY <1>4, <3>2, <4>2 DEF OrderInv, UnheardIsThere
        <5> QED BY <3>1, <5>1
      <4> QED BY <2>1, <3>2, <4>1, <4>2
    <3> HIDE DEF Waiting, OutOfReach
    <3> QED BY <3>2 DEF UnheardIsThere
  <2>5. InOrderOnce'
    <3> DEFINE k == Len(recorded)
    <3>1. /\ k \in Nat /\ Len(events) \in Nat /\ Len(recorded') = k + Len(events)
          /\ \A i \in 1..(k + Len(events)) :
               recorded'[i] = IF i <= k THEN recorded[i] ELSE events[i - k]
      BY <2>0, <2>1, ConcatProperties, LenProperties
    <3>2. /\ \A i \in 1..k : recorded[i] \in Range(recorded)
          /\ \A i \in 1..Len(events) : events[i] \in Range(events)
      BY <2>0, RangeEquality
    <3> HIDE DEF k
    <3>3. Range(recorded') \subseteq Published'
      <4>1. Range(recorded) \subseteq Published
        BY DEF OrderInv, InOrderOnce
      <4>2. Range(events) \subseteq Published
        BY <1>4, <1>9 DEF Published
      <4> QED BY <1>5, <2>1, <4>1, <4>2
    <3>4. ASSUME NEW i \in 1..Len(recorded'), NEW j \in 1..Len(recorded'), i < j
          PROVE  /\ recorded'[i] # recorded'[j]
                 /\ Source[recorded'[i]] = Source[recorded'[j]] =>
                      Before(published[Source[recorded'[i]]], recorded'[i], recorded'[j])
      <4>1. CASE j <= k
        <5>1. /\ i \in 1..k /\ j \in 1..k /\ recorded'[i] = recorded[i]
              /\ recorded'[j] = recorded[j]
          BY <3>1, <3>4, <4>1
        <5> QED BY <3>4, <5>1 DEF OrderInv, InOrderOnce, k
      <4>2. CASE i <= k /\ j > k
        <5>1. /\ i \in 1..k /\ j - k \in 1..Len(events) /\ recorded'[i] = recorded[i]
              /\ recorded'[j] = events[j - k]
          BY <3>1, <3>4, <4>2
        <5> DEFINE e == recorded[i]  f == events[j - k]
        <5>2. e \in Range(recorded) /\ f \in Range(events) /\ f \notin Range(recorded)
          BY <2>2, <3>2, <5>1
        <5>3. f \in Waiting(n) \ Range(recorded) /\ Source[f] = n
          BY <1>9, <2>2, <5>2
        <5> HIDE DEF e, f
        <5>4. Source[e] = n => Before(published[n], e, f)
          BY <5>2, <5>3 DEF OrderInv, RecordedFirst
        <5>5. e # f /\ (Source[e] = Source[f] => Before(published[Source[e]], e, f))
          BY <5>2, <5>3, <5>4
        <5> QED BY <5>1, <5>5 DEF e, f
      <4>3. CASE i > k
        <5>1. /\ i - k \in 1..Len(events) /\ j - k \in 1..Len(events) /\ i - k < j - k
              /\ recorded'[i] = events[i - k] /\ recorded'[j] = events[j - k]
          BY <3>1, <3>4, <4>3
        <5> DEFINE e == events[i - k]  f == events[j - k]
        <5>2. Before(published[n], e, f) /\ Source[e] = n
          BY <1>9, <2>2, <3>2, <5>1 DEF Sorted
        <5> HIDE DEF e, f
        <5>3. e # f
          BY <2>0, <5>2, NotBeforeItself
        <5> QED BY <5>1, <5>2, <5>3 DEF e, f
      <4> QED BY <3>1, <4>1, <4>2, <4>3
    <3> QED BY <1>2, <3>3, <3>4 DEF InOrderOnce
  <2> QED BY <1>5, <1>6, <1>7, <2>3, <2>4, <2>5 DEF OrderInv
<1> HIDE DEF OrderInv, RecordChain
<1> QED BY <1>1, <1>8, <1>9 DEF WriterKeepsOrder

(* Publishing an event keeps the order: it comes last.                      *)
LEMMA PublishOrder == ASSUME Typed, OrderInv, NEW e \in Events, Publish(e) PROVE OrderInv'
<1> DEFINE n == Source[e]  p == published[n]
<1>1. /\ n \in Nodes /\ e \notin Published /\ p \in Seq(Events) /\ queue[n] \in Seq(Events)
      /\ published \in [Nodes -> Seq(Events)] /\ queue \in [Nodes -> Seq(Events)]
  BY AuditAssumption DEF Publish, Typed, WritersTyped
<1>2. /\ published' = [published EXCEPT ![n] = Append(@, e)]
      /\ UNCHANGED <<parked, singly, recorded, rows, head, cutoff, purge>>
      /\ \/ queue' = [queue EXCEPT ![n] = Append(@, e)] /\ UNCHANGED lost
         \/ lost' = lost \cup {e} /\ UNCHANGED queue
  BY DEF Publish, chainVars, purgeVars
<1> HIDE DEF n
<1>3. published'[n] = Append(p, e) /\ \A m \in Nodes \ {n} : published'[m] = published[m]
  BY <1>1, <1>2
<1>4. /\ \A x, y : Before(p, x, y) => Before(Append(p, e), x, y)
      /\ \A x \in Range(p) : Before(Append(p, e), x, e)
      /\ Range(Append(p, e)) = Range(p) \cup {e}
  BY <1>1, PublishedLast
<1>5. \A m \in Nodes : Range(published[m]) \subseteq Published
  BY DEF Published
<1>6. /\ \A m \in Nodes : Range(published[m]) \subseteq Range(published'[m])
      /\ Published' = Published \cup {e}
  <2>1. \A m \in Nodes : Range(published[m]) \subseteq Range(published'[m])
    BY <1>3, <1>4
  <2>2. ASSUME NEW x PROVE x \in Published' <=> x \in Published \cup {e}
    <3>1. \A m \in Nodes : x \in Range(published'[m]) => x \in Range(published[m]) \cup {e}
      BY <1>3, <1>4
    <3>2. e \in Range(published'[n])
      BY <1>3, <1>4
    <3> QED BY <1>1, <2>1, <3>1, <3>2 DEF Published
  <2> QED BY <2>1, <2>2
<1>7. \A m \in Nodes : \A x, y : Before(published[m], x, y) => Before(published'[m], x, y)
  BY <1>3, <1>4
<1>8. \A m \in Nodes : Waiting(m) \subseteq Range(published[m])
  BY DEF OrderInv, WaitingInOrder, InLine, Waiting
<1>9. e \notin Range(recorded) /\ \A m \in Nodes : e \notin Waiting(m)
  BY <1>1, <1>5, <1>8 DEF OrderInv, InOrderOnce
<1>10. PublishedOnce'
  <2> SUFFICES ASSUME NEW m \in Nodes PROVE Once(published'[m], m)
    BY DEF PublishedOnce
  <2>1. CASE m # n
    BY <1>3, <2>1 DEF OrderInv, PublishedOnce
  <2>2. CASE m = n
    <3> DEFINE q == Append(p, e)
    <3>1. /\ Len(p) \in Nat /\ Len(q) = Len(p) + 1 /\ q[Len(p) + 1] = e
          /\ \A i \in 1..Len(p) : q[i] = p[i]
      BY <1>1, AppendProperties, LenProperties
    <3>2. \A i \in 1..Len(p) : p[i] # e
      <4>1. \A i \in 1..Len(p) : p[i] \in Range(p)
        BY <1>1, RangeEquality
      <4> QED BY <1>1, <1>5, <4>1
    <3>3. Once(p, n)
      BY <1>1 DEF OrderInv, PublishedOnce
    <3> HIDE DEF p, q
    <3>4. ASSUME NEW i \in 1..Len(q) PROVE Source[q[i]] = n
      <4>1. CASE i = Len(p) + 1
        BY <3>1, <4>1 DEF n
      <4>2. CASE i # Len(p) + 1
        <5>1. i \in 1..Len(p) /\ q[i] = p[i]
          BY <3>1, <4>2
        <5> QED BY <3>3, <5>1 DEF Once
      <4> QED BY <4>1, <4>2
    <3>5. ASSUME NEW i \in 1..Len(q), NEW j \in 1..Len(q), q[i] = q[j] PROVE i = j
      <4>1. i \in 1..Len(p) \/ i = Len(p) + 1
        BY <3>1
      <4>2. j \in 1..Len(p) \/ j = Len(p) + 1
        BY <3>1
      <4>3. CASE i \in 1..Len(p) /\ j \in 1..Len(p)
        BY <3>1, <3>3, <3>5, <4>3 DEF Once
      <4>4. CASE i \in 1..Len(p) /\ j = Len(p) + 1
        BY <3>1, <3>2, <3>5, <4>4
      <4>5. CASE j \in 1..Len(p) /\ i = Len(p) + 1
        BY <3>1, <3>2, <3>5, <4>5
      <4> QED BY <4>1, <4>2, <4>3, <4>4, <4>5
    <3>6. published'[m] = q
      BY <1>3, <2>2 DEF p, q
    <3>7. Once(q, n)
      BY <3>4, <3>5 DEF Once
    <3> QED BY <2>2, <3>6, <3>7
  <2> QED BY <2>1, <2>2
<1>11. ASSUME NEW m \in Nodes
       PROVE  \/ queue'[m] = queue[m]
              \/ m = n /\ queue'[m] = Append(queue[m], e) /\ UNCHANGED lost
  BY <1>1, <1>2
<1>12. Range(Append(queue[n], e)) = Range(queue[n]) \cup {e}
  BY <1>1, PublishedLast
<1>13. \A m \in Nodes : /\ \/ Waiting(m)' = Waiting(m)
                           \/ m = n /\ UNCHANGED lost /\ Waiting(m)' = Waiting(m) \cup {e}
                        /\ Range(queue'[m]) \subseteq Range(queue[m]) \cup {e}
  BY <1>2, <1>11, <1>12 DEF Waiting
<1>14. ASSUME NEW m \in Nodes, NEW s, Sorted(published[m], s) PROVE Sorted(published'[m], s)
  BY <1>7, <1>14 DEF Sorted
<1>15. ASSUME NEW m \in Nodes, NEW A, NEW B, AllBefore(published[m], A, B)
       PROVE  AllBefore(published'[m], A, B)
  BY <1>7, <1>15 DEF AllBefore
<1>16. WaitingInOrder'
  <2> SUFFICES ASSUME NEW m \in Nodes
               PROVE  InLine(published'[m], singly[m], parked[m], queue'[m])
    BY <1>2 DEF WaitingInOrder
  <2> DEFINE A == Range(singly[m]) \cup Range(parked[m])
  <2>1. /\ InLine(published[m], singly[m], parked[m], queue[m])
        /\ singly[m] \in Seq(Events) /\ parked[m] \in Seq(Events) /\ queue[m] \in Seq(Events)
    BY DEF OrderInv, WaitingInOrder, Typed, WritersTyped
  <2>2. InLine(published'[m], singly[m], parked[m], queue[m])
    BY <1>6, <1>14, <1>15, <2>1 DEF InLine
  <2>3. CASE m = n /\ queue'[m] = Append(queue[m], e)
    <3>1. published'[m] = Append(p, e)
      BY <1>3, <2>3
    <3>2. A \cup Range(queue[m]) \subseteq Range(p)
      BY <2>1, <2>3 DEF InLine
    <3>3. \A x \in A \cup Range(queue[m]) : Before(published'[m], x, e)
      BY <1>4, <3>1, <3>2
    <3>4. Range(queue'[m]) = Range(queue[m]) \cup {e} /\ e \in Range(published'[m])
      BY <1>4, <1>12, <2>3, <3>1
    <3>5. AllBefore(published'[m], A, Range(queue'[m]))
      BY <2>2, <3>3, <3>4 DEF InLine, AllBefore
    <3>6. Sorted(published'[m], queue'[m])
      <4> DEFINE q == queue[m]  r == Append(q, e)
      <4>1. /\ Len(q) \in Nat /\ Len(r) = Len(q) + 1 /\ r[Len(q) + 1] = e
            /\ \A i \in 1..Len(q) : r[i] = q[i] /\ q[i] \in Range(q)
        BY <2>1, AppendProperties, LenProperties, RangeEquality
      <4>2. Sorted(published'[m], q)
        BY <2>2 DEF InLine
      <4> HIDE DEF q, r
      <4>3. ASSUME NEW i \in 1..Len(r), NEW j \in 1..Len(r), i < j
            PROVE  Before(published'[m], r[i], r[j])
        <5>1. i \in 1..Len(q) /\ r[i] = q[i]
          BY <4>1, <4>3
        <5>2. CASE j = Len(q) + 1
          BY <3>3, <4>1, <5>1, <5>2 DEF q
        <5>3. CASE j # Len(q) + 1
          <6>1. j \in 1..Len(q) /\ r[j] = q[j]
            BY <4>1, <5>3
          <6> QED BY <4>2, <4>3, <5>1, <6>1 DEF Sorted
        <5> QED BY <5>2, <5>3
      <4> QED BY <2>3, <4>3 DEF Sorted, q, r
    <3> QED BY <2>2, <3>4, <3>5, <3>6 DEF InLine
  <2> QED BY <1>11, <2>2, <2>3
<1>17. RecordedFirst'
  <2>1. \A m \in Nodes : Range(queue'[m]) \cap Range(recorded) = {}
    BY <1>9, <1>13 DEF OrderInv, RecordedFirst
  <2>2. ASSUME NEW m \in Nodes, NEW x \in Range(recorded), NEW f \in Waiting(m)',
               f \notin Range(recorded), Source[x] = m
        PROVE  Before(published'[m], x, f)
    <3>1. CASE f \in Waiting(m)
      BY <1>7, <2>2, <3>1 DEF OrderInv, RecordedFirst
    <3>2. CASE f = e /\ m = n
      <4>1. x \in Published
        BY <2>2 DEF OrderInv, InOrderOnce
      <4>2. x \in Range(p)
        BY <2>2, <3>2, <4>1, PublishedBy DEF Typed, OrderInv
      <4> QED BY <1>3, <1>4, <3>2, <4>2
    <3> QED BY <1>13, <2>2, <3>1, <3>2
  <2> HIDE DEF Waiting
  <2> QED BY <1>2, <2>1, <2>2 DEF RecordedFirst
<1>18. Settled'
  <2>1. lost' \subseteq Published'
    BY <1>2, <1>6 DEF OrderInv, Settled
  <2>2. \A m \in Nodes : Waiting(m)' \cap lost' = {}
    <3>1. \A m \in Nodes : Waiting(m) \cap lost = {} /\ e \notin Waiting(m)
      BY <1>9 DEF OrderInv, Settled
    <3>2. e \notin lost
      BY <1>1 DEF OrderInv, Settled
    <3>3. ASSUME NEW m \in Nodes, Waiting(m)' = Waiting(m) PROVE Waiting(m)' \cap lost' = {}
      BY <1>2, <3>1, <3>3
    <3>4. ASSUME NEW m \in Nodes, UNCHANGED lost, Waiting(m)' = Waiting(m) \cup {e}
          PROVE  Waiting(m)' \cap lost' = {}
      BY <3>1, <3>2, <3>4
    <3> QED BY <1>13, <3>3, <3>4
  <2>3. ASSUME NEW x \in Events, OccurredAt[x] < cutoff
        PROVE  x \in Published' /\ \A m \in Nodes : x \notin Waiting(m)'
    <3>1. x \in Published /\ \A m \in Nodes : x \notin Waiting(m)
      BY <2>3 DEF OrderInv, Settled
    <3>2. x # e
      BY <1>1, <3>1
    <3>3. \A m \in Nodes : x \notin Waiting(m)'
      BY <1>13, <3>1, <3>2
    <3> QED BY <1>6, <3>1, <3>3
  <2> HIDE DEF Waiting, Published
  <2> QED BY <1>2, <2>1, <2>2, <2>3 DEF Settled
<1>19. UnheardIsThere'
  <2>1. \A r : OutOfReach(r)' <=> OutOfReach(r)
    BY <1>2 DEF OutOfReach, Expired
  <2>2. \A m \in Nodes : Waiting(m)' \cap Range(recorded) \subseteq Waiting(m) \cap Range(recorded)
    BY <1>9, <1>13
  <2> HIDE DEF Waiting, OutOfReach
  <2> QED BY <1>2, <2>1, <2>2 DEF OrderInv, UnheardIsThere
<1>20. InOrderOnce'
  <2>1. Range(recorded) \subseteq Published'
    BY <1>6 DEF OrderInv, InOrderOnce
  <2>2. \A i \in 1..Len(recorded) : Source[recorded[i]] \in Nodes
    <3>1. \A i \in 1..Len(recorded) : recorded[i] \in Events
      BY DEF Typed, WritersTyped
    <3> QED BY <3>1, AuditAssumption
  <2>3. ASSUME NEW i \in 1..Len(recorded), NEW j \in 1..Len(recorded), i < j
        PROVE  /\ recorded[i] # recorded[j]
               /\ Source[recorded[i]] = Source[recorded[j]] =>
                    Before(published'[Source[recorded[i]]], recorded[i], recorded[j])
    <3>1. /\ recorded[i] # recorded[j]
          /\ Source[recorded[i]] = Source[recorded[j]] =>
               Before(published[Source[recorded[i]]], recorded[i], recorded[j])
      BY <2>3 DEF OrderInv, InOrderOnce
    <3> QED BY <1>7, <2>2, <3>1
  <2> QED BY <1>2, <2>1, <2>3 DEF InOrderOnce
<1> QED BY <1>10, <1>16, <1>17, <1>18, <1>19, <1>20 DEF OrderInv

(* The retention's clock: what expires is recorded or lost, and no longer   *)
(* waits.                                                                   *)
LEMMA ExpireOrder == ASSUME Typed, OrderInv, Expire PROVE OrderInv'
<1>1. /\ \A e \in Events : OccurredAt[e] = cutoff => e \in Range(recorded) \cup lost
      /\ \A n \in Nodes : Range(queue[n] \o parked[n] \o singly[n]) \cap Range(recorded) = {}
      /\ cutoff' = cutoff + 1 /\ cutoff \in Nat
      /\ UNCHANGED <<published, queue, parked, singly, recorded, lost, rows, purge>>
  BY DEF Expire, writerVars, chainVars, Typed, PurgeTyped
<1>2. \A n \in Nodes : Waiting(n) \cap Range(recorded) = {}
  <2> SUFFICES ASSUME NEW n \in Nodes PROVE Waiting(n) \cap Range(recorded) = {}
    OBVIOUS
  <2>1. queue[n] \in Seq(Events) /\ parked[n] \in Seq(Events) /\ singly[n] \in Seq(Events)
    BY DEF Typed, WritersTyped
  <2> DEFINE a == queue[n]  b == parked[n]  c == singly[n]  ab == a \o b
  <2>2. ab \in Seq(Events)
    BY <2>1
  <2> HIDE DEF a, b, c
  <2>3. Range(ab) = Range(a) \cup Range(b)
    BY <2>1, RangeConcatenation DEF a, b
  <2> HIDE DEF ab
  <2>4. c \in Seq(Events)
    BY <2>1 DEF c
  <2>5. Range(ab \o c) = Range(ab) \cup Range(c)
    BY <2>2, <2>4, RangeConcatenation
  <2>6. Range(a) \cup Range(b) \cup Range(c) = Range(queue[n] \o parked[n] \o singly[n])
    BY <2>3, <2>5 DEF a, b, c, ab
  <2>7. Waiting(n) = Range(a) \cup Range(b) \cup Range(c)
    BY DEF Waiting, a, b, c
  <2> QED BY <1>1, <2>6, <2>7
<1>3. PublishedOnce' /\ WaitingInOrder' /\ Published' = Published
  BY <1>1 DEF OrderInv, PublishedOnce, WaitingInOrder, Published
<1>4. \A n \in Nodes : Waiting(n)' = Waiting(n)
  BY <1>1 DEF Waiting
<1>5. RecordedFirst' /\ InOrderOnce'
  BY <1>1, <1>3, <1>4 DEF OrderInv, RecordedFirst, InOrderOnce
<1>6. Settled'
  <2>1. ASSUME NEW e \in Events, OccurredAt[e] < cutoff'
        PROVE  e \in Published /\ \A n \in Nodes : e \notin Waiting(n)
    <3>1. OccurredAt[e] < cutoff \/ OccurredAt[e] = cutoff
      BY <1>1, <2>1, AuditAssumption
    <3>2. CASE OccurredAt[e] < cutoff
      BY <3>2 DEF OrderInv, Settled
    <3>3. CASE e \in Range(recorded)
      BY <1>2, <3>3 DEF OrderInv, InOrderOnce
    <3>4. CASE e \in lost
      BY <3>4 DEF OrderInv, Settled
    <3> QED BY <1>1, <3>1, <3>2, <3>3, <3>4
  <2> HIDE DEF Waiting, Published
  <2> QED BY <1>1, <1>3, <1>4, <2>1 DEF OrderInv, Settled
<1>7. UnheardIsThere'
  BY <1>1, <1>2, <1>4 DEF UnheardIsThere
<1> QED BY <1>3, <1>5, <1>6, <1>7 DEF OrderInv

(* Retention keeps the order: it removes no row of an event that waits.     *)
LEMMA RetentionOrder ==
    ASSUME Typed, OrderInv, UNCHANGED <<writerVars, cutoff>>,
           \A r \in rows : OutOfReach(r) => r \in rows' /\ OutOfReach(r)'
    PROVE  OrderInv'
<1>1. PublishedOnce' /\ WaitingInOrder' /\ Published' = Published
  BY DEF OrderInv, PublishedOnce, WaitingInOrder, Published, writerVars
<1>2. \A n \in Nodes : Waiting(n)' = Waiting(n)
  BY DEF Waiting, writerVars
<1>3. RecordedFirst' /\ InOrderOnce'
  BY <1>1, <1>2 DEF OrderInv, RecordedFirst, InOrderOnce, writerVars
<1>4. Settled'
  BY <1>1, <1>2 DEF OrderInv, Settled, writerVars
<1>5. UnheardIsThere'
  <2> SUFFICES ASSUME NEW n \in Nodes, NEW e \in Waiting(n), e \in Range(recorded)
               PROVE  \E r \in rows' : r.event = e /\ OutOfReach(r)'
    BY <1>2 DEF UnheardIsThere, writerVars
  <2>1. PICK r \in rows : r.event = e /\ OutOfReach(r)
    BY DEF OrderInv, UnheardIsThere
  <2> QED BY <2>1
<1> QED BY <1>1, <1>3, <1>4, <1>5 DEF OrderInv

(* Every step keeps the order.                                              *)
LEMMA NextOrder == ASSUME Typed, OrderInv, [Next]_vars PROVE OrderInv'
<1>0. /\ cutoff \in Nat /\ MonthEnd \in Nat
      /\ \A r \in rows : r.seq \in Nat /\ OccurredAt[r.event] \in Nat
  BY AuditAssumption DEF Typed, PurgeTyped, ChainTyped, RowShape
<1>1. CASE UNCHANGED <<writerVars, chainVars, cutoff, purge>>
  <2>1. \A r \in rows : OutOfReach(r) => r \in rows' /\ OutOfReach(r)'
    BY <1>1 DEF OutOfReach, Expired, chainVars
  <2> QED BY <1>1, <2>1, RetentionOrder
<1>2. CASE DropPartition
  <2> DEFINE gone == {r \in rows : OccurredAt[r.event] < MonthEnd}
  <2>1. /\ Discard(gone) /\ purge' = [at |-> "find"] /\ cutoff > MonthEnd
        /\ UNCHANGED <<writerVars, cutoff>>
    BY <1>2 DEF DropPartition
  <2>2. rows' = rows \ gone
    BY <2>1 DEF Discard
  <2>3. Expired' \subseteq Expired
    BY <2>1, <2>2 DEF Expired
  <2>4. gone \subseteq Expired
    BY <1>0, <2>1 DEF Expired
  <2> HIDE DEF gone
  <2>5. ASSUME NEW r \in rows, OutOfReach(r) PROVE r \in rows' /\ OutOfReach(r)'
    <3>1. r \notin Expired
      BY <1>0, <2>5 DEF OutOfReach
    <3> QED BY <2>1, <2>2, <2>3, <2>4, <2>5, <3>1 DEF OutOfReach
  <2> QED BY <2>1, <2>5, RetentionOrder
<1>3. CASE PurgeFind
  <2>1. /\ purge' = IF Expired = {} THEN Idle ELSE [at |-> "delete", upTo |-> LastOf(Expired)]
        /\ UNCHANGED <<writerVars, chainVars, cutoff>>
    BY <1>3 DEF PurgeFind
  <2>2. Expired' = Expired /\ rows' = rows
    BY <2>1 DEF Expired, chainVars
  <2>3. ASSUME NEW r \in rows, OutOfReach(r) PROVE OutOfReach(r)'
    <3>1. CASE Expired = {}
      BY <2>1, <2>2, <2>3, <3>1 DEF OutOfReach, Idle
    <3>2. CASE Expired # {}
      <4>1. Expired \in SUBSET rows
        BY DEF Expired
      <4>2. PICK q \in Expired : q.seq = LastOf(Expired)
        BY <3>2, <4>1, LastOfRows DEF Typed
      <4>3. q.seq < r.seq
        BY <2>3 DEF OutOfReach
      <4>4. purge'.upTo = q.seq
        BY <2>1, <3>2, <4>2
      <4> QED BY <2>2, <2>3, <4>3, <4>4 DEF OutOfReach
    <3> QED BY <3>1, <3>2
  <2> QED BY <2>1, <2>2, <2>3, RetentionOrder
<1>4. CASE PurgeDelete
  <2> DEFINE gone == {r \in RowsAfter(0, Batch) : r.seq <= purge.upTo}
  <2>1. /\ Discard(gone) /\ purge.at = "delete" /\ purge' \in {Idle, purge}
        /\ UNCHANGED <<writerVars, cutoff>>
    BY <1>4 DEF PurgeDelete
  <2>2. rows' = rows \ gone
    BY <2>1 DEF Discard
  <2>3. Expired' \subseteq Expired
    BY <2>1, <2>2 DEF Expired
  <2>4. purge.upTo \in Nat
    BY <2>1 DEF Typed, PurgeTyped, PurgeShape, Idle
  <2>5. ASSUME NEW r \in rows, OutOfReach(r) PROVE r \in rows' /\ OutOfReach(r)'
    <3>1. purge.upTo < r.seq
      BY <2>1, <2>5 DEF OutOfReach
    <3>2. r \notin gone
      BY <1>0, <2>4, <3>1
    <3>3. purge'.at = "delete" => purge' = purge
      BY <2>1 DEF Idle
    <3> HIDE DEF gone
    <3>4. \A q \in Expired' : q.seq < r.seq
      BY <2>3, <2>5 DEF OutOfReach
    <3> QED BY <2>2, <3>1, <3>2, <3>3, <3>4 DEF OutOfReach
  <2> HIDE DEF gone
  <2> QED BY <2>1, <2>5, RetentionOrder
<1> QED
  BY <1>1, <1>2, <1>3, <1>4, WriterOrder, PublishOrder, ExpireOrder
  DEF Next, vars, VerifyStart, VerifyCheckpoint, VerifyPage, VerifyEnd, SinkRead, SinkDeliver,
      SinkAdvance, purgeVars

(* Nothing is published.                                                    *)
LEMMA InitOrder == ASSUME Init PROVE OrderInv
<1>1. /\ Range(<<>>) = {} /\ Len(<<>>) = 0 /\ 1..0 = {}
      /\ \A n \in Nodes : /\ published[n] = <<>> /\ queue[n] = <<>> /\ parked[n] = <<>>
                          /\ singly[n] = <<>>
      /\ recorded = <<>> /\ lost = {} /\ cutoff = 0
  BY EmptyLine DEF Init
<1>2. PublishedOnce
  BY <1>1 DEF PublishedOnce, Once
<1>3. \A n \in Nodes : Waiting(n) = {}
  BY <1>1 DEF Waiting
<1>4. WaitingInOrder
  BY <1>1 DEF WaitingInOrder, InLine, Sorted, AllBefore
<1>5. RecordedFirst /\ UnheardIsThere
  BY <1>1, <1>3 DEF RecordedFirst, UnheardIsThere
<1>6. Settled
  BY <1>1, <1>3, AuditAssumption DEF Settled
<1>7. InOrderOnce
  BY <1>1 DEF InOrderOnce
<1> QED BY <1>2, <1>4, <1>5, <1>6, <1>7 DEF OrderInv

(* Each node's events are in the chain at most once and in the order they   *)
(* were published (run_writer, write_chain, park): through failures, one at *)
(* a time, retries, and commits whose answer was lost.                      *)
THEOREM Ordered == Spec => []InOrderOnce
<1> DEFINE I == Typed /\ OrderInv
<1>1. Init => I
  BY InitTyped, InitOrder
<1>2. I /\ [Next]_vars => I'
  BY NextTyped, NextOrder
<1>3. I => InOrderOnce
  BY DEF OrderInv
<1> QED BY <1>1, <1>2, <1>3, PTL DEF Spec

-----------------------------------------------------------------------------
(* The queue of outbound messages: proofs about OutboundQueue, for every    *)
(* set of nodes, messages and redeliveries, every limit on attempts and any *)
(* number of faults.                                                        *)
CONSTANTS Messages, Admins, Task, MaxAttempts, MaxQueueFaults
VARIABLES lock, status, attempts, due, stale, tasks, hand, seen, phase, admin, queueFaults,
          deliveries, overwrote
Queue == INSTANCE OutboundQueue WITH MaxFaults <- MaxQueueFaults, faults <- queueFaults

USE DEF Queue!rowVars, Queue!historyVars

(* Every step keeps the types of rows, hands and the lock.                   *)
LEMMA NextQueueTyped ==
    ASSUME Queue!QueueAssumption
    PROVE  Queue!TypeOK /\ [Queue!Next]_(Queue!vars) => Queue!TypeOK'
<1> SUFFICES ASSUME Queue!TypeOK, [Queue!Next]_(Queue!vars) PROVE Queue!TypeOK'
  OBVIOUS
<1> USE DEF Queue!QueueAssumption, Queue!TypeOK, Queue!Actors, Queue!Stages
<1>1. ASSUME NEW m \in Messages, Queue!Enqueue(m) PROVE Queue!TypeOK'
  BY <1>1 DEF Queue!Enqueue
<1>2. ASSUME NEW m \in Messages, Queue!ClaimOne(m) PROVE Queue!TypeOK'
  BY <1>2 DEF Queue!ClaimOne, Queue!Take, Queue!Claimable
<1>3. ASSUME NEW m \in Messages, Queue!TaskLost(m) PROVE Queue!TypeOK'
  BY <1>3 DEF Queue!TaskLost, Queue!Fault
<1>4. ASSUME NEW m \in Messages, Queue!BackoffEnds(m) PROVE Queue!TypeOK'
  BY <1>4 DEF Queue!BackoffEnds
<1>5. ASSUME NEW m \in Messages, Queue!GoesStale(m) PROVE Queue!TypeOK'
  BY <1>5 DEF Queue!GoesStale
<1>6. ASSUME NEW n \in Nodes, Queue!JobStart(n) PROVE Queue!TypeOK'
  BY <1>6 DEF Queue!JobStart, Queue!Acquire
<1>7. ASSUME NEW n \in Nodes, Queue!JobRequeue(n) PROVE Queue!TypeOK'
  BY <1>7 DEF Queue!JobRequeue
<1>8. ASSUME NEW n \in Nodes, Queue!JobClaim(n) PROVE Queue!TypeOK'
  BY <1>8 DEF Queue!JobClaim, Queue!Take, Queue!Claimable
<1>9. ASSUME NEW n \in Nodes, Queue!JobSkip(n) PROVE Queue!TypeOK'
  BY <1>9 DEF Queue!JobSkip
<1>10. ASSUME NEW n \in Nodes, Queue!JobEnd(n) PROVE Queue!TypeOK'
  BY <1>10 DEF Queue!JobEnd, Queue!Release, Queue!Free
<1>11. ASSUME NEW n \in Nodes, Queue!JobFail(n) PROVE Queue!TypeOK'
  BY <1>11 DEF Queue!JobFail, Queue!Fault, Queue!Free
<1>12. ASSUME Queue!LockLapse PROVE Queue!TypeOK'
  BY <1>12 DEF Queue!LockLapse, Queue!Lapse, Queue!Fault
<1>13. ASSUME NEW x \in Queue!Actors, NEW m \in Messages, NEW answer \in {"ok", "retry",
              "reject"}, Queue!Send(x, m, answer)
       PROVE Queue!TypeOK'
  BY <1>13 DEF Queue!Send, Queue!Count
<1>14. ASSUME NEW x \in Queue!Actors, NEW m \in Messages, Queue!Record(x, m) PROVE Queue!TypeOK'
  BY <1>14 DEF Queue!Record, Queue!GivesUp
<1>15. ASSUME NEW x \in Queue!Actors, NEW m \in Messages, Queue!SendUnheard(x, m)
              PROVE Queue!TypeOK'
  BY <1>15 DEF Queue!SendUnheard, Queue!Count, Queue!Fault
<1>16. ASSUME NEW x \in Queue!Actors, NEW m \in Messages, Queue!DeliverFails(x, m)
              PROVE Queue!TypeOK'
  BY <1>16 DEF Queue!DeliverFails, Queue!Fault
<1>17. ASSUME NEW a \in Admins, NEW m \in Messages, Queue!RedeliverFind(a, m) PROVE Queue!TypeOK'
  BY <1>17 DEF Queue!RedeliverFind
<1>18. ASSUME NEW a \in Admins, NEW m \in Messages, Queue!Redeliver(a, m) PROVE Queue!TypeOK'
  BY <1>18 DEF Queue!Redeliver
<1>19. ASSUME UNCHANGED Queue!vars PROVE Queue!TypeOK'
  BY <1>19 DEF Queue!vars
<1> HIDE DEF Queue!TypeOK, Queue!Actors, Queue!Stages
<1> QED
  BY <1>1, <1>2, <1>3, <1>4, <1>5, <1>6, <1>7, <1>8, <1>9, <1>10, <1>11, <1>12,
     <1>13, <1>14, <1>15, <1>16, <1>17, <1>18, <1>19
     DEF Queue!Next, Queue!PassStep, Queue!Deliver, Queue!Answer

(* The types of every variable, for any number of nodes and messages.        *)
THEOREM QueueTypeCorrect ==
    ASSUME Queue!QueueAssumption
    PROVE  Queue!Spec => []Queue!TypeOK
<1>1. Queue!Init => Queue!TypeOK
  BY DEF Queue!QueueAssumption, Queue!Init, Queue!LockInit, Queue!TypeOK, Queue!Actors,
     Queue!Stages, Queue!Free
<1> QED
  BY <1>1, NextQueueTyped, PTL DEF Queue!Spec

-----------------------------------------------------------------------------
(* What makes ClaimIsExclusive inductive: a message in hand was not claimed  *)
(* STALE_AFTER ago, so requeue_stale_all leaves it alone.                    *)
HandIsFresh ==
    overwrote \subseteq {"dead"} =>
        \A x \in Queue!Actors, m \in Messages :
            Queue!InHand(x, m) => status[m] = "sending" /\ m \notin stale
ClaimInv == HandIsFresh /\ Queue!ClaimIsExclusive

(* Every step keeps ClaimInv: a claim takes only queued rows, which nobody   *)
(* has in hand, and only the one who has a row in hand records it.           *)
LEMMA NextClaimInv ==
    ASSUME Queue!QueueAssumption
    PROVE  Queue!TypeOK /\ ClaimInv /\ [Queue!Next]_(Queue!vars) => ClaimInv'
<1> SUFFICES ASSUME Queue!TypeOK, ClaimInv, [Queue!Next]_(Queue!vars) PROVE ClaimInv'
  OBVIOUS
<1> USE DEF Queue!QueueAssumption, Queue!TypeOK, ClaimInv, HandIsFresh, Queue!ClaimIsExclusive,
        Queue!InHand, Queue!Actors,
        Queue!Stages
<1>1. ASSUME NEW m \in Messages, Queue!Enqueue(m) PROVE ClaimInv'
  BY <1>1 DEF Queue!Enqueue
<1>2. ASSUME NEW m \in Messages, Queue!ClaimOne(m) PROVE ClaimInv'
  BY <1>2 DEF Queue!ClaimOne, Queue!Take, Queue!Claimable
<1>3. ASSUME NEW m \in Messages, Queue!TaskLost(m) PROVE ClaimInv'
  BY <1>3 DEF Queue!TaskLost, Queue!Fault
<1>4. ASSUME NEW m \in Messages, Queue!BackoffEnds(m) PROVE ClaimInv'
  BY <1>4 DEF Queue!BackoffEnds
<1>5. ASSUME NEW m \in Messages, Queue!GoesStale(m) PROVE ClaimInv'
  BY <1>5 DEF Queue!GoesStale
<1>6. ASSUME NEW n \in Nodes, Queue!JobStart(n) PROVE ClaimInv'
  BY <1>6 DEF Queue!JobStart, Queue!Acquire
<1>7. ASSUME NEW n \in Nodes, Queue!JobRequeue(n) PROVE ClaimInv'
  BY <1>7 DEF Queue!JobRequeue
<1>8. ASSUME NEW n \in Nodes, Queue!JobClaim(n) PROVE ClaimInv'
  BY <1>8 DEF Queue!JobClaim, Queue!Take, Queue!Claimable
<1>9. ASSUME NEW n \in Nodes, Queue!JobSkip(n) PROVE ClaimInv'
  BY <1>9 DEF Queue!JobSkip
<1>10. ASSUME NEW n \in Nodes, Queue!JobEnd(n) PROVE ClaimInv'
  BY <1>10 DEF Queue!JobEnd, Queue!Release, Queue!Free
<1>11. ASSUME NEW n \in Nodes, Queue!JobFail(n) PROVE ClaimInv'
  BY <1>11 DEF Queue!JobFail, Queue!Fault, Queue!Free
<1>12. ASSUME Queue!LockLapse PROVE ClaimInv'
  BY <1>12 DEF Queue!LockLapse, Queue!Lapse, Queue!Fault
<1>13. ASSUME NEW x \in Queue!Actors, NEW m \in Messages, NEW answer \in {"ok", "retry",
              "reject"}, Queue!Send(x, m, answer)
       PROVE ClaimInv'
  BY <1>13 DEF Queue!Send, Queue!Count
<1>14. ASSUME NEW x \in Queue!Actors, NEW m \in Messages, Queue!Record(x, m) PROVE ClaimInv'
  BY <1>14 DEF Queue!Record, Queue!GivesUp
<1>15. ASSUME NEW x \in Queue!Actors, NEW m \in Messages, Queue!SendUnheard(x, m) PROVE ClaimInv'
  BY <1>15 DEF Queue!SendUnheard, Queue!Count, Queue!Fault
<1>16. ASSUME NEW x \in Queue!Actors, NEW m \in Messages, Queue!DeliverFails(x, m) PROVE ClaimInv'
  BY <1>16 DEF Queue!DeliverFails, Queue!Fault
<1>17. ASSUME NEW a \in Admins, NEW m \in Messages, Queue!RedeliverFind(a, m) PROVE ClaimInv'
  BY <1>17 DEF Queue!RedeliverFind
<1>18. ASSUME NEW a \in Admins, NEW m \in Messages, Queue!Redeliver(a, m) PROVE ClaimInv'
  <2>1. overwrote' \subseteq {"dead"} => overwrote \subseteq {"dead"} /\ status[m] = "dead"
    BY <1>18 DEF Queue!Redeliver
  <2>2. overwrote' \subseteq {"dead"} => \A x \in Queue!Actors : hand[x][m] = "free"
    BY <2>1
  <2> QED BY <1>18, <2>1, <2>2 DEF Queue!Redeliver
<1>19. ASSUME UNCHANGED Queue!vars PROVE ClaimInv'
  BY <1>19 DEF Queue!vars
<1> HIDE DEF Queue!TypeOK, ClaimInv, HandIsFresh, Queue!ClaimIsExclusive, Queue!InHand,
        Queue!Actors, Queue!Stages
<1> QED
  BY <1>1, <1>2, <1>3, <1>4, <1>5, <1>6, <1>7, <1>8, <1>9, <1>10, <1>11, <1>12,
     <1>13, <1>14, <1>15, <1>16, <1>17, <1>18, <1>19
     DEF Queue!Next, Queue!PassStep, Queue!Deliver, Queue!Answer

(* ClaimInv holds in every reachable state.                                  *)
LEMMA ClaimInvariance ==
    ASSUME Queue!QueueAssumption
    PROVE  Queue!Spec => [](Queue!TypeOK /\ ClaimInv)
<1>1. Queue!Init => ClaimInv
  BY DEF Queue!Init, ClaimInv, HandIsFresh, Queue!ClaimIsExclusive, Queue!InHand, Queue!Actors,
     Queue!Free
<1> QED
  BY <1>1, NextClaimInv, QueueTypeCorrect, PTL DEF Queue!Spec

(* No two passes or tasks have the same message in hand, whatever lapses,    *)
(* crashes and requeues happen (claim_one, claim_due, requeue_stale_all).    *)
THEOREM ClaimsAreExclusive ==
    ASSUME Queue!QueueAssumption
    PROVE  Queue!Spec => []Queue!ClaimIsExclusive
  BY ClaimInvariance, PTL DEF ClaimInv

-----------------------------------------------------------------------------
(* What makes DeliveredOnce inductive, as long as nothing failed: a row that *)
(* is sending is in somebody's hand, and the provider has taken exactly the  *)
(* messages that are sent or about to be recorded so.                        *)
Faultless == queueFaults = 0 /\ overwrote \subseteq {"dead"}
SendingIsInHand ==
    \A m \in Messages : status[m] = "sending" => \E x \in Queue!Actors : Queue!InHand(x, m)
AcceptedIsRecorded ==
    \A m \in Messages :
        /\ status[m] \in {"none", "queued", "dead"} => deliveries[m] = 0
        /\ deliveries[m] <= 1
        /\ \A x \in Queue!Actors :
              hand[x][m] \in {"claimed", "retry", "reject"} => deliveries[m] = 0
DeliveryInv == Faultless => SendingIsInHand /\ AcceptedIsRecorded

(* Every step keeps DeliveryInv: a message the provider took is only ever    *)
(* recorded as sent, and only rows never taken are queued again.             *)
LEMMA NextDeliveryInv ==
    ASSUME Queue!QueueAssumption
    PROVE  Queue!TypeOK /\ ClaimInv /\ DeliveryInv /\ [Queue!Next]_(Queue!vars) => DeliveryInv'
<1> SUFFICES ASSUME Queue!TypeOK, ClaimInv, DeliveryInv, [Queue!Next]_(Queue!vars)
                    PROVE DeliveryInv'
  OBVIOUS
<1> USE DEF Queue!QueueAssumption, Queue!TypeOK, ClaimInv, HandIsFresh, Queue!ClaimIsExclusive,
        Queue!InHand, Queue!Actors,
        Queue!Stages, DeliveryInv, Faultless, SendingIsInHand, AcceptedIsRecorded
<1>1. ASSUME NEW m \in Messages, Queue!Enqueue(m) PROVE DeliveryInv'
  BY <1>1 DEF Queue!Enqueue
<1>2. ASSUME NEW m \in Messages, Queue!ClaimOne(m) PROVE DeliveryInv'
  BY <1>2 DEF Queue!ClaimOne, Queue!Take, Queue!Claimable
<1>3. ASSUME NEW m \in Messages, Queue!TaskLost(m) PROVE DeliveryInv'
  BY <1>3 DEF Queue!TaskLost, Queue!Fault
<1>4. ASSUME NEW m \in Messages, Queue!BackoffEnds(m) PROVE DeliveryInv'
  BY <1>4 DEF Queue!BackoffEnds
<1>5. ASSUME NEW m \in Messages, Queue!GoesStale(m) PROVE DeliveryInv'
  BY <1>5 DEF Queue!GoesStale
<1>6. ASSUME NEW n \in Nodes, Queue!JobStart(n) PROVE DeliveryInv'
  BY <1>6 DEF Queue!JobStart, Queue!Acquire
<1>7. ASSUME NEW n \in Nodes, Queue!JobRequeue(n) PROVE DeliveryInv'
  BY <1>7 DEF Queue!JobRequeue
<1>8. ASSUME NEW n \in Nodes, Queue!JobClaim(n) PROVE DeliveryInv'
  BY <1>8 DEF Queue!JobClaim, Queue!Take, Queue!Claimable
<1>9. ASSUME NEW n \in Nodes, Queue!JobSkip(n) PROVE DeliveryInv'
  BY <1>9 DEF Queue!JobSkip
<1>10. ASSUME NEW n \in Nodes, Queue!JobEnd(n) PROVE DeliveryInv'
  BY <1>10 DEF Queue!JobEnd, Queue!Release, Queue!Free
<1>11. ASSUME NEW n \in Nodes, Queue!JobFail(n) PROVE DeliveryInv'
  BY <1>11 DEF Queue!JobFail, Queue!Fault, Queue!Free
<1>12. ASSUME Queue!LockLapse PROVE DeliveryInv'
  BY <1>12 DEF Queue!LockLapse, Queue!Lapse, Queue!Fault
<1>13. ASSUME NEW x \in Queue!Actors, NEW m \in Messages, NEW answer \in {"ok", "retry",
              "reject"}, Queue!Send(x, m, answer)
       PROVE DeliveryInv'
  BY <1>13 DEF Queue!Send, Queue!Count
<1>14. ASSUME NEW x \in Queue!Actors, NEW m \in Messages, Queue!Record(x, m) PROVE DeliveryInv'
  BY <1>14 DEF Queue!Record, Queue!GivesUp
<1>15. ASSUME NEW x \in Queue!Actors, NEW m \in Messages, Queue!SendUnheard(x, m) PROVE DeliveryInv'
  BY <1>15 DEF Queue!SendUnheard, Queue!Count, Queue!Fault
<1>16. ASSUME NEW x \in Queue!Actors, NEW m \in Messages, Queue!DeliverFails(x, m)
              PROVE DeliveryInv'
  BY <1>16 DEF Queue!DeliverFails, Queue!Fault
<1>17. ASSUME NEW a \in Admins, NEW m \in Messages, Queue!RedeliverFind(a, m) PROVE DeliveryInv'
  BY <1>17 DEF Queue!RedeliverFind
<1>18. ASSUME NEW a \in Admins, NEW m \in Messages, Queue!Redeliver(a, m) PROVE DeliveryInv'
  <2>1. overwrote' \subseteq {"dead"} => overwrote \subseteq {"dead"} /\ status[m] = "dead"
    BY <1>18 DEF Queue!Redeliver
  <2>2. overwrote' \subseteq {"dead"} => \A x \in Queue!Actors : hand[x][m] = "free"
    BY <2>1
  <2> QED BY <1>18, <2>1, <2>2 DEF Queue!Redeliver
<1>19. ASSUME UNCHANGED Queue!vars PROVE DeliveryInv'
  BY <1>19 DEF Queue!vars
<1> HIDE DEF Queue!TypeOK, ClaimInv, HandIsFresh, Queue!ClaimIsExclusive, Queue!InHand,
        Queue!Actors, Queue!Stages,
         DeliveryInv, Faultless, SendingIsInHand, AcceptedIsRecorded
<1> QED
  BY <1>1, <1>2, <1>3, <1>4, <1>5, <1>6, <1>7, <1>8, <1>9, <1>10, <1>11, <1>12,
     <1>13, <1>14, <1>15, <1>16, <1>17, <1>18, <1>19
     DEF Queue!Next, Queue!PassStep, Queue!Deliver, Queue!Answer

(* Without a fault the provider takes a message at most once, through the    *)
(* background task, the job's retries and a redelivery of a dead letter.     *)
THEOREM NoDuplicateWithoutFault ==
    ASSUME Queue!QueueAssumption
    PROVE  Queue!Spec => []Queue!DeliveredOnce
<1>1. Queue!Init => DeliveryInv
  BY DEF Queue!Init, DeliveryInv, SendingIsInHand, AcceptedIsRecorded, Queue!Actors, Queue!Free
<1>2. DeliveryInv => Queue!DeliveredOnce
  BY DEF DeliveryInv, Faultless, AcceptedIsRecorded, Queue!DeliveredOnce
<1> QED
  BY <1>1, <1>2, NextDeliveryInv, ClaimInvariance, PTL DEF Queue!Spec
=============================================================================
