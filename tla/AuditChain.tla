----------------------------- MODULE AuditChain -----------------------------
(***************************************************************************)
(* One audit chain (services/audit.rs over repos/audit.rs and              *)
(* repos/audit_chains.rs): every node's writer appends to it, the          *)
(* verification job walks it, the retention job cuts it, and the export    *)
(* worker ships it.                                                        *)
(*                                                                         *)
(* An append takes the chain's advisory lock, so it is one step; the       *)
(* others read and write the rows page by page, each page a transaction of *)
(* its own, and take no lock of the chain.  A row's hash stands for the    *)
(* row itself: a row names the event before it, and nobody tampers.        *)
(***************************************************************************)
EXTENDS Naturals, Sequences, SequencesExt, FiniteSetsExt

CONSTANTS
    Nodes,
    Events,
    Source,      \* Source[e]: the node that publishes e
    OccurredAt,  \* OccurredAt[e]: when it occurred
    MonthEnd,    \* when the first monthly partition ends
    Bad,         \* events whose insert fails for a reason of their own
    Limit,       \* bound of the code: events a writer's queue, or its park, holds
    Page,        \* bound of the code: rows per page of a walk
    Batch,       \* bound of the code: rows per delivery to the sink
    MaxCutoff,   \* bound: how far the retention's cutoff moves
    MaxFaults,   \* bound: databases and receivers that cannot be reached
    None

ASSUME AuditAssumption ==
    /\ Source \in [Events -> Nodes] /\ OccurredAt \in [Events -> Nat]
    /\ Bad \subseteq Events /\ None \notin Events
    /\ {Limit, Page, Batch} \subseteq Nat \ {0} /\ {MonthEnd, MaxCutoff, MaxFaults} \subseteq Nat

VARIABLES
    published,   \* history: published[n], the events of n in order
    queue,       \* queue[n]: the durable subscription of n's writer
    parked,      \* parked[n]: events that wait for the chain
    singly,      \* singly[n]: events being recorded one at a time
    rows,        \* the retained rows
    head,        \* head_seq and head_hash of the chain's audit_chains row
    verified,    \* verified_seq, 0 when there is none
    verifiedRow, \* verified_hash: the row it is the hash of
    broken,      \* broken_at_seq, 0 when there is none
    walk,        \* the verification in progress
    cutoff,      \* rows that occurred before it have expired
    purge,       \* the retention pass in progress
    sinkSeq,     \* the sink's cursor
    sink,        \* the export pass in progress
    faults,
    recorded,    \* history: the events appended, in order
    lost,        \* history: events dropped from a full park, or refused
    shipped,     \* history: sequence numbers the receiver got
    leapt,       \* history: sequence numbers the cursor was moved over
    purged,      \* history: sequence numbers retention removed
    torn,        \* history: a dropped month was not a prefix of the chain
    raced        \* history: retention removed rows under the walk

writerVars == <<published, queue, parked, singly, recorded, lost>>
chainVars == <<rows, head>>
verifyVars == <<verified, verifiedRow, broken, walk, raced>>
purgeVars == <<cutoff, purge, purged, torn>>
sinkVars == <<sinkSeq, sink, shipped, leapt>>
vars == <<writerVars, chainVars, verifyVars, purgeVars, sinkVars, faults>>

Seqs == {r.seq : r \in rows}
RowsAfter(s, n) ==     \* chain_page: the first n rows after s, by seq
    {r \in rows : r.seq > s /\ Cardinality({q \in Seqs : s < q /\ q < r.seq}) < n}
LastOf(page) == Max({r.seq : r \in page})
LastRow(page) == CHOOSE r \in page : r.seq = LastOf(page)
Idle == [at |-> "idle"]

Init ==
    /\ published = [n \in Nodes |-> <<>>] /\ queue = published
    /\ parked = published /\ singly = published
    /\ rows = {} /\ head = [seq |-> 0, event |-> None]
    /\ verified = 0 /\ verifiedRow = None /\ broken = 0 /\ walk = Idle
    /\ cutoff = 0 /\ purge = Idle
    /\ sinkSeq = 0 /\ sink = Idle /\ faults = 0
    /\ recorded = <<>> /\ lost = {} /\ shipped = {} /\ leapt = {} /\ purged = {}
    /\ torn = FALSE /\ raced = FALSE

Fault == faults < MaxFaults /\ faults' = faults + 1

-----------------------------------------------------------------------------
(* The writer of each node.                                                 *)

(* Events are published as they occur; a full queue drops the new one.      *)
Published == UNION {Range(published[n]) : n \in Nodes}
Publish(e) ==
    /\ e \notin Published
    /\ \A f \in Events : OccurredAt[f] < OccurredAt[e] => f \in Published
    /\ published' = [published EXCEPT ![Source[e]] = Append(@, e)]
    /\ IF Len(queue[Source[e]]) < Limit
       THEN queue' = [queue EXCEPT ![Source[e]] = Append(@, e)] /\ UNCHANGED lost
       ELSE lost' = lost \cup {e} /\ UNCHANGED queue
    /\ UNCHANGED <<parked, singly, recorded, chainVars, verifyVars, purgeVars, sinkVars,
                   faults>>

(* park: past the limit the oldest are dropped.                             *)
Park(n, events) ==
    LET over == IF Len(events) > Limit THEN Len(events) - Limit ELSE 0
    IN  /\ parked' = [parked EXCEPT ![n] = SubSeq(events, over + 1, Len(events))]
        /\ lost' = lost \cup Range(SubSeq(events, 1, over))

(* The head an append follows: the one kept with the chain.                 *)
ChainHead == head

(* record_chain: the events follow the head in one transaction, and the     *)
(* head moves to the last of them.  An event whose row is there already, or *)
(* that is at fault itself, is refused.                                     *)
Refused(e) == e \in Bad \/ \E r \in rows : r.event = e

RecordChain(events) ==
    /\ \A i \in 1..Len(events) : ~ Refused(events[i])
    /\ rows' = rows \cup
         {[seq |-> ChainHead.seq + i, event |-> events[i],
           prev |-> IF i = 1 THEN ChainHead.event ELSE events[i - 1]] : i \in 1..Len(events)}
    /\ head' = [seq |-> ChainHead.seq + Len(events), event |-> events[Len(events)]]
    /\ recorded' = recorded \o events

(* log_failure: an event that is not in the chain is lost.                  *)
GiveUp(e) == lost' = IF e \in Range(recorded) THEN lost ELSE lost \cup {e}

(* write_chain: the batch is in; or some event of it is refused, and they   *)
(* are recorded one at a time; or the chain cannot be reached, and they are *)
(* parked (the commit may have gone through all the same).                  *)
WriteChain(n, events) ==
    \/ /\ RecordChain(events)
       /\ parked' = [parked EXCEPT ![n] = <<>>]
       /\ UNCHANGED <<singly, lost, faults>>
    \/ /\ \E i \in 1..Len(events) : Refused(events[i])
       /\ parked' = [parked EXCEPT ![n] = <<>>]
       /\ IF Len(events) > 1 THEN singly' = [singly EXCEPT ![n] = events] /\ UNCHANGED lost
          ELSE GiveUp(events[1]) /\ UNCHANGED singly
       /\ UNCHANGED <<chainVars, recorded, faults>>
    \/ /\ Fault /\ Park(n, events)
       /\ RecordChain(events) \/ UNCHANGED <<chainVars, recorded>>
       /\ UNCHANGED singly

(* Mutant of WriterReceives: the new events do not wait for the parked ones.*)
WriterOvertakes(n) ==
    /\ queue[n] # <<>> /\ singly[n] = <<>>
    /\ queue' = [queue EXCEPT ![n] = <<>>]
    /\ RecordChain(queue[n]) \/ UNCHANGED <<chainVars, recorded>>
    /\ IF rows' = rows THEN Fault /\ Park(n, parked[n] \o queue[n])
       ELSE UNCHANGED <<parked, lost, faults>>
    /\ UNCHANGED <<published, singly, verifyVars, purgeVars, sinkVars>>

(* The writer takes its queue; behind parked events it only queues up.      *)
WriterReceives(n) ==
    /\ queue[n] # <<>> /\ singly[n] = <<>>
    /\ queue' = [queue EXCEPT ![n] = <<>>]
    /\ IF parked[n] = <<>> THEN WriteChain(n, queue[n])
       ELSE Park(n, parked[n] \o queue[n]) /\ UNCHANGED <<chainVars, recorded, singly, faults>>
    /\ UNCHANGED <<published, verifyVars, purgeVars, sinkVars>>

(* Mutant of WriterRetries: only a new event has the parked ones retried.   *)
WriterRetriesOnArrival(n) ==
    /\ parked[n] # <<>> /\ singly[n] = <<>> /\ queue[n] # <<>>
    /\ WriteChain(n, parked[n])
    /\ UNCHANGED <<published, queue, verifyVars, purgeVars, sinkVars>>

(* Every few seconds what is parked is tried again.                         *)
WriterRetries(n) ==
    /\ parked[n] # <<>> /\ singly[n] = <<>>
    /\ WriteChain(n, parked[n])
    /\ UNCHANGED <<published, queue, verifyVars, purgeVars, sinkVars>>

(* One at a time: a refused event is logged and skipped; this one and the   *)
(* rest are parked when the chain cannot be reached (again, the commit may  *)
(* have gone through).                                                      *)
WriterOne(n) ==
    LET e == singly[n][1] IN
    /\ singly[n] # <<>>
    /\ \/ /\ Refused(e) /\ GiveUp(e)
          /\ singly' = [singly EXCEPT ![n] = Tail(@)]
          /\ UNCHANGED <<chainVars, recorded, parked, faults>>
       \/ /\ RecordChain(<<e>>) /\ singly' = [singly EXCEPT ![n] = Tail(@)]
          /\ UNCHANGED <<parked, lost, faults>>
       \/ /\ Fault /\ Park(n, singly[n]) /\ singly' = [singly EXCEPT ![n] = <<>>]
          /\ RecordChain(<<e>>) \/ UNCHANGED <<chainVars, recorded>>
    /\ UNCHANGED <<published, queue, verifyVars, purgeVars, sinkVars>>

-----------------------------------------------------------------------------
(* verify_one, for the daily job and the verify request of a chain.         *)

(* The state the check starts from: a checkpoint, unless a break is known.  *)
(* A walk carries the row it has got to (none: 0) and the last it checked.  *)
VerifyStart ==
    /\ walk = Idle /\ head.seq # 0
    /\ walk' = IF verified # 0 /\ broken = 0
               THEN [at |-> "checkpoint", seq |-> verified, event |-> verifiedRow, last |-> 0]
               ELSE [at |-> "walk", seq |-> 0, event |-> None, last |-> 0]
    /\ raced' = FALSE
    /\ UNCHANGED <<verified, verifiedRow, broken, writerVars, chainVars, purgeVars, sinkVars,
                   faults>>

(* checkpoint_intact: a checkpoint that retention has removed is forgotten, *)
(* and one whose row is not the one it was is a break.                      *)
VerifyCheckpoint ==
    /\ walk.at = "checkpoint"
    /\ walk' = IF walk.seq \notin Seqs
               THEN [at |-> "walk", seq |-> 0, event |-> None, last |-> 0]
               ELSE [walk EXCEPT !.at = IF \E r \in rows : r.seq = walk.seq /\ r.event # walk.event
                                        THEN "broken" ELSE "walk"]
    /\ UNCHANGED <<verified, verifiedRow, broken, raced, writerVars, chainVars, purgeVars,
                   sinkVars, faults>>

(* Mutant of Follows: the first retained row must be the first of all.      *)
FollowsFromOne(r, p) ==
    r.seq = p.seq + 1 /\ (p.seq = 0 \/ r.prev = p.event)

(* Verifier.check of r after the row p, of this page or of the one before   *)
(* (0: there is none, and r is taken on trust).                             *)
Follows(r, p) ==
    p.seq = 0 \/ (r.seq = p.seq + 1 /\ r.prev = p.event)

(* A page of the walk: the first row that does not follow is the break; a   *)
(* short page is the last one.                                              *)
VerifyPage ==
    LET page == RowsAfter(walk.seq, Page)
        before(r) == LET older == {q \in page : q.seq < r.seq}
                     IN  IF older = {} THEN walk ELSE LastRow(older)
        wrong == {r.seq : r \in {r \in page : ~ Follows(r, before(r))}}
    IN  /\ walk.at = "walk"
        /\ walk' = IF wrong # {}
                   THEN [at |-> "broken", seq |-> Min(wrong), event |-> None, last |-> 0]
                   ELSE IF page = {} THEN [walk EXCEPT !.at = "good"]
                   ELSE [at |-> IF Cardinality(page) < Page THEN "good" ELSE "walk",
                         seq |-> LastOf(page), event |-> LastRow(page).event,
                         last |-> LastOf(page)]
        /\ UNCHANGED <<verified, verifiedRow, broken, raced, writerVars, chainVars, purgeVars,
                       sinkVars, faults>>

(* set_verified or set_broken; a walk that saw no row changes neither.      *)
VerifyEnd ==
    /\ walk.at \in {"good", "broken"}
    /\ IF walk.at = "broken" THEN broken' = walk.seq /\ UNCHANGED <<verified, verifiedRow>>
       ELSE IF walk.last = 0 THEN UNCHANGED <<verified, verifiedRow, broken>>
       ELSE verified' = walk.last /\ verifiedRow' = walk.event /\ broken' = 0
    /\ walk' = Idle
    /\ UNCHANGED <<raced, writerVars, chainVars, purgeVars, sinkVars, faults>>

-----------------------------------------------------------------------------
(* The retention job.                                                       *)

Expired == {r \in rows : OccurredAt[r.event] < cutoff}
Discard(gone) ==
    /\ rows' = rows \ gone
    /\ purged' = purged \cup {r.seq : r \in gone}
    /\ raced' = (raced \/ (gone # {} /\ walk # Idle))

(* Time passes: days, when a retry comes after seconds, so by the time an   *)
(* event expires it is recorded or lost, and no retry of it is due.         *)
Expire ==
    /\ purge = Idle /\ cutoff < MaxCutoff
    /\ \A e \in Events : OccurredAt[e] = cutoff => e \in Range(recorded) \cup lost
    /\ \A n \in Nodes : Range(queue[n] \o parked[n] \o singly[n]) \cap Range(recorded) = {}
    /\ cutoff' = cutoff + 1
    /\ UNCHANGED <<purge, purged, torn, writerVars, chainVars, verifyVars, sinkVars, faults>>

(* drop_expired_partitions: the rows of a month that ended before the       *)
(* longest retention of any chain (here one unit more than this chain's) go *)
(* with its partition, wherever they stand in the chain.                    *)
DropPartition ==
    /\ purge = Idle /\ cutoff > MonthEnd
    /\ LET gone == {r \in rows : OccurredAt[r.event] < MonthEnd}
       IN  /\ Discard(gone)
           /\ torn' = (torn \/ \E r \in gone, q \in rows \ gone : q.seq < r.seq)
    /\ purge' = [at |-> "find"]
    /\ UNCHANGED <<cutoff, head, verified, verifiedRow, broken, walk, writerVars, sinkVars, faults>>

(* purge: everything up to the newest expired row is to go.                 *)
PurgeFind ==
    /\ purge.at = "find" \/ (purge = Idle /\ cutoff <= MonthEnd)
    /\ purge' = IF Expired = {} THEN Idle ELSE [at |-> "delete", upTo |-> LastOf(Expired)]
    /\ Expired # {} \/ purge # Idle
    /\ UNCHANGED <<cutoff, purged, torn, writerVars, chainVars, verifyVars, sinkVars, faults>>

(* Mutant of PurgeDelete: only the rows that have expired are deleted.      *)
PurgeDeleteExpired ==
    /\ purge.at = "delete"
    /\ Discard(Expired) /\ purge' = Idle
    /\ UNCHANGED <<cutoff, torn, head, verified, verifiedRow, broken, walk, writerVars, sinkVars,
                   faults>>

(* purge_prefix, batch by batch.                                            *)
PurgeDelete ==
    LET gone == {r \in RowsAfter(0, Batch) : r.seq <= purge.upTo} IN
    /\ purge.at = "delete"
    /\ Discard(gone) /\ purge' = IF Cardinality(gone) < Batch THEN Idle ELSE purge
    /\ UNCHANGED <<cutoff, torn, head, verified, verifiedRow, broken, walk, writerVars, sinkVars,
                   faults>>

-----------------------------------------------------------------------------
(* The export worker.  Its leader lock keeps other nodes out; a second one  *)
(* that got in when the lock lapsed would only move the cursor forward.     *)

(* pending: a chain whose head is past the cursor; then the first rows.     *)
SinkRead ==
    /\ sink = Idle /\ head.seq > sinkSeq
    /\ sink' = [at |-> IF RowsAfter(sinkSeq, Batch) = {} THEN "leap" ELSE "deliver",
                seqs |-> {r.seq : r \in RowsAfter(sinkSeq, Batch)}]
    /\ UNCHANGED <<sinkSeq, shipped, leapt, writerVars, chainVars, verifyVars, purgeVars, faults>>

(* The receiver answers, or the pass ends with the cursor where it was (the *)
(* receiver may have got the rows).                                         *)
SinkDeliver ==
    /\ sink.at = "deliver"
    /\ \/ shipped' = shipped \cup sink.seqs /\ sink' = [sink EXCEPT !.at = "advance"]
          /\ UNCHANGED faults
       \/ /\ Fault /\ sink' = Idle
          /\ shipped' \in {shipped, shipped \cup sink.seqs}
    /\ UNCHANGED <<sinkSeq, leapt, writerVars, chainVars, verifyVars, purgeVars>>

(* Mutant of SinkAdvance: the cursor goes to the head.                      *)
SinkAdvanceToHead ==
    /\ sink.at \in {"advance", "leap"}
    /\ sinkSeq' = head.seq /\ sink' = Idle
    /\ UNCHANGED <<shipped, leapt, writerVars, chainVars, verifyVars, purgeVars, faults>>

(* advance_sink: to the last row delivered; or, when retention had removed  *)
(* what was waiting, to the head of now.                                    *)
SinkAdvance ==
    /\ sink.at \in {"advance", "leap"}
    /\ sinkSeq' = IF sink.at = "leap" THEN head.seq ELSE Max(sink.seqs \cup {sinkSeq})
    /\ sink' = Idle
    /\ leapt' = IF sink.at = "leap" THEN leapt \cup (Seqs \ 1..sinkSeq) ELSE leapt
    /\ UNCHANGED <<shipped, writerVars, chainVars, verifyVars, purgeVars, faults>>

Next ==
    \/ \E e \in Events : Publish(e)
    \/ \E n \in Nodes : WriterReceives(n) \/ WriterRetries(n) \/ WriterOne(n)
    \/ VerifyStart \/ VerifyCheckpoint \/ VerifyPage \/ VerifyEnd
    \/ Expire \/ DropPartition \/ PurgeFind \/ PurgeDelete
    \/ SinkRead \/ SinkDeliver \/ SinkAdvance

Spec == Init /\ [][Next]_vars

(* The writers keep retrying, and the worker keeps its turns.               *)
Fairness ==
    /\ \A n \in Nodes : WF_vars(WriterReceives(n)) /\ WF_vars(WriterRetries(n))
                        /\ WF_vars(WriterOne(n))
    /\ WF_vars(SinkRead) /\ WF_vars(SinkDeliver) /\ WF_vars(SinkAdvance)

FairSpec == Spec /\ Fairness

-----------------------------------------------------------------------------
TypeOK ==
    /\ published \in [Nodes -> Seq(Events)] /\ queue \in [Nodes -> Seq(Events)]
    /\ \A n \in Nodes : Len(parked[n]) <= Limit
    /\ \A r \in rows : r.seq \in 1..head.seq /\ r.event \in Events
    /\ verified \in 0..head.seq /\ broken \in 0..head.seq /\ sinkSeq \in 0..head.seq
    /\ verifiedRow \in Events \cup {None}
    /\ walk.at \in {"idle", "checkpoint", "walk", "good", "broken"}
    /\ purge.at \in {"idle", "find", "delete"}
    /\ sink.at \in {"idle", "deliver", "advance", "leap"}

(* What retention leaves of the chain is one piece, every row linked to the *)
(* one before it and none numbered twice, unless a month that was dropped   *)
(* held a row later in the chain than one that was kept.                    *)
RetainedIsLinked ==
    /\ \A r, q \in rows : r.seq = q.seq => r = q
    /\ ~ torn => \A r \in rows : r.seq = Min(Seqs) \/
                     \E q \in rows : q.seq + 1 = r.seq /\ r.prev = q.event

(* e stands before f in the sequence s.                                     *)
Before(s, e, f) == \E i, j \in 1..Len(s) : i < j /\ s[i] = e /\ s[j] = f

(* Each node's events are in the chain at most once and in the order they   *)
(* were published, through failures, retries and commits nobody heard of.   *)
InOrderOnce ==
    /\ Range(recorded) \subseteq Published
    /\ \A i, j \in 1..Len(recorded) : i < j =>
         LET e == recorded[i]  f == recorded[j]
         IN  e # f /\ (Source[e] = Source[f] => Before(published[Source[e]], e, f))

(* Nobody tampers here, so a break that is found has another cause: a torn  *)
(* chain, or rows that retention removed while the walk was under way.      *)
AlarmHasACause == walk.at = "broken" => torn \/ raced

(* The one way past a row neither shipped nor purged is the leap to the     *)
(* head, taken by a pass that found every waiting row purged, over a row    *)
(* appended since.                                                          *)
SinkSkipsOnlyInALeap == 1..sinkSeq \subseteq shipped \cup purged \cup leapt

(* The writers catch up: again and again every event published so far is in *)
(* the chain, but for those whose insert is at fault or that a full park    *)
(* dropped.                                                                 *)
WritersCatchUp == []<>(Published = Range(recorded) \cup lost)
=============================================================================
