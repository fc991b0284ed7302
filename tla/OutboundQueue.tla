--------------------------- MODULE OutboundQueue ---------------------------
(***************************************************************************)
(* The outbound message queue (messaging/queue.rs over repos/messages.rs)  *)
(* of one tenant, and the delivery job that every node runs under the      *)
(* leader lock (jobs/message_delivery.rs).                                 *)
(*                                                                         *)
(* A message is claimed in one transaction, handed to the mail or SMS      *)
(* provider, and its outcome recorded in another.  Whoever claimed it has  *)
(* it in hand until then: a job pass on some node, or the background task  *)
(* that send starts for the new message (all of those are Task).           *)
(***************************************************************************)
EXTENDS Naturals, LeaderLock

CONSTANTS
    Messages,
    Admins,       \* redeliver requests, each made once
    Task,         \* the background tasks of send
    MaxAttempts,  \* max_attempts of every message
    MaxFaults     \* bound: crashes, database and provider faults, lost locks

ASSUME QueueAssumption ==
    /\ MaxAttempts \in Nat \ {0} /\ MaxFaults \in Nat
    /\ Task \notin Nodes /\ None \notin Nodes

VARIABLES
    status,      \* status[m] of the row; "none" before it is queued
    attempts,    \* attempts[m] of the row
    due,         \* messages whose next_attempt_at has passed
    stale,       \* messages claimed more than STALE_AFTER ago
    tasks,       \* messages whose background task has not started yet
    hand,        \* hand[x][m]: how far x is with m
    seen,        \* seen[x][m]: the row's attempts when x claimed m
    phase,       \* phase[n]: where node n's pass stands
    admin,       \* admin[a]: the message a redelivery found dead
    faults,      \* faults so far
    deliveries,  \* history: times the provider took m, counted to 2
    overwrote    \* history: statuses a redelivery replaced

vars == <<lock, status, attempts, due, stale, tasks, hand, seen, phase, admin, faults,
          deliveries, overwrote>>
rowVars == <<status, attempts, due, stale>>
historyVars == <<deliveries, overwrote>>

Actors == Nodes \cup {Task}
Stages == {"free", "claimed", "ok", "retry", "reject"}
Free == [m \in Messages |-> "free"]
InHand(x, m) == hand[x][m] # "free"

Init ==
    /\ LockInit
    /\ status = [m \in Messages |-> "none"] /\ attempts = [m \in Messages |-> 0]
    /\ due = {} /\ stale = {} /\ tasks = {}
    /\ hand = [x \in Actors |-> Free]
    /\ seen = [x \in Actors |-> [m \in Messages |-> 0]]
    /\ phase = [n \in Nodes |-> "idle"]
    /\ admin = [a \in Admins |-> "idle"]
    /\ faults = 0 /\ deliveries = [m \in Messages |-> 0] /\ overwrote = {}

Fault == faults < MaxFaults /\ faults' = faults + 1

-----------------------------------------------------------------------------
(* send: the row is committed, then the background task is started.         *)
Enqueue(m) ==
    /\ status[m] = "none"
    /\ status' = [status EXCEPT ![m] = "queued"]
    /\ due' = due \cup {m}
    /\ tasks' = tasks \cup {m}
    /\ UNCHANGED <<lock, attempts, stale, hand, seen, phase, admin, faults, historyVars>>

(* A claim of the rows ms: they are sending, and stamped with the time.     *)
Take(x, ms) ==
    /\ status' = [m \in Messages |-> IF m \in ms THEN "sending" ELSE status[m]]
    /\ stale' = stale \ ms
    /\ hand' = [hand EXCEPT ![x] = [m \in Messages |->
                  IF m \in ms THEN "claimed" ELSE @[m]]]
    /\ seen' = [seen EXCEPT ![x] = [m \in Messages |->
                  IF m \in ms THEN attempts[m] ELSE @[m]]]
    /\ UNCHANGED <<attempts, due>>

(* Mutant of Claimable: the row's status is not looked at.                  *)
ClaimableAny == {m \in due : status[m] \in {"queued", "sending"}}
(* What the claiming UPDATEs match.                                         *)
Claimable == {m \in due : status[m] = "queued"}

(* deliver_one: claim_one finds the row still queued, or there is nothing   *)
(* left to do.                                                              *)
ClaimOne(m) ==
    /\ m \in tasks
    /\ tasks' = tasks \ {m}
    /\ Take(Task, {m} \cap Claimable)
    /\ UNCHANGED <<lock, phase, admin, faults, historyVars>>

-----------------------------------------------------------------------------
(* The delivery job.                                                        *)
JobStart(n) ==
    /\ phase[n] = "idle"
    /\ Acquire(n)
    /\ phase' = [phase EXCEPT ![n] = "requeue"]
    /\ UNCHANGED <<rowVars, tasks, hand, seen, admin, faults, historyVars>>

(* Mutant of JobRequeue: stuck messages are left as they are.               *)
JobRequeueNothing(n) ==
    /\ phase[n] = "requeue"
    /\ phase' = [phase EXCEPT ![n] = "claim"]
    /\ UNCHANGED <<lock, rowVars, tasks, hand, seen, admin, faults, historyVars>>

(* Mutant of JobRequeue: every message that is sending counts as stuck.     *)
JobRequeueAll(n) == LET stuck == {m \in Messages : status[m] = "sending"} IN
    /\ phase[n] = "requeue"
    /\ status' = [m \in Messages |-> IF m \in stuck THEN "queued" ELSE status[m]]
    /\ phase' = [phase EXCEPT ![n] = "claim"]
    /\ UNCHANGED <<lock, attempts, due, stale, tasks, hand, seen, admin, faults, historyVars>>

(* requeue_stale_all: next_attempt_at still is the time of the claim.       *)
JobRequeue(n) == LET stuck == {m \in stale : status[m] = "sending"} IN
    /\ phase[n] = "requeue"
    /\ status' = [m \in Messages |-> IF m \in stuck THEN "queued" ELSE status[m]]
    /\ phase' = [phase EXCEPT ![n] = "claim"]
    /\ UNCHANGED <<lock, attempts, due, stale, tasks, hand, seen, admin, faults, historyVars>>

JobClaim(n) ==
    /\ phase[n] = "claim"
    /\ Take(n, Claimable)
    /\ phase' = [phase EXCEPT ![n] = "deliver"]
    /\ UNCHANGED <<lock, tasks, admin, faults, historyVars>>

(* The pass's budget is spent, or the tenant is relocating.                 *)
JobSkip(n) ==
    /\ phase[n] = "claim"
    /\ phase' = [phase EXCEPT ![n] = "deliver"]
    /\ UNCHANGED <<lock, rowVars, tasks, hand, seen, admin, faults, historyVars>>

JobEnd(n) ==
    /\ phase[n] = "deliver" /\ hand[n] = Free
    /\ Release(n)
    /\ phase' = [phase EXCEPT ![n] = "idle"]
    /\ UNCHANGED <<rowVars, tasks, hand, seen, admin, faults, historyVars>>

(* A database error before the deliveries returns with the lock held; a     *)
(* crash loses what was in hand too.                                        *)
JobFail(n) ==
    /\ phase[n] # "idle" /\ Fault
    /\ hand' = [hand EXCEPT ![n] = Free]
    /\ phase' = [phase EXCEPT ![n] = "idle"]
    /\ UNCHANGED <<lock, rowVars, tasks, seen, admin, historyVars>>

TaskLost(m) ==
    /\ m \in tasks \/ InHand(Task, m)
    /\ Fault
    /\ tasks' = tasks \ {m}
    /\ hand' = [hand EXCEPT ![Task][m] = "free"]
    /\ UNCHANGED <<lock, rowVars, seen, phase, admin, historyVars>>

(* The lock lapses under a pass (a fault), or after one that is gone.       *)
LockLapse ==
    /\ Lapse
    /\ IF phase[lock] = "idle" THEN UNCHANGED faults ELSE Fault
    /\ UNCHANGED <<rowVars, tasks, hand, seen, phase, admin, historyVars>>

-----------------------------------------------------------------------------
(* deliver_claimed: the provider's answer, then its record.                 *)
Count(m) == deliveries' = [deliveries EXCEPT ![m] = IF @ < 2 THEN @ + 1 ELSE @]

Send(x, m, answer) ==
    /\ hand[x][m] = "claimed"
    /\ hand' = [hand EXCEPT ![x][m] = answer]
    /\ IF answer = "ok" THEN Count(m) ELSE UNCHANGED deliveries
    /\ UNCHANGED <<lock, rowVars, tasks, seen, phase, admin, faults, overwrote>>

(* The provider took the message and its answer was lost.                   *)
SendUnheard(x, m) ==
    /\ hand[x][m] = "claimed" /\ Fault
    /\ hand' = [hand EXCEPT ![x][m] = "retry"]
    /\ Count(m)
    /\ UNCHANGED <<lock, rowVars, tasks, seen, phase, admin, overwrote>>

GivesUp(x, m) == hand[x][m] = "reject" \/ seen[x][m] + 1 >= MaxAttempts

(* mark_sent and mark_failed, by the row's id alone.                        *)
Record(x, m) ==
    /\ hand[x][m] \in {"ok", "retry", "reject"}
    /\ status' = [status EXCEPT ![m] =
         IF hand[x][m] = "ok" THEN "sent" ELSE IF GivesUp(x, m) THEN "dead" ELSE "queued"]
    /\ attempts' = [attempts EXCEPT ![m] = @ + 1]
    /\ due' = IF hand[x][m] = "ok" THEN due ELSE due \ {m}
    /\ hand' = [hand EXCEPT ![x][m] = "free"]
    /\ UNCHANGED <<lock, stale, tasks, seen, phase, admin, faults, historyVars>>

(* The senders cannot be had, or the record fails: the row stays sending.   *)
DeliverFails(x, m) ==
    /\ InHand(x, m) /\ Fault
    /\ hand' = [hand EXCEPT ![x][m] = "free"]
    /\ UNCHANGED <<lock, rowVars, tasks, seen, phase, admin, historyVars>>

-----------------------------------------------------------------------------
(* redeliver: the row is read, then updated by its id alone.                *)
RedeliverFind(a, m) ==
    /\ admin[a] = "idle" /\ status[m] = "dead"
    /\ admin' = [admin EXCEPT ![a] = m]
    /\ UNCHANGED <<lock, rowVars, tasks, hand, seen, phase, faults, historyVars>>

Redeliver(a, m) ==
    /\ admin[a] = m
    /\ admin' = [admin EXCEPT ![a] = "done"]
    /\ status' = [status EXCEPT ![m] = "queued"]
    /\ attempts' = [attempts EXCEPT ![m] = 0]
    /\ due' = due \cup {m}
    /\ overwrote' = overwrote \cup {status[m]}
    /\ UNCHANGED <<lock, stale, tasks, hand, seen, phase, faults, deliveries>>

-----------------------------------------------------------------------------
(* Time.  Every provider call has a 15 s timeout and a batch is 100         *)
(* messages, 8 at a time: whoever has a message in hand is done with it     *)
(* before STALE_AFTER, or is gone.                                          *)
BackoffEnds(m) ==
    /\ status[m] = "queued" /\ m \notin due
    /\ due' = due \cup {m}
    /\ UNCHANGED <<lock, status, attempts, stale, tasks, hand, seen, phase, admin, faults,
                   historyVars>>

GoesStale(m) ==
    /\ status[m] = "sending" /\ m \notin stale
    /\ \A x \in Actors : ~InHand(x, m)
    /\ stale' = stale \cup {m}
    /\ UNCHANGED <<lock, status, attempts, due, tasks, hand, seen, phase, admin, faults,
                   historyVars>>

PassStep(n) == JobRequeue(n) \/ JobClaim(n) \/ JobSkip(n) \/ JobEnd(n)
Answer(x, m) == \E answer \in {"ok", "retry", "reject"} : Send(x, m, answer)
Deliver(x, m) == Answer(x, m) \/ Record(x, m)

Next ==
    \/ \E m \in Messages : \/ Enqueue(m) \/ ClaimOne(m) \/ TaskLost(m)
                           \/ BackoffEnds(m) \/ GoesStale(m)
    \/ \E n \in Nodes : JobStart(n) \/ PassStep(n) \/ JobFail(n)
    \/ LockLapse
    \/ \E x \in Actors, m \in Messages : Deliver(x, m) \/ SendUnheard(x, m) \/ DeliverFails(x, m)
    \/ \E a \in Admins, m \in Messages : RedeliverFind(a, m) \/ Redeliver(a, m)

Spec == Init /\ [][Next]_vars

(* Time passes; tasks run; every node starts its pass again and again       *)
(* (spawn_periodic) and one of those that find the lock free gets it; a     *)
(* running pass goes on, and does not skip the tenant every time.           *)
Fairness ==
    /\ \A m \in Messages : WF_vars(ClaimOne(m)) /\ WF_vars(BackoffEnds(m))
                           /\ WF_vars(GoesStale(m))
    /\ \A x \in Actors, m \in Messages : WF_vars(Deliver(x, m))
    /\ \A n \in Nodes : WF_vars(JobStart(n)) /\ WF_vars(PassStep(n)) /\ SF_vars(JobClaim(n))
    /\ WF_vars(LockLapse)
FairSpec == Spec /\ Fairness

-----------------------------------------------------------------------------
(* What rows and hands are.                                                 *)
TypeOK ==
    /\ lock \in Nodes \cup {None}
    /\ status \in [Messages -> {"none", "queued", "sending", "sent", "dead"}]
    /\ attempts \in [Messages -> Nat]
    /\ due \subseteq Messages /\ stale \subseteq Messages /\ tasks \subseteq Messages
    /\ hand \in [Actors -> [Messages -> Stages]]
    /\ seen \in [Actors -> [Messages -> Nat]]
    /\ phase \in [Nodes -> {"idle", "requeue", "claim", "deliver"}]
    /\ admin \in [Admins -> Messages \cup {"idle", "done"}]
    /\ faults \in 0 .. MaxFaults /\ deliveries \in [Messages -> 0 .. 2]
    /\ overwrote \subseteq {"none", "queued", "sending", "sent", "dead"}

(* hold_while's comment, "what it claims is claimed atomically": no two     *)
(* passes or tasks ever have the same message in hand, although the leader  *)
(* lock may lapse under a running pass, claims of crashed nodes are         *)
(* requeued, and a background task runs beside the job; and a row in hand   *)
(* is sending.  Only a second redelivery of the same message, checked       *)
(* beside the first, can queue a row that somebody has in hand.             *)
ClaimIsExclusive ==
    overwrote \subseteq {"dead"} =>
        \A x, y \in Actors, m \in Messages :
            InHand(x, m) /\ InHand(y, m) => x = y /\ status[m] = "sending"

(* Without a fault (crash, failed record, lost answer, lost lock) the       *)
(* provider gets a message once, redelivered or not: a dead letter was      *)
(* never accepted.  Not so when a second redelivery, checked beside the     *)
(* first, queues what is no longer dead.                                    *)
DeliveredOnce ==
    faults = 0 /\ overwrote \subseteq {"dead"} => \A m \in Messages : deliveries[m] <= 1

(* Every queued message is sent or dead-lettered in the end, whatever node  *)
(* crashed with it or with the lock.                                        *)
EventuallySettled ==
    \A m \in Messages : status[m] \in {"queued", "sending"} ~> status[m] \in {"sent", "dead"}
=============================================================================
