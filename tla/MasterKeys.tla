----------------------------- MODULE MasterKeys -----------------------------
(***************************************************************************)
(* Master-key generations (key_custody/envelope.rs, generations.rs,        *)
(* lifecycle.rs) and the rotation that moves stored secrets onto the       *)
(* newest one (services/master_key.rs), in a deployment that leaves        *)
(* MASTER_KEY for a key custody backend.                                   *)
(*                                                                         *)
(* The nodes start on the environment's generation alone and come back     *)
(* with KEY_WRAPPER.  Every process has its own view of the generations:   *)
(* the keys it holds and the one it seals with.  A key is known by its     *)
(* number and by where it comes from, so that two keys of one number can   *)
(* be told apart.  The encrypted tables are one table here, of which each  *)
(* row has a key_version column and a sealed secret that carries the       *)
(* number of its key too.                                                  *)
(***************************************************************************)
EXTENDS Naturals, FiniteSetsExt

CONSTANTS
    Nodes,
    Stopped,      \* nodes that are down to begin with, to come back with KEY_WRAPPER
    Writers,      \* requests that store a secret, one each
    Passes,       \* rotation requests
    NRows,        \* the rows are 1..NRows, in (tenant_id, id) order
    EnvVersion,   \* MASTER_KEY_VERSION
    Batch,        \* BATCH: rows per page of a pass
    MaxVersion,   \* bound: no generation above it is asked for
    MaxStops,     \* bound: processes that stop
    MaxFaults,    \* bound: calls to the backend or the database that fail
    None

ASSUME MasterKeysAssumption ==
    /\ {NRows, EnvVersion, Batch} \subseteq Nat \ {0}
    /\ {MaxVersion, MaxStops, MaxFaults} \subseteq Nat
    /\ None \notin Passes

VARIABLES
    node,       \* each process: its stage, its configuration, the keys it holds, current
    table,      \* master_key_generations
    maker,      \* who holds the creation lock, and the number it will use
    rows,       \* the stored secrets
    writer,     \* a secret sealed and not yet stored
    pass,       \* the rotation passes
    retired,    \* MASTER_KEY was taken out of the configuration
    stops, faults,
    latest,     \* history: latest[r], the secret a writer stored last (0: the first)
    crossed     \* history: rows stored, or put back, under a pass while someone was behind

vars == <<node, table, maker, rows, writer, pass, retired, stops, faults, latest, crossed>>

Rows == 1..NRows
EnvKey == [ver |-> EnvVersion, origin |-> "env"]
KmsKey(v) == [ver |-> v, origin |-> "kms"]
Versions(nd) == {k.ver : k \in nd.known}
KeyOf(nd, v) == CHOOSE k \in nd.known : k.ver = v
Idle == [at |-> "idle"]
Ended == [at |-> "ended"]
Running(task) == task \notin {Idle, Ended}

Init ==
    /\ node = [n \in Nodes |-> [at |-> IF n \in Stopped THEN "down" ELSE "up",
                                env |-> {EnvVersion}, wrapped |-> FALSE,
                                known |-> IF n \in Stopped THEN {} ELSE {EnvKey},
                                current |-> EnvVersion]]
    /\ table = {} /\ maker = None
    /\ rows = [r \in Rows |-> [col |-> EnvVersion, key |-> EnvKey, secret |-> 0]]
    /\ writer = [w \in Writers |-> Idle] /\ pass = [p \in Passes |-> Idle]
    /\ retired = FALSE /\ stops = 0 /\ faults = 0
    /\ latest = [r \in Rows |-> 0] /\ crossed = {}

Fault == faults < MaxFaults /\ faults' = faults + 1

-----------------------------------------------------------------------------
(* The keys of one process.                                                 *)

(* key and unwrap_row: the generations of vs that are not held yet are      *)
(* taken from the table, and the newest becomes current.                    *)
Loaded(nd, vs) ==
    LET fresh == IF nd.wrapped THEN (vs \cap table) \ Versions(nd) ELSE {}
    IN  [nd EXCEPT !.known = @ \cup {KmsKey(v) : v \in fresh}, !.current = Max(fresh \cup {@})]

(* What loading vs can come to: the backend or the database may fail to     *)
(* give some of them.                                                       *)
Outcomes(n, vs) == {Loaded(node[n], got) : got \in SUBSET vs}
Load(n, vs, nd) == IF nd = Loaded(node[n], vs) THEN UNCHANGED faults ELSE Fault

Opens(nd, key) == key \in nd.known

(* refresh, every minute: the generations above the highest one held.       *)
Unseen(nd) == IF nd.wrapped THEN {v \in table : v > Max(Versions(nd) \cup {0})} ELSE {}
Refresh(n) ==
    /\ node[n].at = "up" /\ Unseen(node[n]) # {}
    /\ \E nd \in Outcomes(n, Unseen(node[n])) :
          Load(n, Unseen(node[n]), nd) /\ node' = [node EXCEPT ![n] = nd]
    /\ UNCHANGED <<table, maker, rows, writer, pass, retired, stops, latest, crossed>>

(* A request reads a secret under a generation its node has not loaded.     *)
Read(n, r) ==
    LET v == rows[r].key.ver IN
    /\ node[n].at = "up" /\ Loaded(node[n], {v}) # node[n]
    /\ \E nd \in Outcomes(n, {v}) :
          Load(n, {v}, nd) /\ node' = [node EXCEPT ![n] = nd]
    /\ UNCHANGED <<table, maker, rows, writer, pass, retired, stops, latest, crossed>>

-----------------------------------------------------------------------------
(* Processes stop, and start again with KEY_WRAPPER.                        *)

Stop(n) ==
    /\ node[n].at # "down" /\ stops < MaxStops /\ stops' = stops + 1
    /\ node' = [node EXCEPT ![n] = [@ EXCEPT !.at = "down", !.known = {}]]
    /\ maker' = IF maker # None /\ maker.node = n THEN None ELSE maker
    /\ writer' = [w \in Writers |-> IF Running(writer[w]) /\ writer[w].node = n THEN Ended
                                    ELSE writer[w]]
    /\ pass' = [p \in Passes |-> IF Running(pass[p]) /\ pass[p].node = n THEN Ended
                                 ELSE pass[p]]
    /\ UNCHANGED <<table, rows, retired, faults, latest, crossed>>

(* attach, with MASTER_KEY in the environment or without it: a generation   *)
(* defined twice is refused; the newest one must unwrap, the others may be  *)
(* unreadable; without any, the first one is to be made.                    *)
Attach(n, env) ==
    LET newest == Max(table) IN
    /\ node[n].at = "down" /\ env \cap table = {} /\ (retired => env = {})
    /\ \E loaded \in SUBSET table :
         /\ \/ loaded = table /\ UNCHANGED faults
            \/ loaded # table /\ newest \in loaded /\ Fault
         /\ node' = [node EXCEPT ![n] =
              [at |-> IF table = {} THEN "first" ELSE "check", env |-> env, wrapped |-> TRUE,
               known |-> {k \in {EnvKey} : k.ver \in env} \cup {KmsKey(v) : v \in loaded},
               current |-> IF table = {} THEN Max(env \cup {0}) ELSE newest]]
    /\ UNCHANGED <<table, maker, rows, writer, pass, retired, stops, latest, crossed>>

(* check_master_key over a row of every generation: the process ends when a *)
(* row under the current generation does not open, or none does.            *)
Check(n) ==
    LET cols == {rows[r].col : r \in Rows} IN
    /\ node[n].at = "check"
    /\ \E sample \in [cols -> Rows] :
         /\ \A v \in cols : rows[sample[v]].col = v
         /\ LET vers == {rows[sample[v]].key.ver : v \in cols} IN
            \E nd \in Outcomes(n, vers) :
              LET failed == {v \in cols : ~ Opens(nd, rows[sample[v]].key)}
                  fatal == nd.current \in failed \/ failed = cols
              IN  /\ Load(n, vers, nd)
                  /\ node' = [node EXCEPT ![n] =
                       [nd EXCEPT !.at = IF fatal THEN "down" ELSE "up",
                                  !.known = IF fatal THEN {} ELSE @]]
    /\ UNCHANGED <<table, maker, rows, writer, pass, retired, stops, latest, crossed>>

(* The operator takes MASTER_KEY away: every node has the newest generation *)
(* and status reports no row under another one.  (Requests end long before: *)
(* no secret sealed under the old key is still to be stored.)               *)
Retire ==
    /\ ~ retired /\ table # {} /\ retired' = TRUE
    /\ \A n \in Nodes : node[n].at = "down" \/
                        (node[n].at = "up" /\ node[n].wrapped /\ node[n].current = Max(table))
    /\ \A r \in Rows : rows[r].col = Max(table)
    /\ \A w \in Writers : Running(writer[w]) => writer[w].key # EnvKey
    /\ UNCHANGED <<node, table, maker, rows, writer, pass, stops, faults, latest, crossed>>

-----------------------------------------------------------------------------
(* ensure_generation, under the creation lock.                              *)

(* Mutant of NextVersion: the rows are not asked.                           *)
NextVersionUnasked(n) == 1 + Max(table \cup node[n].env \cup {0})

(* Above every generation made, configured or in use.                       *)
NextVersion(n) == 1 + Max(table \cup node[n].env \cup {rows[r].col : r \in Rows})

(* new_generation, or a process that attached to an empty table.            *)
Make(n, force) ==
    /\ maker = None /\ (force \/ table = {})
    /\ IF force THEN node[n].at = "up" /\ node[n].wrapped ELSE node[n].at = "first"
    /\ NextVersion(n) <= MaxVersion
    /\ maker' = [node |-> n, force |-> force, ver |-> NextVersion(n)]
    /\ UNCHANGED <<node, table, rows, writer, pass, retired, stops, faults, latest, crossed>>

(* Another process has made the first generation meanwhile.                 *)
MadeElsewhere(n) ==
    /\ maker = None /\ node[n].at = "first" /\ table # {}
    /\ \E nd \in Outcomes(n, {Max(table)}) :
         /\ Load(n, {Max(table)}, nd)
         /\ node' = [node EXCEPT ![n] =
              IF nd = node[n] THEN [@ EXCEPT !.at = "down", !.known = {}]
              ELSE [nd EXCEPT !.at = "check", !.current = Max(table)]]
    /\ UNCHANGED <<table, maker, rows, writer, pass, retired, stops, latest, crossed>>

(* The data key is wrapped, unwrapped for proof and inserted; only then is  *)
(* it held and current.  A failure ends the request, or the process.        *)
Insert ==
    LET n == maker.node  v == maker.ver IN
    /\ maker # None /\ maker' = None
    /\ \/ /\ table' = table \cup {v}
          /\ node' = [node EXCEPT ![n].known = @ \cup {KmsKey(v)},
                                  ![n].current = IF maker.force THEN Max({@, v}) ELSE v,
                                  ![n].at = IF maker.force THEN @ ELSE "check"]
          /\ UNCHANGED faults
       \/ /\ Fault /\ UNCHANGED table
          /\ node' = IF maker.force THEN node
                     ELSE [node EXCEPT ![n] = [@ EXCEPT !.at = "down", !.known = {}]]
    /\ UNCHANGED <<rows, writer, pass, retired, stops, latest, crossed>>

-----------------------------------------------------------------------------
(* A request stores a new secret: sealed first, then written with the       *)
(* number of its key (webhooks::rotate_secret and its like).                *)
Seal(w, n, r) ==
    /\ writer[w] = Idle /\ node[n].at = "up" /\ node[n].current \in Versions(node[n])
    /\ writer' = [writer EXCEPT ![w] =
         [at |-> "sealed", node |-> n, row |-> r, key |-> KeyOf(node[n], node[n].current)]]
    /\ UNCHANGED <<node, table, maker, rows, pass, retired, stops, faults, latest, crossed>>

(* What the passes under way are told of a row someone else wrote.          *)
Touched(by, changed, ver) ==
    [p \in Passes |-> IF Running(pass[p]) /\ p # by /\ ver < pass[p].target
                      THEN [pass[p] EXCEPT !.touched = @ \cup changed] ELSE pass[p]]

(* Some pass has read r and not written it, while the key that r is stored  *)
(* under, or the target of some pass, is not of the newest generation.      *)
Overtaken(r, v) ==
    LET targets == {pass[p].target : p \in {p \in Passes : Running(pass[p])}} IN
    /\ \E p \in Passes : pass[p].at = "write" /\ r \in DOMAIN pass[p].sealed
    /\ \E newer \in table : newer > Min(targets \cup {v})

Store(w) ==
    LET r == writer[w].row  key == writer[w].key IN
    /\ Running(writer[w]) /\ writer' = [writer EXCEPT ![w] = Ended]
    /\ rows' = [rows EXCEPT ![r] = [col |-> key.ver, key |-> key, secret |-> latest[r] + 1]]
    /\ latest' = [latest EXCEPT ![r] = @ + 1]
    /\ crossed' = IF Overtaken(r, key.ver) THEN crossed \cup {r} ELSE crossed \ {r}
    /\ pass' = Touched(None, {r}, key.ver)
    /\ UNCHANGED <<node, table, maker, retired, stops, faults>>

-----------------------------------------------------------------------------
(* rotate_all, one row after the other in pages, each page read in one      *)
(* transaction and written in another.                                      *)

(* A refresh, then the generation to move to.                               *)
PassStart(p, n) ==
    /\ pass[p] = Idle /\ node[n].at = "up"
    /\ \E nd \in Outcomes(n, Unseen(node[n])) :
         /\ Load(n, Unseen(node[n]), nd) /\ node' = [node EXCEPT ![n] = nd]
         /\ pass' = [pass EXCEPT ![p] =
              [at |-> "versions", node |-> n, target |-> nd.current, failed |-> {},
               touched |-> {}]]
    /\ UNCHANGED <<table, maker, rows, writer, retired, stops, latest, crossed>>

(* The next version with rows to move, from its first row.                  *)
AtVersions(ps, vs) ==
    IF vs = {} THEN [at |-> "done", node |-> ps.node, target |-> ps.target,
                     failed |-> ps.failed, touched |-> ps.touched]
    ELSE [at |-> "read", node |-> ps.node, target |-> ps.target, failed |-> ps.failed,
          touched |-> ps.touched, versions |-> vs, after |-> 0]

(* Mutant of InUse: only the oldest generation is listed.                   *)
InUseOldest(target) ==
    LET others == {rows[r].col : r \in Rows} \ {target}
    IN  IF others = {} THEN {} ELSE {Min(others)}

(* The generations in use besides the target.                               *)
InUse(target) == {rows[r].col : r \in Rows} \ {target}

PassVersions(p) ==
    /\ pass[p].at = "versions"
    /\ pass' = [pass EXCEPT ![p] = AtVersions(@, InUse(@.target))]
    /\ UNCHANGED <<node, table, maker, rows, writer, retired, stops, faults, latest, crossed>>

(* A page of the rows under a version, after the cursor; each is opened and *)
(* sealed again with the process's current key, or counted as failed.       *)
PageOf(v, after) ==
    LET left == {r \in Rows : rows[r].col = v /\ r > after}
    IN  {r \in left : Cardinality({q \in left : q < r}) < Batch}

PassRead(p) ==
    LET ps == pass[p]
        n == ps.node
        v == Min(ps.versions)
        page == PageOf(v, ps.after)
    IN  /\ ps.at = "read"
        /\ \E nd \in Outcomes(n, {rows[r].key.ver : r \in page}) :
             LET opened == {r \in page : Opens(nd, rows[r].key)}
                 key == KeyOf(nd, nd.current)
             IN  /\ Load(n, {rows[r].key.ver : r \in page}, nd)
                 /\ node' = [node EXCEPT ![n] = nd]
                 /\ pass' = [pass EXCEPT ![p] =
                      IF page = {} THEN AtVersions(ps, ps.versions \ {v})
                      ELSE [at |-> "write", node |-> n, target |-> ps.target,
                            failed |-> ps.failed \cup (page \ opened), touched |-> ps.touched,
                            versions |-> ps.versions, version |-> v, after |-> Max(page),
                            full |-> Cardinality(page) = Batch,
                            sealed |-> [r \in opened |-> [key |-> key,
                                                          secret |-> rows[r].secret]]]]
        /\ UNCHANGED <<table, maker, rows, writer, retired, stops, latest, crossed>>

(* Mutant of StillThere: the row is written whatever happened to it.        *)
StillThereAlways(r, v) == r \in Rows

(* Only rows still on the generation they were read under.                  *)
StillThere(r, v) == rows[r].col = v

(* A pass that is behind puts r back under an older generation, while       *)
(* another one holds a copy of r from before it was stored again.           *)
PutBack(p, r) ==
    /\ \E newer \in table : newer > pass[p].target
    /\ \E q \in Passes \ {p} : /\ pass[q].at = "write" /\ r \in DOMAIN pass[q].sealed
                               /\ pass[q].sealed[r].secret # pass[p].sealed[r].secret

PassWrite(p) ==
    LET ps == pass[p]
        moved == {r \in DOMAIN ps.sealed : StillThere(r, ps.version)}
    IN  /\ ps.at = "write"
        /\ rows' = [r \in Rows |-> IF r \in moved
                                   THEN [col |-> ps.target, key |-> ps.sealed[r].key,
                                         secret |-> ps.sealed[r].secret]
                                   ELSE rows[r]]
        /\ pass' = [Touched(p, moved, ps.target) EXCEPT ![p] =
             IF ps.full THEN [at |-> "read", node |-> ps.node, target |-> ps.target,
                              failed |-> ps.failed, touched |-> ps.touched,
                              versions |-> ps.versions, after |-> ps.after]
             ELSE AtVersions(ps, ps.versions \ {ps.version})]
        /\ crossed' = crossed \cup {r \in moved : PutBack(p, r)}
        /\ UNCHANGED <<node, table, maker, writer, retired, stops, faults, latest>>

(* The report; a failure of the database ends a pass anywhere.              *)
PassEnd(p) ==
    /\ Running(pass[p])
    /\ \/ pass[p].at = "done" /\ UNCHANGED faults
       \/ pass[p].at # "done" /\ Fault
    /\ pass' = [pass EXCEPT ![p] = Ended]
    /\ UNCHANGED <<node, table, maker, rows, writer, retired, stops, latest, crossed>>

Next ==
    \/ \E n \in Nodes :
         \/ Refresh(n) \/ Stop(n) \/ Check(n) \/ MadeElsewhere(n)
         \/ \E r \in Rows : Read(n, r)
         \/ \E env \in {{}, {EnvVersion}} : Attach(n, env)
         \/ \E force \in BOOLEAN : Make(n, force)
         \/ \E w \in Writers, r \in Rows : Seal(w, n, r)
         \/ \E p \in Passes : PassStart(p, n)
    \/ Insert \/ Retire
    \/ \E w \in Writers : Store(w)
    \/ \E p \in Passes : PassVersions(p) \/ PassRead(p) \/ PassWrite(p) \/ PassEnd(p)

Spec == Init /\ [][Next]_vars

-----------------------------------------------------------------------------
(* What the state is made of; a key_version column is never ahead of the    *)
(* key its secret is sealed with, so status may count rows by it.           *)
TypeOK ==
    /\ table \subseteq 1..MaxVersion
    /\ \A n \in Nodes :
         /\ node[n].at \in {"down", "first", "check", "up"}
         /\ \A k, j \in node[n].known : k.ver = j.ver => k = j
         /\ node[n].at = "up" => node[n].current \in Versions(node[n])
    /\ \A r \in Rows : rows[r].col <= rows[r].key.ver
    /\ \A p \in Passes : pass[p].at \in {"idle", "versions", "read", "write", "done", "ended"}

(* Every stored secret can be opened: its number names one key, the one it  *)
(* was sealed with, in the configuration or in the table, also after        *)
(* MASTER_KEY was taken away.                                               *)
RowsReadable ==
    \A r \in Rows :
      LET configured == IF retired THEN {} ELSE {EnvKey}
      IN  {k \in configured \cup {KmsKey(v) : v \in table} : k.ver = rows[r].key.ver}
            = {rows[r].key}

(* A rotation never changes what a row holds, unless a request stored the   *)
(* row between a pass's read and its write while that request, or some pass *)
(* under way, was behind (not yet on the newest generation), or a pass that *)
(* was behind then put the row back under the generation it was read from.  *)
RotationKeepsSecrets == \A r \in Rows \ crossed : rows[r].secret = latest[r]

(* A pass that is done has left no row sealed below its target, but for     *)
(* those it counts as failed and those a process that was behind wrote      *)
(* meanwhile.                                                               *)
PassLeavesNothing ==
    \A p \in Passes : pass[p].at = "done" =>
      \A r \in Rows : rows[r].key.ver < pass[p].target => r \in pass[p].failed \cup pass[p].touched
=============================================================================
