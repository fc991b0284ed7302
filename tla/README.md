# A TLA+ verification of rIDM

rIDM is a multi-tenant identity server in Rust: any number of identical API
nodes over one or more Postgres databases and one Valkey (Redis). This
directory holds TLA+ models of the parts of it where concurrency, failure and
time decide whether it is right, the TLC configurations that check them, and
proofs of the main theorems for TLAPS.

All source paths below are under `src/api/src/` unless they say otherwise.

## 1. The system

A node is a process with many concurrent request handlers (tokio tasks), a
pub/sub listener and a set of periodic jobs. Nodes share nothing but the two
stores, and every `.await` on a store is a point where any other handler on any
node may run.

* **Postgres** holds what must last: token rows, sessions' rows, keys, queued
  messages, the audit log. Handlers open one transaction per unit of work
  (`db/tx.rs`, `tenant_tx`) at READ COMMITTED. What orders concurrent handlers
  is row locks (`FOR UPDATE`, `UPDATE`, `SKIP LOCKED`), nothing else.
* **Valkey** holds what may be lost or is short-lived: codes, live sessions,
  caches, leader locks, counters. Single commands and scripts are atomic; a
  read followed by a write is not, and much of the code is of that form.
* **The clock** ends things: TTLs, `expires_at`, idle windows, lock lifetimes.

### Inventory

| Component | State | Operations | What is hard | What makes it correct |
|---|---|---|---|---|
| Refresh tokens (`services/refresh_tokens.rs`) | token rows in families | issue, redeem with rotation and reuse detection, revoke by token, user, session | concurrent redemptions, revocation against an uncommitted rotation, lock cycles | one live token per family, a revocation covers the family |
| SSO sessions (`services/sessions.rs`) | record in Valkey, row in Postgres, per-user set | create, get with a sliding window, bind, revoke | read and write back across an await, two stores that disagree | a sign-out is final, the limit on sessions holds |
| Login flows, `/authorize`, registration (`services/flows.rs`, `oidc/authorize.rs`, `services/registration.rs`) | flow record in Valkey, account, consents | decide, first factor, second factor, answers, consent, finish, cancel | whole-record write-back, flows left and resumed, a session that opens before the flow is done | no code before the factors and the consent it needs |
| Second factors (`services/totp.rs`, `services/otp_factors.rs`, `services/passwordless.rs`) | credential rows, pending secrets and destinations, codes, marks | enrol, confirm, verify, regenerate, remove | three keys for one enrolment, read and write back of one-time codes | a code counts once and proves what it was sent to |
| Authorization codes (`services/auth_codes.rs`, `oidc/token.rs`) | the code, and a CodeGrant after its use | issue, exchange, replay | concurrent exchanges, replay against exchange, half-done undo | answered once, a replay undoes |
| Device grant (`services/device_codes.rs`) | record, user-code pointer, audit row | issue, approve, deny, poll | whole-record write-back by three parties | a decision sticks and is spent once |
| CIBA (`services/ciba.rs`) | record, request row | start, decide, poll, ping | the same, over two stores | the same, and a cap on pending requests |
| Two-tier cache (`cache/`) | L1 per node, Redis entry, pub/sub | get_or_load, invalidate, version tokens | late loaders, lost messages, own-node races | no stale value after an invalidation |
| Signing keys (`services/keys.rs`) | key rows, cached views, version token | create, activate, retire, revoke, rotate, maintain | two changes at once, views read before a change | published before it signs, revoked for good |
| Master keys (`key_custody/`, `services/master_key.rs`) | generations, sealed rows | attach, make a generation, refresh, store, rotate | rotation beside requests and other passes, processes that are behind | every secret stays readable and the latest one |
| Audit chain (`services/audit.rs`, `services/audit_sink.rs`) | hash chain per tenant, queues, sink cursor | record, verify, purge, ship | parked events, purge under verification | linked, in order, nothing skipped |
| Outbound queue (`messaging/queue.rs`) | message rows | send, claim, deliver, retry, requeue, redeliver | crash between send and record, stale claims | one hand at a time, settled in the end |
| Leader lock (`jobs/leader.rs`) | one key per job | acquire, renew, release | lapses under a running pass | never relied on for safety |
| Tenant relocation (`services/relocation.rs`, `db/router.rs`) | placement, copied rows, copied keys | move, locate | writers that located the tenant before the move, a move that dies | no write lost, one copy in the end |
| Webhooks, back-channel logout | delivery rows, clients per session | dispatch, claim, deliver | as the queue | as the queue (not modelled) |
| Rate limits, opaque tokens, tickets, invitations | counters and single-use handles with TTLs | count, issue, take | INCR then EXPIRE, take twice | bounds hold, used once (not modelled) |
| Users, roles, groups, clients, organisations, SCIM, LDAP sync | rows | create, update, delete | one transaction each, then an invalidation | the cache's properties (not modelled themselves) |
| SAML, Kerberos, LDAP, WebAuthn, templates, routes, UI, CLI | little or none | parse, format, verify | computation, not concurrency | not modelled |

`PROJECT.json` lists every component with its status and every hazard at its
line.

### How the components meet

`/authorize` decides from the browser's session what the user still owes and
opens a login flow; its steps check factors, open and update the session and
end in an authorization code. The token endpoint takes the code, checks the
session, inserts a refresh family and stores the CodeGrant that lets a replay
revoke that family. Sign-out removes the session from Valkey, marks its row,
then revokes the session's families. Redemption of an `offline_access` token
asks the session's row; any other asks the session's record in Valkey, and may
write it back. Services write a row, commit and call the cache's `invalidate`,
or replace a version token. Stored secrets (signing keys, factors, webhook
secrets) are sealed under the newest master key. Jobs take a leader lock and
then claim rows atomically, so that the lock only saves work.

## 2. Modules

| Module | Models | Checked by | Proofs |
|---|---|---|---|
| `RefreshTokens` | refresh tokens, and the sign-out that revokes them | `MCRefreshTokens` | `RefreshTokensProofs` |
| `LoginFlow` | `/authorize`, the flow API, sessions, registration, lockout | `MCLoginFlow` | `LoginFlowProofs` |
| `SecondFactors` | authenticator apps, recovery codes, codes by message | `MCSecondFactors` | `SecondFactorsProofs` |
| `OneShotGrant` | abstract: a code issued once and answered at most once | as a property of `AuthCodes` | `GrantProofs` |
| `AuthCodes` | authorization codes and their exchange | `MCAuthCodes` | `GrantProofs` |
| `DeviceCodes` | the device grant | `MCDeviceCodes` | `GrantProofs` |
| `Ciba` | backchannel authentication | `MCCiba` | `GrantProofs` |
| `CacheLayer` | one key of the two-tier cache | `MCCacheLayer` | `CacheLayerProofs` |
| `SigningKeys` | signing keys, version token, cached views, over `LeaderLock` | `MCSigningKeys` | `SigningKeysProofs` |
| `MasterKeys` | master-key generations and the rotation of stored secrets | `MCMasterKeys` | `SigningKeysProofs` |
| `AuditChain` | the audit chain: writers, verification, retention, export | `MCAuditChain` | `AuditChainProofs` |
| `Relocation` | tenant placement and moving a tenant | `MCRelocation` | `RelocationProofs` |
| `LeaderLock` | the job lock | through `OutboundQueue` and `SigningKeys` | |
| `OutboundQueue` | the message queue and its delivery job, over `LeaderLock` | `MCOutboundQueue` | `AuditChainProofs` |

Every action is one atomic step of a handler: one command to Valkey, one
Postgres statement, or one committed transaction. Definitions whose
comment begins "Mutant" are deliberate defects that show that a property can
fail; no specification uses them. Variables marked "history" record what
happened; no guard reads them. Several properties have the form "so it is,
unless two requests overlapped in this way": the history variable names the
overlap, and section 3 lists what the code does in it.

### RefreshTokens

A row is a token id; `family[t]` is its family, and `consumed`, `revoked`,
`purged` are the rows with that column set (or deleted). `lock[t]` is the
transaction holding the row. `alive` is the set of sessions with a record in
Valkey, `signedOut` those whose row has `revoked_at`, `forgotten` those whose
row the cleanup job deleted: `is_revoked` takes a missing row for one that is not
revoked (`repos/sessions.rs:127`). A request is at `pc[p]`:

* `redeem` is `RedeemGood` or `RedeemReuse` (the `SELECT ... FOR UPDATE`, which
  waits), `CheckSession` (by the database for offline families, by Valkey
  otherwise), `SlideSession` (the write-back in `sessions::get`, a step of its
  own because it follows an await), then `Rotate` or, for a FAPI 2.0 client,
  `KeepToken`. The consumption of the old row and the insertion of the new one
  are one commit and so one action.
* the revoking `UPDATE`, shared by reuse, RFC 7009 revocation, user-wide
  revocation and sign-out, is `SweepStart` (its snapshot), a `SweepRow` per row
  (lock, wait, re-check) and `SweepCommit`.
* `sessions::revoke` is `EndSession` (Valkey), `MarkRevoked` (the row), and
  the sweep. A code exchange is `IssueCheck` and a later `Issue`.
* `Abort` is any error or crash under a request, Postgres breaking a cycle of
  waiting revocations included: rollback. `ExpireFamily`, `ExpireSession`,
  `PurgeToken` and `PurgeSession` are the clock and the cleanup job.

A redemption that is refused on the row itself writes nothing, so it is no
step. The variables `swept`, `over`, `late`, `escaped` and `strays` are history
that no guard reads: which families a revocation covered, which sessions a
sign-out has done with, which of them were over when a request came in, and the
tokens that a rotation (`escaped`) or a code exchange (`strays`) beside it put in.

### CacheLayer

One key. A value is the version of the row it was read from. A loader goes
through `Start` (its L1 ticket), `ReadRedis` (a miss clones the key's gate, or
puts a new one into the node's map), `PassGate` (the mutex, and a second look at
L1), `Load`, `StoreRedis` (the script that refuses to overwrite the sentinel), the
three steps of `insert_fresh`, `ReleaseGate` (the map's entry goes when nobody
else has a clone of it) and `DropGate` (its own clone, later). `Cancel` is a caller
that goes away while it waits or loads. `loading[n]` is the map's entry and
`clone[r]` a loader's reference; the mutex itself is that of the loaders behind
one gate only one is past it. A writer commits, marks and
drops its own L1 entry, holds the key in Redis, publishes. The listener of a
node receives, loses its connection, subscribes again and clears. Tickets are
compared with the marks for equality and marks are never reused, so all that is
kept of a ticket is whether a mark has moved since (`spoiled`).

### AuthCodes and OneShotGrant

`Consume` is the GETDEL of the code; `Refuse`/`Pass`, `Mint`, `StoreGrant` and
`Reply` are the rest of the exchange; `ConsumeMiss`, `TakeGrant`,
`RevokeFamily` and `DenyAccess` are the replay branch; `Fail` is any error.
`OneShotGrant` says what the code promises: new, open, then answered for one
request or lapsed. The refinement maps a code to "open" while it is stored or
held by a request at work, to "answered" when a request that held it replied.

### DeviceCodes

`rec[d]` is the one Valkey value that `poll`, `approve` and `deny` read and
write back whole. `Issue` and `IssueFails` claim the user code. `PollLoad`
reads; `PollNoted`, `PollDenied`, `PollExpired` and `PollTake` are the
branches' writes, `PollDropCode` (the user code's pointer), `PollConsume` (the
row) and `PollAnswer` what follows a GETDEL.
`FindByUserCode`, `DecideLoad`, `DecideStore` and `DecideRow` are the user's
side. The polling interval is abstracted to "a poll after a noted one may be
too soon". `mortal` records that `SET KEEPTTL` over a missing key makes one
without a TTL. `hasty` and `crossed` are the devices whose polls overlapped
each other, or a decision.

### Ciba

The row and the Valkey record of each request, with no transaction over both.
`StartCount`, `StartInsert` and `StartStore` open one; `DecideRead` locks the
row, `DecideStore` rewrites the record and `DecideCommit` commits or fails;
`PollLoad` reads the record and then the clock, which decides between
`PollExpired` and the others: `PollPending` (written back), `PollDenied` and
`PollTake` (GETDEL), whatever the clock says by then. `PollConsume` marks the row.

### LoginFlow

One browser, one tenant, one client, several users. A request is a process that
holds the copies of the flow record and of the session it loaded, and writes
them back whole. `Authorize` and `Decide` are `/authorize`; `StartFirstFactor`
to `SaveFlow` are the first factor by password, by code or by passkey with its
risk verdict, lockout counter, session (reused or created, the oldest evicted
at the limit) and the saved flow; `StartMfa`, `CheckFactor`, `MfaReject` the
second factor; `StartAnswer` and the following the forced password change,
profile, terms, organisation and consent; `StartFinish`/`FinishFlow` the code.
`Advance` is the order of the stages, `UnfinishedStage` what a session left
behind by another flow still owes. Registration, its mailed link, the end of
sessions by revocation or by disabling the user, and the lock's expiry are
actions too.

What an account owes is a set: the answers of a flow, the password change an
administrator forces (`ForcePasswordChange`, at any time) and a password past its
age (`PasswordExpires`). The last two are kept apart because the code asks for
them in different places: `password_step` for both, `unfinished_stage` for the
forced change alone. `Fail` ends a request at any step, with what it has
written; `CreateSession` may fail between storing the session and listing it
(`halfway`); a denied consent and `finish` go on when the flow cannot be deleted
(`FailsToDelete`, `lingering`); the binding of a session to an organisation is a
read and a later write (`BindOnTheWay`, `StoreBinding`). `unaware` are the flows
that were under way when a change was forced. A disturbance is a failure, a
password that expires or must be changed, a request that overlaps another, or one
that is no step towards a code.

### SecondFactors

One user. `creds` and `sets` are the rows (factors, sets of recovery codes);
`secretAt`, `pending`, `codeAt`, `cooldown` and `marks` are the Valkey keys. A
scope is a login flow or a console session. `TotpBegin`/`ClaimSecret` and
`TotpConfirm`, `InsertTotp`, `MarkProof`, `DeleteSecret` enrol an app;
`VerifyTotp` and `ClaimStep` check its code; `VerifyRecovery`/`UseRecovery`
read a set and write it back; `RegenDelete`/`RegenInsert` and
`Remove`/`RemoveCommit` are transactions whose reads come before their commit.
`SmsBegin`, `Switch`, `NotePending`, `ClaimPause`, `StoreCode` send a code to a
destination, `CheckGet` and `Judge` are `check_code`, and `InsertSms`,
`DeletePending`, `MarkVerified`, `FirstCodes` store the factor. Email and SMS
are one channel: they differ in the column that holds the destination. `shared`,
`crossed` and `tangled` are the overlaps that the properties except.

### SigningKeys

The rows of one tenant and one algorithm. A change (`task[n]`) reads the rows it
decides by, writes, and bumps the version token in a later step, which may
fail. A read takes the token first and the rows after; what it caches counts
only while its token is the current one, so `signing` and `jwks` keep what is
under the current token. A key an administrator creates may have a `not_before`
to come (`early`, `TimeComes`): `find_active` passes over it until then. `hushed`
are the keys whose publication nobody announced although they may sign, each for
one of four reasons that `Commit`, `AdminActivate` and `BumpFails` recognise by
what the change does and not by a bump that is missing; a rotation that forgets to announce its
pending key is none of them. Housekeeping runs under `LeaderLock`.

### MasterKeys

Each process knows some generations and seals with one. `table` is
`master_key_generations`; a generation is made under a lock (`maker`). A row has
its `key_version` column and the key it is really sealed with, kept apart
because a pass updates by the column. A pass lists the versions in use, then
reads and writes pages. Processes stop, come back with a key custody backend,
fail to load some generations; `Retire` takes MASTER_KEY away.

### AuditChain

One chain. Writers take events from a bounded durable queue, append a batch
under the chain's advisory lock, park what could not be written and record a
failing batch one event at a time; a commit may fail with or without having
taken effect, in a batch (`WriteChain`) and singly (`WriterOne`). Verification
walks pages from a checkpoint and carries the number and the hash of the last row
from one page to the next, and in the checkpoint to the next walk (`verifiedRow`);
retention deletes rows by age and drops whole months, the export reads a batch,
delivers it and moves its cursor: each page a transaction of its own. A row's
hash is the row before it, so a break is a missing or a different predecessor.

### Relocation

The registry says where the tenant lives and whether it is being moved; nodes
cache it. `move_tenant` is one action per step: read the registry, lock,
settle, clean up or mark, drain, copy rows, copy keys, switch, drop the source,
delete its keys, and undo. Any step may fail, the two halves of an undo each for
itself, and a mover may die anywhere.

### OutboundQueue and LeaderLock

`hand[x][m]` is how far a worker (a node's pass, or the background task that
`send` starts) is with a claimed message. `JobStart` takes the lock,
`JobRequeue` frees stale claims, `JobClaim` claims what is due, `Send` gets the
provider's answer, `Record` is `mark_sent`/`mark_failed`. `SendUnheard` is a
message the provider took although the node saw an error. `LockLapse` may
happen under a running pass. `RedeliverFind` and `Redeliver` are the
administrator's request: a read and an update by id.

## 3. Runs

All twelve runs pass.

| Run | What it shows |
|---|---|
| `refresh_safety` | `OneLiveToken`, `SpendsOnlyLive`: redemptions of one token queue and only one spends it. `OnlyRacingTokensEscape`: a committed revocation misses only what a rotation running beside it inserted, and its successors. `SignOutEndsOfflineRefresh`: no `offline_access` redemption that comes after a finished sign-out passes, even with a token that escaped, as long as the session's row is there to be asked; after its purge, only one with a token that was put in beside the sign-out |
| `login_signin` | `MfaIsEarned`: a session says "mfa" only when its own user passed a second factor on it. `GrantOwesNothing`, `ConsentBeforeGrant`: no code before the forced password change, the second factor and the consent it needs, whichever flow was left and resumed, with `prompt=consent` a consent of this flow. `EndedFlowStaysEnded`, `RevokedStaysGone`, `CapHolds`: ended flows and sessions stay ended and the limit on sessions holds, except where requests overlap or fail half-way as the properties say |
| `factors_codes` | `AcceptedOnce`: an authenticator code, a recovery code and a code by message count once, and a message takes `OTP_MAX_ATTEMPTS` wrong codes, unless two requests have the same one in hand. `ProvenWhereSent`: a code sent to one destination proves no other, unless enrolments of one scope overlap, run out or leave a code behind. `CodesNeedAFactor`: recovery codes go with the last factor |
| `auth_codes_safety` | `CodeIsOneShot` (refinement of `OneShotGrant`); `LateReplayUndoes`: a replay that comes after the answer leaves its tokens dead |
| `device_polls` | `ApprovalSpentOnce` for a device that waits for each answer; `DecisionSticks` for a decision no poll overlapped |
| `ciba_answers` | `CollectedOnce`: tokens once, and on an approval that is committed or about to be. `AnswerReachesClient`: a committed answer is found by the client's poll. `CapUnlessCrowded`: the cap on pending requests |
| `cache_safety` | `RedisFresh`, `RemoteL1Fresh`: no stale value in Redis once the invalidation is through, nor in the L1 of a node that hears of it, with lost listener connections and delayed loads. `OneLoadPerNode`: of the misses of one node only one loads, also while gates are left, dropped from the map and made anew, loads fail and callers go away |
| `keys_caches` | `AnnouncedIsSeen`: what is cached under the current token is as new as every announced change. `PublishedBeforeSigning`: a key is in the document in force before a node signs with it, unless it was revoked since or is one of the four cases below. `RevokedStaysUnlessOverlapped` |
| `master_rotation` | `RowsReadable`: every secret's number names the key it was sealed with, also after MASTER_KEY is gone. `RotationKeepsSecrets`: a pass undoes no stored secret unless someone was behind. `PassLeavesNothing`: a finished pass moved what it could |
| `audit_log` | `RetainedIsLinked`; `InOrderOnce`, with commits nobody heard of; `AlarmHasACause`, with the hash carried over pages; `SinkSkipsOnlyInALeap`; and `WritersCatchUp`: everything published is recorded again and again, but for what is at fault or dropped |
| `relocation_moves` | `LostOnlyWhenMisled`: what the tenant committed is where the registry says. `EndedStaysEnded`: no move brings an ended session back. `OneCopyAfterARerun`: a repeated move removes what failed ones left |
| `queue_delivery` | `ClaimIsExclusive` with the lock lapsing under a pass and crashed claims requeued; `DeliveredOnce` without faults, redelivered or not; `EventuallySettled` |

`TypeOK` of each module held on the same instances; the runs leave it out, and
TLAPS proves it where there are proofs.

### What the exceptions are

The properties name the overlaps in which they do not hold. In each of them the
code does something its comments, or a reader, would not expect:

* Refresh tokens. A successor that is not committed when the revoking `UPDATE`
  takes its snapshot stays live (`refresh_tokens.rs:198`; the comment at 120
  speaks of the whole family). `sessions::get` writes a session back that was
  removed since it was read (`sessions.rs:334`), so a token without
  `offline_access` goes on after the sign-out. A token with it is stopped by the
  session's row, and that only while there is one: cleanup deletes the row of an
  ended session after a week at most (`repos/cleanup.rs:33`), a missing row
  counts as not revoked (`repos/sessions.rs:127`), and refresh tokens live 30
  days (`models/tenant.rs:434`). So an offline token that a rotation or a code
  exchange beside the sign-out put in works again from then on.
* Device grant. The `slow_down` branch restores a spent approval
  (`device_codes.rs:360`), a poll that read the record before the decision
  writes it back as pending (367). After eight collisions `issue` shows a user
  code it did not claim (163).
* CIBA. The same write-back loses a committed answer (`ciba.rs:436`); an answer
  whose commit fails after its record was stored can be collected and given
  again (307); two starts that overlap exceed the cap (`oidc/ciba.rs:165`). It
  takes three polls to issue tokens twice on one answer: two read the approval,
  a third that read the request as pending writes it back between their
  GETDELs, and the second GETDEL takes that record without a look at what it
  says (447-456; the comment calls the approval "Spent by the first request
  that sees the approval"). The attempt to prove `CollectedOnce` without this
  exception found it; the run has three polls since.
* Login. A flow's record saved late brings back a flow that ended, or its
  attempts (`login_flows.rs:173`); two sign-ins at once exceed
  `max_concurrent`. So does a sign-in that fails after it stored its session and
  before it listed it (`sessions.rs:188-192`): nothing that goes by the user's set
  finds that session, neither the limit nor the end of all the user's sessions. A
  denied consent and `finish` only log a failed deletion of the flow
  (`routes/flows.rs:370`, 1052), so a finished flow stays `Done` and can be
  finished again, without any overlap; and a wrong second-factor code whose count
  could not be saved is free. A session whose revocation fails after the deletion
  from Valkey has an unmarked row.

  A password past its age forces a change in `password_step`
  (`password.rs:826-833`), and only there: `unfinished_stage` asks
  `must_change_password` alone (`flows.rs:1380`), so a browser that leaves the flow
  at the change and comes back to `/authorize` gets its code, and a sign-in by
  passkey or by a code never meets the question. `GrantOwesNothing` is about the
  change an administrator forces; one that is forced while the flow is under way
  is not asked for by a step that has passed the question (`unaware`). Terms and a profile left unanswered by a flow that was
  abandoned are not asked for when the session is resumed at `/authorize`
  (`authorize.rs:694`, `unfinished_stage`; `docs/src/admin/saml-upstream.md:153`
  says of a session opened from upstream that terms are):
  `GrantOwesNothing` is about the password change and the
  second factor. `finish` can be raced to issue two codes, each of them owed
  nothing.
* Second factors. Two checks that overlap accept one recovery code, or one
  message, twice, and the slower one writes back what the other spent
  (`totp.rs:614`, `passwordless.rs:285`). Between the insertion of an app and
  the mark of its proving step, that code is good for a sign-in
  (`totp.rs:360`). Two enrolments of one scope that overlap, or a pending
  destination that ends a moment before the code stored after it, leave a code
  sent to one number beside another number (`otp_factors.rs:293`). So does a
  wrong code checked beside the right one: it writes the code back with one more
  attempt after the right one deleted it (`passwordless.rs:285`), the enrolment
  ends and deletes only its pending destination (`otp_factors.rs:366`), and when
  the factor is removed and another number is enrolled in the same scope while
  the old code lives, with the new message held back or its send refused, the old
  code proves the new number. It takes more requests than the run has: the
  attempt to prove `ProvenWhereSent` without this exception found it. Two
  regenerations at once leave two sets; two removals at once leave recovery
  codes without a factor.
* Cache. The writer's own node may keep a stale L1 entry for its TTL
  (`layer.rs:341`): `RemoteL1Fresh` is about the other nodes.
* Keys. A change that read a key before it was revoked revives it
  (`keys.rs:217`). Until the token moves, a node may sign with a key that the
  cached document does not have in four cases: the first key, which is inserted
  active; a revoked key that is brought back; a key whose maker committed it and
  failed to move the token; and a key that another request activates between its
  maker's commit and its bump. A rotation pass updates a row by its `key_version` column
  alone, so it overwrites a secret stored since under the same version, and two
  passes with different targets can do so too (`master_key.rs`; its header has
  them never clobber each other). Even when everyone was on the newest
  generation as the secret was stored, a later pass on a node that is behind
  moves the row back to the older version, and a pass that read the row under
  that version before still finds it there and writes its older copy
  (`PutBack`). The attempt to prove `RotationKeepsSecrets` without this exception
  found it, on an instance with a second request.
* Audit. Retention under a verification raises a false alarm (`audit.rs:498`,
  against 818); a month dropped by time is not always a prefix of the chain;
  the export's leap to the head passes over a row appended since
  (`audit_sink.rs:152`).
* Relocation. The placement is read before the lock (`relocation.rs:97`,
  against 112), so a second move can act on what the first has changed; keys of
  a move that failed at its last step are not deleted by repeating it.
* Queue. Two redeliveries that both read a message dead send it twice
  (`queue.rs:233`).
* Authorization codes. A replay that overtakes its exchange, before the
  CodeGrant is stored, undoes nothing (`LateReplayUndoes` is about replays after
  the answer).

### Bounds

* `refresh_safety`: three rows and two families. Three rows are a chain of two
  rotations, enough for a live token, its consumed predecessor and a successor
  in flight; two families in one session make a sweep lock rows of both. Two
  requests: each hazard is a race of two (replay and rotation, sign-out and
  redemption, two redemptions). A row id is reserved before a request starts
  (`IdsLeft`), so no request is stuck for want of ids.
* `login_signin`: two users of different policy, one of them unregistered; two
  authorization requests, the first with ordinary consent, the second with
  `acr_values`, an organisation it names, other risk verdicts and `prompt=consent`
  of a client that is otherwise exempt, so that a flow can be left and its session
  met by another and an earlier consent must not do for the second; two
  sessions against a limit of one; one disturbance (`MaxDisturbances`), since
  each race is between two requests and each failure leaves something behind by
  itself; `MaxTries` wrong codes of a flow on top of
  what its own limit allows.
* `factors_codes`: two requests at a time and four in all (`MaxStarts`), one of
  which may die: an enrolment is two, a switch of destination three, an
  enrolment and two uses four. A user starts with no factor or with both. Time
  runs for three steps (`MaxClock`), one full life of a mark; it starts to run
  with the first code.
* `auth_codes_safety`: two codes and three requests: an exchange and two
  replays, or two exchanges and a replay.
* `device_polls`: two polls and two decisions where they may race, a second
  device that shares the user code and does not poll (`Polling`); `MaxAnswers`
  = 2 counts just past the property.
* `ciba_answers`: a cap of one (`MaxPending`) and two requests; two answers,
  three polls (two that collect and one that writes back), one failing store.
* `cache_safety`: two writes, so that a value can be stale by one and by two,
  one writing node and one node with two loaders, so that the gate, a late
  loader and a second loader meet; two gates, so that a gate made after one was
  dropped is another.
* `keys_caches`: two keys, so that one is rotated in while the other retires;
  three commits (`MaxRevisions`) and one fault; one node that reads.
* `master_rotation`: two rows in pages of one (`Batch`), so that a pass is
  between two pages; generations up to three; one node stopped (`Stopped`), so
  that it is behind; one stop and one failed call.
* `audit_log`: four events of two nodes, one of them at fault; pages of two, so
  that a link is checked within a page and from one page to the next, and
  retention falls between two; queues and parks of two (`Limit`), so that
  they overflow; a month that ends between the events.
* `relocation_moves`: three databases and three moves, so that a move and its
  way back leave something behind; two movers, one fault.
* `queue_delivery`: one message (messages interact only through the batch),
  two nodes and the task as competitors, two redeliveries that may overlap, two
  attempts, two faults: a crash, a lapse of the lock or a failed record, any two
  of them in one behaviour.

Symmetry is used only in runs without liveness. Deadlock is checked where the
system never stops (refresh, cache). Codes, decisions, messages, moves and
bounded requests are used up in the other instances, so those configurations
turn the check off.

### Fairness

* `OutboundQueue!Fairness`: time passes (`BackoffEnds`, `GoesStale`,
  `LockLapse`), nodes start their pass again and again (`jobs/scheduler.rs`),
  providers answer or time out. `JobClaim` is strongly fair: a pass may skip a
  tenant when its budget is spent, not every pass. Faults are bounded by
  `MaxFaults`, so a fault never happens for ever; fairness is never assumed
  of a fault.
* `AuditChain!Fairness`: a writer that has events takes them, retries what it
  parked and goes on with a batch it records singly (a loop of its own task),
  and the export worker keeps its turns. Verification and retention are not
  assumed to run.

### Assumptions about time

* `INVALIDATION_HOLD` (5 s) is longer than a load, as its comment says
  (`cache/layer.rs`): the sentinel does not expire while a loader carries a
  value older than the row (`ExpireRedis`). Without it `RedisFresh` fails.
* A worker is done with a message before `STALE_AFTER` (10 minutes) or is
  gone (`GoesStale`). The code makes this likely and does not ensure it: a batch
  is 100 messages, 8 at a time, an HTTP provider's call times out after 15 s, but
  the timeout of SMTP (`senders.rs:236`) bounds one read or write and not a send.
* The row of a session that ended is kept for a day at least, and neither a
  request nor a code lives that long: no request that knows of the session is
  under way when its row is purged (`PurgeSession`), and no code of it is
  exchanged afterwards (`IssueCheck`).
* `drain` ends when the placements cached before the mark have expired and
  their transactions are over (`Relocation`): it is longer than the placement's
  TTL, and that no transaction is longer is the operator's to ensure.
* MASTER_KEY is taken out of the configuration when no node and no request
  under way seals with it and every row's column is at the newest generation
  (`Retire`), which is what the status page shows.
* An audit event waits for seconds, and expires after days: by then it is recorded
  or lost, and no retry of it is due (`Expire`).
* The pause between two messages (20 s) is over before the code (10 minutes).

## 4. Proofs

TLAPS proves the following for every value of the constants: any number of
tokens, flows, requests, nodes, keys, writes and faults, where the runs have two
or three. 38 of the 40 properties that the runs check are theorems. Each proof
module extends the module it is about (`GrantProofs` extends `Ciba`) and has the
same shape: `TypeCorrect` first, then
per property the strengthening that makes it inductive (checked by TLC on the
run's instance before it was proved), a lemma that `Init` has it, a lemma that
every step keeps it with one step per action, and the theorem. Three of them have
further parts about an instance of another module: `GrantProofs` about
`Auth == INSTANCE AuthCodes` and `Device == INSTANCE DeviceCodes`,
`SigningKeysProofs` about `Master == INSTANCE MasterKeys`, `AuditChainProofs` about
`Queue == INSTANCE OutboundQueue`. The theorems there have that module's `ASSUME`
as their hypothesis, since the prover does not take it over from an instance; its
own run has TLC evaluate it.

| Module | Theorem | States |
|---|---|---|
| `RefreshTokensProofs` | `FamilyHasOneLiveToken` | `OneLiveToken` |
| | `RevocationMissesOnlyRaces` | `OnlyRacingTokensEscape` |
| | `RotationSpendsLive` | `SpendsOnlyLive` (action property) |
| | `SignOutEndsRefresh` | `SignOutEndsOfflineRefresh` |
| `LoginFlowProofs` | `MfaEarned` | `MfaIsEarned` |
| | `NothingOwed` | `GrantOwesNothing` |
| | `ConsentFirst` | `ConsentBeforeGrant` |
| | `EndedStaysEnded` | `EndedFlowStaysEnded` |
| | `EndedSessionsStayGone` | `RevokedStaysGone` |
| | `LimitIsKept` | `CapHolds` |
| `SecondFactorsProofs` | `OnceAccepted` | `AcceptedOnce` |
| | `WhereSent` | `ProvenWhereSent` |
| | `NeedAFactor` | `CodesNeedAFactor` |
| `GrantProofs` | `TokensOnce` | `CollectedOnce` |
| | `AnswerIsDelivered` | `AnswerReachesClient` |
| | `CapIsKept` | `CapUnlessCrowded` |
| | `CodesAreOneShot` | `CodeIsOneShot` (refinement) |
| | `LateReplaysUndo` | `LateReplayUndoes` |
| | `DeviceSpentOnce` | `ApprovalSpentOnce` |
| | `DeviceDecisionFinal` | `DecisionSticks` |
| `CacheLayerProofs` | `NoSecondLoad` | `OneLoadPerNode` |
| | `SharedEntryIsFresh` | `RedisFresh` |
| | `RemoteEntryIsFresh` | `RemoteL1Fresh` |
| `SigningKeysProofs` | `ChangesAreSeen` | `AnnouncedIsSeen` |
| | `SignedIsPublished` | `PublishedBeforeSigning` |
| | `RevokedStays` | `RevokedStaysUnlessOverlapped` (action property) |
| | `SecretsReadable` | `RowsReadable` |
| | `SecretsSurvive` | `RotationKeepsSecrets` |
| | `PassesFinish` | `PassLeavesNothing` |
| `RelocationProofs` | `NothingIsLost` | `LostOnlyWhenMisled` |
| | `RerunLeavesOneCopy` | `OneCopyAfterARerun` (action property) |
| | `NoMoveRevives` | `EndedStaysEnded` |
| `AuditChainProofs` | `Retained` | `RetainedIsLinked` |
| | `Ordered` | `InOrderOnce` |
| | `Alarm` | `AlarmHasACause` |
| | `Export` | `SinkSkipsOnlyInALeap` |
| | `ClaimsAreExclusive` | `ClaimIsExclusive` |
| | `NoDuplicateWithoutFault` | `DeliveredOnce` |

### The arguments

* `RefreshTokens`. `IInv` adds that a redemption past its checks holds the lock
  of a row that is live (`RotatingHoldsLiveRow`: what the checks saw stays true
  until the commit), that an `UPDATE` holds the rows it has rewritten
  (`SweepHoldsRows`), that whatever a running revocation has not listed is an
  escaped successor (`SweepCovers`), that a family about to be issued has no row
  and one issuer (`IssueIsFresh`), and that covered families have rows
  (`SweptAreIssued`: a family issued afterwards is not one a revocation
  covered). The action property follows from `RotatingHoldsLiveRow`. For the
  sign-out, `SessionInv` adds that a session counts as over only when its row
  is marked or gone (`SignOutMarksFirst`: the redemption's check asks that row),
  and that whatever a sign-out leaves usable was put in beside it
  (`SignOutCovers`), which is all there is to say once the row is gone.
* `AuthCodes`. `IInv` adds that whoever holds a code, or was answered for it, is
  alone with it (`HoldsAlone`), that CodeGrants belong to requests past their
  minting, that the tokens of an answered code stay undoable until something
  undoes them (`StaysUndoable`), and that a replay that saw an answer has taken,
  or found taken, its CodeGrant (`LateIsTaken`). Steps map to `Open`, `Answer`,
  `Lapse` or a stutter (`NextRefines`), with lemmas for a request that gives up
  (`GiveUp`) and for a step beside the grant (`Aside`).
* `LoginFlow`. `ShapeInv` says of every step of a request what it has loaded.
  `GrantInv` is the core: whatever a stored session, a flow's record, a
  request's copies or a code says of factors, consent and answers was really
  given (`SessionsVouched`, `FlowsVouched`, `RequestsVouched`, `CodesVouched`,
  `AccountsVouched`). Factors, consents and answers are not taken back
  (`Keeps`), so a copy that is written back late still says nothing false: this
  is why the races in the flow's records cost no factor. The one step that does
  add a debt is `ForcePasswordChange`, and it puts every flow that might already
  vouch for the user into `unaware`. `FlowInv` is about
  flows nobody shares and whose deletion and counts were saved: one request holds
  such a flow, its copy counts the attempts so far, or it is about to write the
  count (`Orderly`). `SessInv` is
  about sessions: one that ended while nobody held it has no record
  (`GoneIsMissing`) and a missing record means that the session ended or was
  never opened, or stopped half-way (`MissingIsGone`), so no request loads it; ids are opened in
  order, so a new session's id is one that nobody has a copy of
  (`OpenedInOrder`, `OpenedIsHeld`). `CapInv` counts: the listed sessions of a
  user who never rushed fit the limit, at most one sign-in of theirs is about to open a
  session, and then one place is free; evicting frees it, because no more than
  the limit was open before.
* `SecondFactors`. `FactorInv`: unless a removal ran beside another change,
  whoever is to store recovery codes has a factor, and the other factors a
  removal found are still there. `StraightInv`: in a scope where nothing crossed,
  the code that is out, the pending destination and the copy a request has read
  are of one destination, and an enrolment that is beginning has the scope to
  itself. `OnceInv` is three arguments over what requests have in hand
  (`HandInv`: of what is not shared, one request has it). A set of recovery codes
  and the copies of it have no code that was accepted (`SetInv`). A message is at
  one key, which, like a copy of it, has as many attempts as wrong codes were
  checked (`MessageInv`). An authenticator's secret belongs to one credential,
  and a step accepted for it is marked as long as its code is in the window, or
  is about to be by the enrolment that proved it (`SecretInv`); with `Dated`,
  which says that a mark is made at most `Skew` steps before the step it is for,
  no mark ends before its code does.
* `DeviceCodes`. `DeviceInv`: a device that waits for its answers has one poll; an
  approval is in the record, in that poll's hands or answered, and in one of
  these places only; a decision stored with no poll under way leaves no pending
  copy to be written back.
* `Ciba`. `AnswerInv`: a decision that has the row locked is alone with its
  pending row (`RowIsHeld`); what records and polls say was given by the user
  (`SaidByUser`); what a poll takes is an approval (`TakenIsApproved`); and a
  record that was collected is gone, with one poll to issue on it
  (`SpentOnce`). `ReachInv` states the answer's way from the moment the record
  is stored, before the commit (`StoredIsThere`); a poll that deletes a record as
  expired found it so (`LateIsExpired`). `PlaceIsKept`: a start between
  its count and its row has a place kept, being the only one there.
* `CacheLayer`. `GateInv`: everyone at a gate of a node, or behind it, has a
  clone of the one in the map (`AllAtOneGate`: whoever takes it out of the map has
  the last clone), and one of them is behind it (`GateIsMutex`). `RedisInv`: once no
  invalidation is pending the entry is not old (`SharedIsFresh`) and an old load
  finds the sentinel in its way (`OldLoadIsBarred`). `L1Inv`: an old value on
  its way to a remote L1, or in it, has news coming that will drop it or spoil
  its ticket (`OldLoadIsNews`, `OldEntryIsNews`).
* `SigningKeys`. `KeyInv`: what each change has in hand at each step
  (`TasksInHand`); a read that has the current token has the rows of every
  announced change, before it files anything (`ViewsCurrent`); what a
  change is about to write was not revoked when it read it (`ReadUnrevoked`).
  `PubInv`: a key that a view under the current token misses is absent, revoked,
  one of the four cases, or does not sign yet and its maker is about to move the
  token (`MissedIsKnown`); nobody activates a key of the last kind
  (`ActivatesKnown`) and no view signs with one (`SignsKnown`).
* `MasterKeys`. `MasterInv`: a new generation is numbered past MASTER_KEY's and
  past every one made, so a number names one key; a row's column is never ahead
  of its key (`RowsInv`); the current key of a process is the newest it holds
  (`NodesInv`); what a pass seals is under a key of the table, at or past its
  target, because the pass runs on a process that opened a row of another
  generation than the target (`PassesInv`). Together: no row is under MASTER_KEY
  once it was taken away. `SecretsInv`: the copy of a row that was not crossed is
  of the secret stored last, or its pass waits for a version behind its target
  that the row no longer has. `ScanInv`: a row that a pass owes a move is under a
  version still to visit, past the cursor or in the pass's hands; it rests on a
  page being the first rows left (`PageScan`), counted with the library's
  cardinality facts.
* `Relocation`. `LockInv`: a move past the lock has it, and from the drain on
  nobody locates the tenant or has a transaction open. `PlaceInv`: what a move
  knows of the registry, and that the copy is complete when it switches; only
  while no move was misled. `KeysInv`: a key outside the tenant's place is one a
  move has listed and will delete, or a leftover.
* `AuditChain`. `LinkInv`: rows that adjoin are linked, the last one is the
  head's, and unless a month was torn out nothing between a row and the head is
  missing. `WalkInv`: a walk under which nothing was removed stands on a row, and
  the hash it carries from page to page and in the checkpoint is that row's, so
  what it finds next is linked to it. `SinkInv`: every number given out is of a
  row or of a purged one, and what the export worker has read is all there is
  from its cursor to its last row. `OrderInv`: what a writer records singly, has
  parked and has queued is in the order of publication and after what is recorded
  (`WaitingInOrder`, `RecordedFirst`). The one exception is an event whose commit
  the writer did not hear of: it waits although it is recorded, and `append`
  finds its row. Retention would break this if it removed that row first;
  it cannot, because an event does not expire while it waits (`Expire`, `Settled`,
  `UnheardIsThere`).
* `OutboundQueue`. `ClaimInv`: a message in hand is `sending` and not stale, so
  neither a claim nor the requeue of stale rows takes it. `DeliveryInv`: without
  faults a `sending` row is in hand (`SendingIsInHand`), and a message the
  provider took is only ever recorded as sent (`AcceptedIsRecorded`). The lock
  is in neither: as the code says, it only saves work.

### Assumptions

All are stated as `ASSUME` in the modules that declare the constants, and TLC
evaluates them on every run: the constant functions are functions
(`ConstantsAssumption`, `CacheAssumption`, `RecordsAssumption`), bounds are
numbers and positive where the code's are (`QueueAssumption`, `CibaAssumption`,
`RelocationAssumption`, `BoundsAssumption`, `DeviceAssumption`,
`MasterKeysAssumption`, `AuditAssumption`, `SecondFactorsAssumption`),
`None` and the other model values are none of the values they stand beside (all
of them, `NoneAssumption`, `ViewsAssumption`).
`KeysAssumption` has finitely many keys. `RecordsAssumption` has no password
change owed by a user who has no account yet. The assumptions about time of
section 3 are guards of actions, so the theorems rest on them as well.

### What is only model-checked

`EventuallySettled` and `WritersCatchUp`: liveness under fairness is out of the
prover's reach.

Three times a property that its run passed turned out to be false on a larger
instance when it came to be proved (`CollectedOnce`, `RotationKeepsSecrets`,
`ProvenWhereSent`). Each time the code does what the counterexample shows; the
property now names the case, and section 3 describes it.

## 5. Not modelled

The models cover the parts where several actors meet in shared state. Most of
the server's lines are elsewhere:

* Secrets, hashes and token contents: a token is its row, a code its name.
* DPoP, mTLS, PKCE, scope and resource checks: one refusal, before any write.
* Administration of users, roles, groups, clients, organisations, identity
  providers and SCIM: one transaction each, followed by the cache invalidation
  that `CacheLayer` models.
* Webhook delivery and back-channel logout: the claims and retries of
  `OutboundQueue` over other rows.
* Rate limits, CAPTCHA, the send limit: counters in Valkey. Their verdict is a
  choice in `LoginFlow` and `SecondFactors`. The guess counter of the device
  grant is an INCR and a later EXPIRE (`device_codes.rs:239`): a node that dies
  between them leaves a counter without an end.
* TTL jitter, serialisation and the eviction of L1 marks by capacity
  (`l1.rs:79`).
* The connection pool: a redemption holds one connection while it may take a
  second (`refresh_tokens.rs:270`).
* Waiting for ever on row locks: two revocations of one family can wait for
  each other (`repos/refresh_tokens.rs:118`); Postgres ends the cycle with an
  error for one of them, which is `Abort`.
* SAML, Kerberos, LDAP and WebAuthn protocols, parsing, cryptography,
  templates, routes, the UI and the CLI: computations without shared state,
  better served by tests.

## 6. Plan

Models to add: webhooks over the claims of `OutboundQueue`, the counters behind
rate limits, single-use handles (invitations, contact changes, download tickets)
against `OneShotGrant`, passkey challenges.
