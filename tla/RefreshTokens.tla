---------------------------- MODULE RefreshTokens ----------------------------
(***************************************************************************)
(* Rotating refresh tokens (services/refresh_tokens.rs over                *)
(* repos/refresh_tokens.rs), and the session sign-out that revokes them    *)
(* (services/sessions.rs, revoke).                                         *)
(*                                                                         *)
(* Every request is one Postgres transaction at READ COMMITTED: it sees    *)
(* the rows committed when each STATEMENT starts, SELECT ... FOR UPDATE    *)
(* and UPDATE take row locks that last until commit or rollback, and       *)
(* nothing it wrote is visible before the commit.  A statement is          *)
(* therefore a step, and what a transaction writes is applied by its       *)
(* commit step.  The revoking UPDATE is several steps: it fixes its rows   *)
(* from the snapshot of its start, then locks and rewrites them one by     *)
(* one, waiting for rows that other transactions hold.                     *)
(*                                                                         *)
(* A refused redemption (unknown token, another client, revoked, expired,  *)
(* DPoP key, certificate, resource or scope mismatch) rolls back having    *)
(* written nothing: it is the absence of a step.                           *)
(***************************************************************************)
EXTENDS Naturals, FiniteSets

CONSTANTS
    Tokens,      \* ids of token rows; a rotation takes an unused one
    Families,    \* ids of token families (one per grant)
    Sessions,    \* SSO sessions
    Users,       \* subjects of the grants
    Requests,    \* concurrent request handlers, on any node
    FamSession,  \* the session a family was issued in
    FamUser,     \* the user a family belongs to
    Offline,     \* the families whose scopes hold offline_access
    None         \* no family, no lock holder

ASSUME ConstantsAssumption ==
    /\ FamSession \in [Families -> Sessions]
    /\ FamUser \in [Families -> Users]
    /\ Offline \subseteq Families
    /\ None \notin Families \cup Requests \cup Sessions \cup Tokens

VARIABLES
    family,     \* family[t]: the family of row t, None while t is unused
    consumed,   \* rows with consumed_at set
    revoked,    \* rows with revoked_at set
    purged,     \* rows the cleanup job deleted
    expired,    \* families past their expires_at
    lock,       \* lock[t]: the transaction that holds row t
    alive,      \* sessions whose record is in Valkey
    signedOut,  \* sessions whose database row has revoked_at set
    forgotten,  \* sessions whose database row the cleanup job deleted
    pc,         \* pc[p]: where request p stands
    tok,        \* tok[p]: the row presented to it, if any
    kind,       \* kind[p]: what it is (see Kind)
    aim,        \* aim[p]: the families it issues, redeems or revokes
    todo, done, \* the rows its UPDATE has still to lock, and has set
    sid,        \* sid[p]: the session it ends, if any
    late,       \* history: the sessions signed out for good when it came in
    swept,      \* history: families a committed revocation covered
    over,       \* history: sessions whose sign-out ran to its end
    escaped,    \* history: tokens a rotation racing a revocation put in, and
                \* their successors
    strays      \* history: tokens an exchange racing a sign-out put in, and
                \* their successors

vars == <<family, consumed, revoked, purged, expired, lock, alive, signedOut, forgotten,
          pc, tok, kind, aim, todo, done, sid, late, swept, over, escaped, strays>>
requestVars == <<pc, tok, kind, aim, todo, done, sid, late>>
rowVars == <<family, consumed, revoked, purged, expired>>
sessionVars == <<alive, signedOut, forgotten>>
historyVars == <<swept, over, escaped, strays>>

Stored(t) == family[t] # None /\ t \notin purged
Live(t) == Stored(t) /\ t \notin consumed /\ t \notin revoked

Rotating == {"session", "slide", "write"}   \* a redemption that holds its row
PC == Rotating \cup {"idle", "issue", "mark", "revoke", "sweep"}
(* A redemption by a client that rotates its tokens, by one that keeps them *)
(* (FAPI 2.0), one that met a reuse, or anything else.                      *)
Kind == {"rotate", "keep", "reuse", "other"}

Init ==
    /\ family = [t \in Tokens |-> None]
    /\ consumed = {} /\ revoked = {} /\ purged = {} /\ expired = {}
    /\ lock = [t \in Tokens |-> None]
    /\ alive = Sessions /\ signedOut = {} /\ forgotten = {}
    /\ pc = [p \in Requests |-> "idle"] /\ kind = [p \in Requests |-> "other"]
    /\ tok = [p \in Requests |-> None] /\ sid = [p \in Requests |-> None]
    /\ aim = [p \in Requests |-> {}] /\ late = [p \in Requests |-> {}]
    /\ todo = [p \in Requests |-> {}] /\ done = [p \in Requests |-> {}]
    /\ swept = {} /\ over = {} /\ escaped = {} /\ strays = {}

(* Where request p goes next, everything else about it unchanged; or with   *)
(* what it carries from here on.                                            *)
Goto(p, c) ==
    /\ pc' = [pc EXCEPT ![p] = c]
    /\ UNCHANGED <<tok, kind, aim, todo, done, sid, late>>
Enter(p, c, t, k, fs, s, l) ==
    /\ pc' = [pc EXCEPT ![p] = c] /\ tok' = [tok EXCEPT ![p] = t]
    /\ kind' = [kind EXCEPT ![p] = k] /\ aim' = [aim EXCEPT ![p] = fs]
    /\ sid' = [sid EXCEPT ![p] = s] /\ late' = [late EXCEPT ![p] = l]
    /\ todo' = [todo EXCEPT ![p] = {}] /\ done' = [done EXCEPT ![p] = {}]
(* Commit or rollback: the transaction's row locks go. *)
Release(p) ==
    /\ lock' = [t \in Tokens |-> IF lock[t] = p THEN None ELSE lock[t]]
    /\ Enter(p, "idle", None, "other", {}, None, {})

(* Bound: a request that will insert a row starts only while there is an    *)
(* unused id for it.  (Row ids are UUIDs; the set Tokens is finite.)        *)
IdsLeft ==
    Cardinality({t \in Tokens : family[t] = None})
        > Cardinality({p \in Requests : pc[p] \in Rotating \cup {"issue"}})

-----------------------------------------------------------------------------
(* The code exchange: the session is looked up in one transaction, the      *)
(* first token of a new family inserted in a later one.  A code lives for a *)
(* minute, the row of its session for days after the session ended.         *)
IssueCheck(p, f) ==
    /\ pc[p] = "idle"
    /\ \A t \in Tokens : family[t] # f
    /\ \A q \in Requests : pc[q] = "issue" => f \notin aim[q]
    /\ FamSession[f] \notin signedOut \cup forgotten
    /\ IdsLeft
    /\ Enter(p, "issue", None, "other", {f}, None, {})
    /\ UNCHANGED <<rowVars, lock, sessionVars, historyVars>>

(* The sign-out of s has fixed the rows it revokes, or is over.             *)
PastSignOut(s) == s \in over \/ \E q \in Requests : pc[q] = "sweep" /\ sid[q] = s

Issue(p, f, t) ==
    /\ pc[p] = "issue" /\ aim[p] = {f}
    /\ family[t] = None
    /\ family' = [family EXCEPT ![t] = f]
    /\ strays' = IF PastSignOut(FamSession[f]) THEN strays \cup {t} ELSE strays
    /\ Release(p)
    /\ UNCHANGED <<consumed, revoked, purged, expired, sessionVars, swept, over, escaped>>

-----------------------------------------------------------------------------
(* Mutant of LockRow: the row is read without FOR UPDATE.                   *)
LockRowUnlocked(p, t, c, k, l) ==
    /\ pc[p] = "idle" /\ Stored(t)
    /\ Enter(p, c, t, k, {family[t]}, None, l)
    /\ UNCHANGED <<rowVars, lock, sessionVars, historyVars>>

(* SELECT ... FOR UPDATE of the presented row: waits for its lock.          *)
LockRow(p, t, c, k, l) ==
    /\ pc[p] = "idle"
    /\ Stored(t) /\ lock[t] = None
    /\ lock' = [lock EXCEPT ![t] = p]
    /\ Enter(p, c, t, k, {family[t]}, None, l)
    /\ UNCHANGED <<rowVars, sessionVars, historyVars>>

(* A consumed token is presented again: its family is to be revoked.        *)
RedeemReuse(p, t) ==
    /\ t \in consumed
    /\ LockRow(p, t, "revoke", "reuse", {})

(* A good token is presented and passes every check on its own row.         *)
RedeemGood(p, t, k) ==
    /\ t \notin consumed /\ t \notin revoked /\ family[t] \notin expired
    /\ IdsLeft
    /\ LockRow(p, t, "session", k, over)

FamilyOf(p) == family[tok[p]]
SessionOf(p) == FamSession[FamilyOf(p)]

(* Mutant of SessionEnded: an offline family is not checked again, since    *)
(* sign-out revoked its tokens already.                                     *)
SessionEndedOnline(p) ==
    FamilyOf(p) \notin Offline /\ SessionOf(p) \notin alive

(* An offline family asks the database row whether the session was signed   *)
(* out (is_revoked: no, if there is no row); any other needs the session's  *)
(* record in Valkey.                                                        *)
SessionEnded(p) ==
    IF FamilyOf(p) \in Offline THEN SessionOf(p) \in signedOut
                               ELSE SessionOf(p) \notin alive

(* sessions::get writes the record back when its last activity is a minute  *)
(* old: a second step, after the read.                                      *)
CheckSession(p) ==
    /\ pc[p] = "session"
    /\ \/ SessionEnded(p) /\ Goto(p, "revoke")
       \/ ~SessionEnded(p) /\ Goto(p, "write")
       \/ ~SessionEnded(p) /\ FamilyOf(p) \notin Offline /\ Goto(p, "slide")
    /\ UNCHANGED <<rowVars, lock, sessionVars, historyVars>>

SlideSession(p) ==
    /\ pc[p] = "slide"
    /\ alive' = alive \cup {SessionOf(p)}
    /\ Goto(p, "write")
    /\ UNCHANGED <<rowVars, lock, signedOut, forgotten, historyVars>>

(* Some revocation that covers f has fixed its rows and not committed.      *)
UnderRevocation(f) == \E q \in Requests : pc[q] = "sweep" /\ f \in aim[q]

(* The presented token is spent and its successor put in, at one commit.    *)
Rotate(p, n) ==
    /\ pc[p] = "write" /\ kind[p] = "rotate"
    /\ family[n] = None
    /\ family' = [family EXCEPT ![n] = FamilyOf(p)]
    /\ consumed' = consumed \cup {tok[p]}
    /\ escaped' = IF tok[p] \in escaped \/ UnderRevocation(FamilyOf(p))
                  THEN escaped \cup {n} ELSE escaped
    /\ strays' = IF tok[p] \in strays THEN strays \cup {n} ELSE strays
    /\ Release(p)
    /\ UNCHANGED <<revoked, purged, expired, sessionVars, swept, over>>

(* A FAPI 2.0 client gets the same token back.                              *)
KeepToken(p) ==
    /\ pc[p] = "write" /\ kind[p] = "keep"
    /\ Release(p)
    /\ UNCHANGED <<rowVars, sessionVars, historyVars>>

-----------------------------------------------------------------------------
(* RFC 7009 revocation by the token's secret.                               *)
RevokeToken(p, t) ==
    LockRow(p, t, "revoke", "other", {})

RevokeForUser(p, u) ==
    /\ pc[p] = "idle"
    /\ Enter(p, "revoke", None, "other", {f \in Families : FamUser[f] = u},
             None, {})
    /\ UNCHANGED <<rowVars, lock, sessionVars, historyVars>>

(* Ending a session: its record leaves Valkey, its row is marked, then its  *)
(* tokens are revoked.                                                      *)
EndSession(p, s) ==
    /\ pc[p] = "idle"
    /\ alive' = alive \ {s}
    /\ Enter(p, "mark", None, "other", {f \in Families : FamSession[f] = s},
             s, {})
    /\ UNCHANGED <<rowVars, lock, signedOut, forgotten, historyVars>>

MarkRevoked(p) ==
    /\ pc[p] = "mark"
    /\ signedOut' = signedOut \cup ({sid[p]} \ forgotten)
    /\ Goto(p, "revoke")
    /\ UNCHANGED <<rowVars, lock, alive, forgotten, historyVars>>

(* The revoking UPDATE starts: the rows its snapshot shows it.              *)
Matching(fs) ==
    {t \in Tokens : Stored(t) /\ family[t] \in fs /\ t \notin revoked}

SweepStart(p) ==
    /\ pc[p] = "revoke"
    /\ pc' = [pc EXCEPT ![p] = "sweep"]
    /\ todo' = [todo EXCEPT ![p] = Matching(aim[p])]
    /\ aim' = [aim EXCEPT ![p] = {family[t] : t \in Matching(@)}]
    /\ UNCHANGED <<tok, kind, done, sid, late, rowVars, lock, sessionVars, historyVars>>

(* Mutant of SweepRow: the UPDATE skips rows that are locked.               *)
SweepRowSkipLocked(p, t) ==
    /\ pc[p] = "sweep" /\ t \in todo[p]
    /\ lock' = IF lock[t] = None THEN [lock EXCEPT ![t] = p] ELSE lock
    /\ todo' = [todo EXCEPT ![p] = @ \ {t}]
    /\ done' = [done EXCEPT ![p] = @ \cup {u \in Matching(aim[p]) \cap {t} :
                                            lock[u] \in {None, p}}]
    /\ UNCHANGED <<pc, tok, kind, aim, sid, late, rowVars, sessionVars, historyVars>>

(* It locks one of them and re-reads it: a row that was revoked or deleted  *)
(* while it waited no longer matches.                                       *)
SweepRow(p, t) ==
    /\ pc[p] = "sweep" /\ t \in todo[p]
    /\ lock[t] \in {None, p}
    /\ lock' = [lock EXCEPT ![t] = p]
    /\ todo' = [todo EXCEPT ![p] = @ \ {t}]
    /\ done' = [done EXCEPT ![p] = @ \cup (Matching(aim[p]) \cap {t})]
    /\ UNCHANGED <<pc, tok, kind, aim, sid, late, rowVars, sessionVars, historyVars>>

SweepCommit(p) ==
    /\ pc[p] = "sweep" /\ todo[p] = {}
    /\ revoked' = revoked \cup done[p]
    /\ swept' = swept \cup aim[p]
    /\ over' = over \cup ({sid[p]} \ {None})
    /\ Release(p)
    /\ UNCHANGED <<family, consumed, purged, expired, sessionVars, escaped, strays>>

-----------------------------------------------------------------------------
(* The request fails part way (the database, Valkey, the connection, or     *)
(* Postgres choosing it as a deadlock's victim): its transaction rolls      *)
(* back; what it did to Valkey or committed before stays.                   *)
Abort(p) ==
    /\ pc[p] # "idle"
    /\ Release(p)
    /\ UNCHANGED <<rowVars, sessionVars, historyVars>>

(* The clock and the cleanup job.                                           *)
ExpireFamily(f) ==
    /\ f \notin expired /\ \E t \in Tokens : family[t] = f
    /\ expired' = expired \cup {f}
    /\ UNCHANGED <<family, consumed, revoked, purged, lock, sessionVars, requestVars,
                   historyVars>>

ExpireSession(s) ==
    /\ s \in alive
    /\ alive' = alive \ {s}
    /\ UNCHANGED <<rowVars, lock, signedOut, forgotten, requestVars, historyVars>>

PurgeToken(t) ==
    /\ Stored(t) /\ lock[t] = None
    /\ t \in consumed \/ t \in revoked \/ family[t] \in expired
    /\ purged' = purged \cup {t}
    /\ consumed' = consumed \ {t} /\ revoked' = revoked \ {t}
    /\ UNCHANGED <<family, expired, lock, sessionVars, requestVars, historyVars>>

(* The row of a session that ended is kept for days (RETENTION_DAYS, a week *)
(* at most), so no request that knows of the session is under way.          *)
Concerns(p, s) ==
    \/ sid[p] = s
    \/ \E f \in aim[p] : FamSession[f] = s

PurgeSession(s) ==
    /\ s \notin forgotten /\ (s \in signedOut \/ s \notin alive)
    /\ \A p \in Requests : ~ Concerns(p, s)
    /\ forgotten' = forgotten \cup {s}
    /\ signedOut' = signedOut \ {s}
    /\ UNCHANGED <<rowVars, lock, alive, requestVars, historyVars>>

Step(p) ==
    \/ \E f \in Families, t \in Tokens : Issue(p, f, t)
    \/ CheckSession(p) \/ SlideSession(p)
    \/ \E n \in Tokens : Rotate(p, n)
    \/ KeepToken(p) \/ MarkRevoked(p) \/ SweepStart(p)
    \/ \E t \in Tokens : SweepRow(p, t)
    \/ SweepCommit(p)

Arrive(p) ==
    \/ \E f \in Families : IssueCheck(p, f)
    \/ \E t \in Tokens : RedeemReuse(p, t) \/ RevokeToken(p, t)
    \/ \E t \in Tokens, k \in {"rotate", "keep"} : RedeemGood(p, t, k)
    \/ \E u \in Users : RevokeForUser(p, u)
    \/ \E s \in Sessions : EndSession(p, s)

Environment ==
    \/ \E p \in Requests : Abort(p)
    \/ \E f \in Families : ExpireFamily(f)
    \/ \E s \in Sessions : ExpireSession(s)
    \/ \E t \in Tokens : PurgeToken(t)
    \/ \E s \in Sessions : PurgeSession(s)

Next == (\E p \in Requests : Arrive(p) \/ Step(p)) \/ Environment

Spec == Init /\ [][Next]_vars

-----------------------------------------------------------------------------
(* What rows, locks, sessions and requests are.                             *)
TypeOK ==
    /\ family \in [Tokens -> Families \cup {None}]
    /\ consumed \subseteq Tokens /\ revoked \subseteq Tokens
    /\ purged \subseteq Tokens /\ expired \subseteq Families
    /\ lock \in [Tokens -> Requests \cup {None}]
    /\ alive \subseteq Sessions /\ signedOut \subseteq Sessions /\ forgotten \subseteq Sessions
    /\ pc \in [Requests -> PC] /\ kind \in [Requests -> Kind]
    /\ tok \in [Requests -> Tokens \cup {None}]
    /\ sid \in [Requests -> Sessions \cup {None}]
    /\ aim \in [Requests -> SUBSET Families]
    /\ late \in [Requests -> SUBSET Sessions]
    /\ todo \in [Requests -> SUBSET Tokens]
    /\ done \in [Requests -> SUBSET Tokens]
    /\ swept \subseteq Families
    /\ over \subseteq Sessions /\ escaped \subseteq Tokens /\ strays \subseteq Tokens

(* A family never has two usable tokens, however redemptions of the same    *)
(* token interleave: find_by_hash_for_update makes them queue, and the      *)
(* successor appears with the same commit that spends its predecessor.      *)
OneLiveToken ==
    \A t, u \in Tokens : Live(t) /\ Live(u) /\ family[t] = family[u] => t = u

(* A rotation spends only a token that is live in the database at that very *)
(* moment: the checks of redeem were made earlier, under the row lock.      *)
SpendsOnlyLive == [][\A t \in consumed' \ consumed : Live(t)]_vars

(* Once a revocation of a family (reuse, RFC 7009, sign-out, user) has      *)
(* committed, every row of it is revoked, save what a rotation running at   *)
(* the same time inserted and what descends from it: revoke_family misses   *)
(* only rows its snapshot could not show.                                   *)
OnlyRacingTokensEscape ==
    \A t \in Tokens :
        Stored(t) /\ family[t] \in swept /\ t \notin revoked => t \in escaped

(* The strengthening that makes OneLiveToken and OnlyRacingTokensEscape     *)
(* inductive, in named parts.                                               *)
RotatingHoldsLiveRow ==
    \A p \in Requests : pc[p] \in Rotating =>
        /\ tok[p] \in Tokens /\ lock[tok[p]] = p
        /\ Live(tok[p])
MarkHasSession == \A p \in Requests : pc[p] = "mark" => sid[p] \in Sessions
SweepHoldsRows ==
    \A p \in Requests : \A t \in done[p] : lock[t] = p
(* A new family has no row, and one request at most is about to give it one.*)
IssueIsFresh ==
    \A p \in Requests : pc[p] = "issue" =>
        /\ \A f \in aim[p], t \in Tokens : family[t] # f
        /\ \A q \in Requests :
              pc[q] = "issue" /\ aim[q] \cap aim[p] # {} => p = q
(* What a running revocation will have left out when it commits.            *)
SweepCovers ==
    \A p \in Requests : pc[p] = "sweep" =>
        \A t \in Matching(aim[p]) : t \in todo[p] \cup done[p] \cup escaped
SweptAreIssued ==
    /\ \A f \in swept : \E t \in Tokens : family[t] = f
    /\ \A p \in Requests : pc[p] = "sweep" =>
          \A f \in aim[p] : \E t \in Tokens : family[t] = f
RowInv ==
    /\ RotatingHoldsLiveRow /\ MarkHasSession /\ SweepHoldsRows
    /\ IssueIsFresh /\ SweepCovers /\ SweptAreIssued
    /\ OneLiveToken /\ OnlyRacingTokensEscape
IInv == TypeOK /\ RowInv

(* A redemption that passed its checks.                                     *)
Passed(p) == pc[p] = "write" \/ pc[p] = "slide"

(* Sign-out ends the refresh tokens of the session: no redemption of an     *)
(* offline_access family that arrives after it finished gets as far as new  *)
(* tokens, even with a token the revocation missed, because its check reads *)
(* the database (redeem: "issued under an SSO session that was since        *)
(* revoked").  That check ends with the session's row, which cleanup        *)
(* deletes before the tokens expire: from then on the tokens that pass are  *)
(* those which a rotation or an exchange beside the sign-out put in.        *)
(* Families without offline_access trust the record in Valkey, which a      *)
(* redemption under way during the sign-out writes back.                    *)
SignOutEndsOfflineRefresh ==
    \A p \in Requests :
        Passed(p) /\ FamilyOf(p) \in Offline /\ SessionOf(p) \in late[p] =>
            SessionOf(p) \in forgotten /\ tok[p] \in escaped \cup strays
=============================================================================
