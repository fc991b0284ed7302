----------------------------- MODULE AuthCodes -----------------------------
(***************************************************************************)
(* Authorization codes (services/auth_codes.rs) and their exchange at the  *)
(* token endpoint (oidc/token.rs, authorization_code and issue_tokens):    *)
(* the code is taken with GETDEL, the tokens are minted, and only then is  *)
(* a CodeGrant stored that lets a replay of the code undo them.            *)
(*                                                                         *)
(* A request presents one code once, so the access token and the refresh   *)
(* family it mints are named after it.  Each step is one command to Valkey *)
(* or one committed database transaction.                                  *)
(***************************************************************************)
CONSTANTS
    Codes,
    Requests,   \* calls of the token endpoint with an authorization code
    None

ASSUME NoneAssumption == None \notin Requests \cup Codes

VARIABLES
    code,      \* code[c]: "none", "stored" in Valkey, or "gone"
    record,    \* record[c]: the request whose CodeGrant is stored for c
    families,  \* requests that inserted a refresh family
    revoked,   \* those whose family is revoked
    denied,    \* those whose access token's jti is on the denylist
    pc,        \* pc[p]: where request p stands
    codeOf,    \* codeOf[p]: the code it presented
    victim,    \* victim[p]: whose CodeGrant the replay p took
    late,      \* history: who was answered for the code when replay p came in
    lost       \* history: whose CodeGrant expired, or died with a failed replay

vars == <<code, record, families, revoked, denied, pc, codeOf, victim, late, lost>>
tokenVars == <<families, revoked, denied>>

Holding == {"checks", "mint", "store", "reply"}   \* p took the code itself
Undoing == {"revoke", "deny"}                     \* p took a CodeGrant
PC == Holding \cup Undoing
        \cup {"idle", "replay", "answered", "refused", "undone", "failed"}

Init ==
    /\ code = [c \in Codes |-> "none"] /\ record = [c \in Codes |-> None]
    /\ families = {} /\ revoked = {} /\ denied = {}
    /\ pc = [p \in Requests |-> "idle"]
    /\ codeOf = [p \in Requests |-> None] /\ victim = [p \in Requests |-> None]
    /\ late = [p \in Requests |-> {}] /\ lost = {}

Goto(p, c) == pc' = [pc EXCEPT ![p] = c]

-----------------------------------------------------------------------------
Issue(c) ==
    /\ code[c] = "none"
    /\ code' = [code EXCEPT ![c] = "stored"]
    /\ UNCHANGED <<record, tokenVars, pc, codeOf, victim, late, lost>>

(* CODE_TTL_SECS. *)
ExpireCode(c) ==
    /\ code[c] = "stored"
    /\ code' = [code EXCEPT ![c] = "gone"]
    /\ UNCHANGED <<record, tokenVars, pc, codeOf, victim, late, lost>>

(* Mutant of Consume: the code is read with GET.                            *)
ConsumeGet(p, c) ==
    /\ pc[p] = "idle" /\ code[c] = "stored"
    /\ codeOf' = [codeOf EXCEPT ![p] = c]
    /\ Goto(p, "checks")
    /\ UNCHANGED <<code, record, tokenVars, victim, late, lost>>

(* GETDEL of the code. *)
Consume(p, c) ==
    /\ pc[p] = "idle" /\ code[c] = "stored"
    /\ code' = [code EXCEPT ![c] = "gone"]
    /\ codeOf' = [codeOf EXCEPT ![p] = c]
    /\ Goto(p, "checks")
    /\ UNCHANGED <<record, tokenVars, victim, late, lost>>

Answered(c) == {q \in Requests : pc[q] = "answered" /\ codeOf[q] = c}

(* GETDEL finds nothing: the code expired or was used before.               *)
ConsumeMiss(p, c) ==
    /\ pc[p] = "idle" /\ code[c] = "gone"
    /\ codeOf' = [codeOf EXCEPT ![p] = c]
    /\ late' = [late EXCEPT ![p] = Answered(c)]
    /\ Goto(p, "replay")
    /\ UNCHANGED <<code, record, tokenVars, victim, lost>>

(* The client, redirect_uri, PKCE, age, session or resource check fails.    *)
Refuse(p) ==
    /\ pc[p] = "checks"
    /\ Goto(p, "refused")
    /\ UNCHANGED <<code, record, tokenVars, codeOf, victim, late, lost>>

Pass(p) ==
    /\ pc[p] = "checks"
    /\ Goto(p, "mint")
    /\ UNCHANGED <<code, record, tokenVars, codeOf, victim, late, lost>>

(* issue_tokens: the access token, then the refresh family where the client *)
(* may have one.                                                            *)
Mint(p) ==
    /\ pc[p] = "mint"
    /\ families' \in {families, families \cup {p}}
    /\ Goto(p, "store")
    /\ UNCHANGED <<code, record, revoked, denied, codeOf, victim, late, lost>>

StoreGrant(p) ==
    /\ pc[p] = "store"
    /\ record' = [record EXCEPT ![codeOf[p]] = p]
    /\ Goto(p, "reply")
    /\ UNCHANGED <<code, tokenVars, codeOf, victim, late, lost>>

Reply(p) ==
    /\ pc[p] = "reply"
    /\ Goto(p, "answered")
    /\ UNCHANGED <<code, record, tokenVars, codeOf, victim, late, lost>>

-----------------------------------------------------------------------------
(* The replay branch: GETDEL of the CodeGrant.                              *)
TakeGrant(p) == LET q == record[codeOf[p]] IN
    /\ pc[p] = "replay"
    /\ victim' = [victim EXCEPT ![p] = q]
    /\ record' = [record EXCEPT ![codeOf[p]] = None]
    /\ Goto(p, IF q = None THEN "undone" ELSE "revoke")
    /\ UNCHANGED <<code, tokenVars, codeOf, late, lost>>

(* Mutant of RevokeFamily: the branch returns when there is a family.       *)
RevokeFamilyOnly(p) ==
    /\ pc[p] = "revoke"
    /\ revoked' = revoked \cup ({victim[p]} \cap families)
    /\ Goto(p, IF victim[p] \in families THEN "undone" ELSE "deny")
    /\ UNCHANGED <<code, record, families, denied, codeOf, victim, late, lost>>

RevokeFamily(p) ==
    /\ pc[p] = "revoke"
    /\ revoked' = revoked \cup ({victim[p]} \cap families)
    /\ Goto(p, "deny")
    /\ UNCHANGED <<code, record, families, denied, codeOf, victim, late, lost>>

DenyAccess(p) ==
    /\ pc[p] = "deny"
    /\ denied' = denied \cup {victim[p]}
    /\ Goto(p, "undone")
    /\ UNCHANGED <<code, record, families, revoked, codeOf, victim, late, lost>>

(* The CodeGrant lives 600 seconds. *)
ExpireGrant(c) ==
    /\ record[c] # None
    /\ record' = [record EXCEPT ![c] = None]
    /\ lost' = lost \cup {record[c]}
    /\ UNCHANGED <<code, tokenVars, pc, codeOf, victim, late>>

(* Valkey, Postgres or the node fails under the request.                    *)
Fail(p) ==
    /\ pc[p] \in Holding \cup Undoing \cup {"replay"}
    /\ lost' = IF pc[p] \in Undoing THEN lost \cup {victim[p]} ELSE lost
    /\ Goto(p, "failed")
    /\ UNCHANGED <<code, record, tokenVars, codeOf, victim, late>>

RequestStep(p) ==
    \/ Refuse(p) \/ Pass(p) \/ Mint(p) \/ StoreGrant(p) \/ Reply(p)
    \/ TakeGrant(p) \/ RevokeFamily(p) \/ DenyAccess(p) \/ Fail(p)

Next ==
    \/ \E c \in Codes : Issue(c) \/ ExpireCode(c) \/ ExpireGrant(c)
    \/ \E p \in Requests, c \in Codes : Consume(p, c) \/ ConsumeMiss(p, c)
    \/ \E p \in Requests : RequestStep(p)

Spec == Init /\ [][Next]_vars

-----------------------------------------------------------------------------
(* What codes, CodeGrants and requests are: a record and a victim name a    *)
(* request, never a missing one.                                            *)
TypeOK ==
    /\ code \in [Codes -> {"none", "stored", "gone"}]
    /\ record \in [Codes -> Requests \cup {None}]
    /\ families \subseteq Requests /\ revoked \subseteq Requests
    /\ denied \subseteq Requests /\ lost \subseteq Requests
    /\ pc \in [Requests -> PC]
    /\ codeOf \in [Requests -> Codes \cup {None}]
    /\ victim \in [Requests -> Requests \cup {None}]
    /\ late \in [Requests -> SUBSET Requests]

(* The code as a one-shot grant: open while it is stored or held by a       *)
(* request that has not finished.                                           *)
Held(c) == \E p \in Requests : codeOf[p] = c /\ pc[p] \in Holding
Status(c) ==
    IF Answered(c) # {} THEN "answered"
    ELSE IF code[c] = "none" THEN "new"
    ELSE IF code[c] = "stored" \/ Held(c) THEN "open" ELSE "lapsed"
Grant == INSTANCE OneShotGrant WITH
    grant <- [c \in Codes |-> Status(c)],
    winners <- [c \in Codes |-> Answered(c)]

(* An authorization code is answered with tokens at most once, whatever     *)
(* concurrent exchanges, refusals and failures do: consume is atomic.       *)
CodeIsOneShot == Grant!Spec

Dead(p) == p \in denied /\ (p \in families => p \in revoked)
BeingUndone(p) == \E r \in Requests : pc[r] \in Undoing /\ victim[r] = p
Handled(p) == Dead(p) \/ BeingUndone(p) \/ p \in lost

(* A replay that came in after the code was answered leaves none of its     *)
(* tokens usable, unless their CodeGrant had expired or another replay has  *)
(* taken it (and is still at work, or failed).  A replay that overtakes the *)
(* exchange, before StoreGrant, undoes nothing.                             *)
LateReplayUndoes ==
    \A q \in Requests : pc[q] = "undone" => \A p \in late[q] : Handled(p)

(* The strengthening that makes both inductive, in named parts.             *)
HoldsAlone ==
    \A p \in Requests : pc[p] \in Holding \cup {"answered"} =>
        /\ codeOf[p] \in Codes /\ code[codeOf[p]] = "gone"
        /\ \A q \in Requests :
              pc[q] \in Holding \cup {"answered"} /\ codeOf[q] = codeOf[p] => p = q
ReplayHasCode == \A p \in Requests : pc[p] = "replay" => codeOf[p] \in Codes
(* A CodeGrant, stored or taken, is of a request that is past its minting.  *)
Minted(p) == pc[p] \in {"reply", "answered", "failed"}
RecordOfMinted ==
    \A c \in Codes : record[c] # None => Minted(record[c]) /\ codeOf[record[c]] = c
VictimOfMinted ==
    \A r \in Requests : pc[r] \in Undoing =>
        /\ victim[r] \in Requests /\ Minted(victim[r])
        /\ pc[r] = "deny" /\ victim[r] \in families => victim[r] \in revoked
(* The tokens of an answered code stay undoable until something undoes them.*)
StaysUndoable ==
    \A p \in Requests :
        pc[p] \in {"reply", "answered"} => record[codeOf[p]] = p \/ Handled(p)
LateIsTaken ==
    \A q \in Requests :
        /\ pc[q] = "idle" => late[q] = {}
        /\ \A p \in late[q] :
              /\ pc[p] = "answered" /\ codeOf[p] = codeOf[q]
              /\ pc[q] \in Undoing \cup {"undone"} => record[codeOf[q]] # p
IInv ==
    /\ TypeOK /\ HoldsAlone /\ ReplayHasCode /\ RecordOfMinted
    /\ VictimOfMinted /\ StaysUndoable /\ LateIsTaken
=============================================================================
