---------------------------- MODULE OneShotGrant ----------------------------
(***************************************************************************)
(* What every code that stands for a grant promises (authorization code,   *)
(* device code, CIBA request id): it is issued once, and answered with     *)
(* tokens at most once.  It lapses when it expires or when the request     *)
(* that took it is refused or fails.                                       *)
(***************************************************************************)
CONSTANTS Codes, Requests

VARIABLES
    grant,    \* grant[c]: "new", "open", "answered" or "lapsed"
    winners   \* winners[c]: the requests that got tokens for c

vars == <<grant, winners>>

Init ==
    /\ grant = [c \in Codes |-> "new"]
    /\ winners = [c \in Codes |-> {}]

Open(c) ==
    /\ grant[c] = "new"
    /\ grant' = [grant EXCEPT ![c] = "open"]
    /\ UNCHANGED winners

Answer(c, p) ==
    /\ grant[c] = "open"
    /\ grant' = [grant EXCEPT ![c] = "answered"]
    /\ winners' = [winners EXCEPT ![c] = {p}]

Lapse(c) ==
    /\ grant[c] = "open"
    /\ grant' = [grant EXCEPT ![c] = "lapsed"]
    /\ UNCHANGED winners

Next == \E c \in Codes : Open(c) \/ Lapse(c) \/ \E p \in Requests : Answer(c, p)

Spec == Init /\ [][Next]_vars
=============================================================================
