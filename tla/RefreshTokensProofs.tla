------------------------- MODULE RefreshTokensProofs -------------------------
(* Machine-checked proofs about RefreshTokens, for every set of tokens,     *)
(* families, sessions, users and requests.                                  *)
EXTENDS RefreshTokens, TLAPS

USE DEF requestVars, rowVars, sessionVars, historyVars

(* The initial state has the right types. *)
LEMMA InitTypeOK == Init => TypeOK
  BY ConstantsAssumption DEF Init, TypeOK, PC, Kind

(* Every step keeps the types. *)
LEMMA NextTypeOK ==
    TypeOK /\ RotatingHoldsLiveRow /\ MarkHasSession /\ [Next]_vars => TypeOK'
<1> SUFFICES ASSUME TypeOK, RotatingHoldsLiveRow, MarkHasSession, [Next]_vars
             PROVE TypeOK'
  OBVIOUS
<1> USE ConstantsAssumption DEF TypeOK, Enter, Goto, Release, PC, Kind, Rotating
<1>1. ASSUME NEW p \in Requests, NEW f \in Families, IssueCheck(p, f) PROVE TypeOK'
  BY <1>1 DEF IssueCheck
<1>2. ASSUME NEW p \in Requests, NEW f \in Families, NEW t \in Tokens, Issue(p, f, t)
      PROVE TypeOK'
  BY <1>2 DEF Issue
<1>3. ASSUME NEW p \in Requests, NEW t \in Tokens, RedeemReuse(p, t) PROVE TypeOK'
  BY <1>3 DEF RedeemReuse, LockRow, Stored
<1>4. ASSUME NEW p \in Requests, NEW t \in Tokens, RevokeToken(p, t) PROVE TypeOK'
  BY <1>4 DEF RevokeToken, LockRow, Stored
<1>5. ASSUME NEW p \in Requests, NEW t \in Tokens, NEW k \in {"rotate", "keep"},
             RedeemGood(p, t, k)
      PROVE TypeOK'
  BY <1>5 DEF RedeemGood, LockRow, Stored
<1>6. ASSUME NEW p \in Requests, NEW u \in Users, RevokeForUser(p, u) PROVE TypeOK'
  BY <1>6 DEF RevokeForUser
<1>7. ASSUME NEW p \in Requests, NEW s \in Sessions, EndSession(p, s) PROVE TypeOK'
  BY <1>7 DEF EndSession
<1>8. ASSUME NEW p \in Requests, CheckSession(p) PROVE TypeOK'
  BY <1>8 DEF CheckSession
<1>9. ASSUME NEW p \in Requests, SlideSession(p) PROVE TypeOK'
  <2>1. tok[p] \in Tokens /\ family[tok[p]] \in Families
    BY <1>9 DEF SlideSession, RotatingHoldsLiveRow, Live, Stored
  <2> QED BY <1>9, <2>1 DEF SlideSession, SessionOf, FamilyOf
<1>10. ASSUME NEW p \in Requests, NEW n \in Tokens, Rotate(p, n) PROVE TypeOK'
  <2>1. tok[p] \in Tokens /\ family[tok[p]] \in Families
    BY <1>10 DEF Rotate, RotatingHoldsLiveRow, Live, Stored
  <2> QED BY <1>10, <2>1 DEF Rotate, FamilyOf
<1>11. ASSUME NEW p \in Requests, KeepToken(p) PROVE TypeOK'
  BY <1>11 DEF KeepToken
<1>12. ASSUME NEW p \in Requests, MarkRevoked(p) PROVE TypeOK'
  BY <1>12 DEF MarkRevoked, MarkHasSession
<1>13. ASSUME NEW p \in Requests, SweepStart(p) PROVE TypeOK'
  BY <1>13 DEF SweepStart, Matching, Stored
<1>14. ASSUME NEW p \in Requests, NEW t \in Tokens, SweepRow(p, t) PROVE TypeOK'
  BY <1>14 DEF SweepRow
<1>15. ASSUME NEW p \in Requests, SweepCommit(p) PROVE TypeOK'
  BY <1>15 DEF SweepCommit
<1>16. ASSUME NEW p \in Requests, Abort(p) PROVE TypeOK'
  BY <1>16 DEF Abort
<1>17. ASSUME NEW f \in Families, ExpireFamily(f) PROVE TypeOK'
  BY <1>17 DEF ExpireFamily
<1>18. ASSUME NEW s \in Sessions, ExpireSession(s) PROVE TypeOK'
  BY <1>18 DEF ExpireSession
<1>19. ASSUME NEW t \in Tokens, PurgeToken(t) PROVE TypeOK'
  BY <1>19 DEF PurgeToken
<1>20. ASSUME NEW s \in Sessions, PurgeSession(s) PROVE TypeOK'
  BY <1>20 DEF PurgeSession
<1>21. CASE UNCHANGED vars
  BY <1>21 DEF vars
<1> QED
  BY <1>1, <1>2, <1>3, <1>4, <1>5, <1>6, <1>7, <1>8, <1>9, <1>10, <1>11, <1>12,
     <1>13, <1>14, <1>15, <1>16, <1>17, <1>18, <1>19, <1>20, <1>21
     DEF Next, Arrive, Step, Environment
(* The parts of IInv other than TypeOK: every step keeps each of them.      *)
LEMMA NextIInv == IInv /\ [Next]_vars => IInv'
<1> SUFFICES ASSUME IInv, [Next]_vars PROVE IInv'
  OBVIOUS
<1>p. RowInv
  BY DEF IInv
<1>t. TypeOK /\ TypeOK'
  BY NextTypeOK DEF IInv, RowInv
<1> USE ConstantsAssumption, <1>t, <1>p
        DEF TypeOK, Enter, Goto, Release, Rotating, Live, Stored, Matching,
            RotatingHoldsLiveRow, MarkHasSession, SweepHoldsRows, IssueIsFresh,
            SweepCovers, SweptAreIssued, OneLiveToken, OnlyRacingTokensEscape,
            RowInv
<1>1. ASSUME NEW p \in Requests, NEW f \in Families, IssueCheck(p, f) PROVE RowInv'
  BY <1>1 DEF IssueCheck
<1>2. ASSUME NEW p \in Requests, NEW f \in Families, NEW t \in Tokens, Issue(p, f, t) PROVE RowInv'
  <2>1. /\ family' = [family EXCEPT ![t] = f] /\ family[t] = None
        /\ pc[p] = "issue" /\ aim[p] = {f} /\ pc' = [pc EXCEPT ![p] = "idle"]
        /\ UNCHANGED <<consumed, revoked, purged, expired, escaped, swept>>
    BY <1>2 DEF Issue
  <2>2. \A u \in Tokens : family[u] # f
    BY <2>1
  <2>3. f \notin swept /\ \A q \in Requests : pc[q] = "sweep" => f \notin aim[q]
    BY <2>2
  <2>4. (RotatingHoldsLiveRow /\ MarkHasSession /\ SweepHoldsRows)'
    BY <1>2 DEF Issue
  <2>5. IssueIsFresh'
    BY <1>2, <2>1, <2>2 DEF Issue
  <2>6. SweepCovers'
    BY <1>2, <2>1, <2>3 DEF Issue
  <2>7. SweptAreIssued'
    BY <1>2, <2>1, <2>3 DEF Issue
  <2>8. OneLiveToken'
    BY <2>1, <2>2
  <2>9. OnlyRacingTokensEscape'
    BY <2>1, <2>3
  <2> QED BY <2>4, <2>5, <2>6, <2>7, <2>8, <2>9
<1>3. ASSUME NEW p \in Requests, NEW t \in Tokens, RedeemReuse(p, t) PROVE RowInv'
  BY <1>3 DEF RedeemReuse, LockRow
<1>4. ASSUME NEW p \in Requests, NEW t \in Tokens, RevokeToken(p, t) PROVE RowInv'
  BY <1>4 DEF RevokeToken, LockRow
<1>5. ASSUME NEW p \in Requests, NEW t \in Tokens, NEW k \in {"rotate", "keep"},
             RedeemGood(p, t, k) PROVE RowInv'
  BY <1>5 DEF RedeemGood, LockRow
<1>6. ASSUME NEW p \in Requests, NEW u \in Users, RevokeForUser(p, u) PROVE RowInv'
  BY <1>6 DEF RevokeForUser
<1>7. ASSUME NEW p \in Requests, NEW s \in Sessions, EndSession(p, s) PROVE RowInv'
  BY <1>7 DEF EndSession
<1>8. ASSUME NEW p \in Requests, CheckSession(p) PROVE RowInv'
  BY <1>8 DEF CheckSession
<1>9. ASSUME NEW p \in Requests, SlideSession(p) PROVE RowInv'
  BY <1>9 DEF SlideSession
<1>10. ASSUME NEW p \in Requests, NEW n \in Tokens, Rotate(p, n) PROVE RowInv'
  <2> DEFINE t == tok[p]
             f == family[t]
  <2>1. /\ t \in Tokens /\ lock[t] = p /\ Live(t) /\ family[n] = None
        /\ family' = [family EXCEPT ![n] = f] /\ consumed' = consumed \cup {t}
        /\ UNCHANGED <<revoked, purged, expired, swept>>
    BY <1>10 DEF Rotate, FamilyOf
  <2>2. f \in Families
    BY <2>1
  <2>3. (RotatingHoldsLiveRow /\ MarkHasSession /\ SweepHoldsRows)'
    BY <1>10 DEF Rotate, FamilyOf
  <2>4. IssueIsFresh'
    BY <1>10, <2>1 DEF Rotate
  <2>5. SweepCovers'
    BY <1>10, <2>1 DEF Rotate, UnderRevocation, FamilyOf
  <2>6. SweptAreIssued'
    BY <1>10 DEF Rotate, FamilyOf
  <2>7. OneLiveToken'
    <3>1. \A u \in Tokens : Live(u) /\ family[u] = f => u = t
      BY <2>1
    <3> QED BY <2>1, <2>2, <3>1
  <2>8. OnlyRacingTokensEscape'
    <3>1. f \in swept => t \in escaped
      BY <2>1
    <3>2. escaped \subseteq escaped' /\ (t \in escaped => n \in escaped')
      BY <1>10 DEF Rotate
    <3> QED BY <2>1, <3>1, <3>2
  <2> QED BY <2>3, <2>4, <2>5, <2>6, <2>7, <2>8
<1>11. ASSUME NEW p \in Requests, KeepToken(p) PROVE RowInv'
  BY <1>11 DEF KeepToken
<1>12. ASSUME NEW p \in Requests, MarkRevoked(p) PROVE RowInv'
  BY <1>12 DEF MarkRevoked
<1>13. ASSUME NEW p \in Requests, SweepStart(p) PROVE RowInv'
  BY <1>13 DEF SweepStart
<1>14. ASSUME NEW p \in Requests, NEW t \in Tokens, SweepRow(p, t) PROVE RowInv'
  BY <1>14 DEF SweepRow
<1>15. ASSUME NEW p \in Requests, SweepCommit(p) PROVE RowInv'
  BY <1>15 DEF SweepCommit
<1>16. ASSUME NEW p \in Requests, Abort(p) PROVE RowInv'
  BY <1>16 DEF Abort
<1>17. ASSUME NEW f \in Families, ExpireFamily(f) PROVE RowInv'
  BY <1>17 DEF ExpireFamily
<1>18. ASSUME NEW s \in Sessions, ExpireSession(s) PROVE RowInv'
  BY <1>18 DEF ExpireSession
<1>19. ASSUME NEW t \in Tokens, PurgeToken(t) PROVE RowInv'
  BY <1>19 DEF PurgeToken
<1>20. ASSUME NEW s \in Sessions, PurgeSession(s) PROVE RowInv'
  BY <1>20 DEF PurgeSession
<1>22. ASSUME UNCHANGED vars PROVE RowInv'
  BY <1>22 DEF vars
<1> HIDE <1>t, <1>p DEF RowInv, TypeOK, Enter, Goto, Release, Rotating, Live,
         Stored, Matching, RotatingHoldsLiveRow, MarkHasSession, SweepHoldsRows,
         IssueIsFresh, SweepCovers, SweptAreIssued, OneLiveToken,
         OnlyRacingTokensEscape
<1>21. RowInv'
  BY <1>1, <1>2, <1>3, <1>4, <1>5, <1>6, <1>7, <1>8, <1>9, <1>10, <1>11, <1>12,
     <1>13, <1>14, <1>15, <1>16, <1>17, <1>18, <1>19, <1>20, <1>22
     DEF Next, Arrive, Step, Environment
<1> QED
  BY <1>21, <1>t DEF IInv

(* The state of rows, locks and requests keeps to its types, whatever the   *)
(* interleaving of redemptions, revocations and sign-outs.                  *)
THEOREM Invariance == Spec => []IInv
<1>1. Init => IInv
  <2>1. Init => RowInv
    BY ConstantsAssumption DEF Init, RowInv, RotatingHoldsLiveRow, MarkHasSession,
       SweepHoldsRows, IssueIsFresh, SweepCovers, SweptAreIssued, OneLiveToken,
       OnlyRacingTokensEscape, Live, Stored, Rotating
  <2> QED BY <2>1, InitTypeOK DEF IInv
<1> QED
  BY <1>1, NextIInv, PTL DEF Spec

(* The types of every variable, for any number of rows and requests.        *)
THEOREM TypeCorrect == Spec => []TypeOK
  BY Invariance, PTL DEF IInv

(* A family never has two usable refresh tokens (redeem, find_by_hash_for_  *)
(* update, mark_consumed and insert in one transaction).                    *)
THEOREM FamilyHasOneLiveToken == Spec => []OneLiveToken
  BY Invariance, PTL DEF IInv, RowInv

(* After a committed revocation only rows inserted by a rotation that ran   *)
(* beside it, or their successors, are unrevoked (revoke_family).           *)
THEOREM RevocationMissesOnlyRaces == Spec => []OnlyRacingTokensEscape
  BY Invariance, PTL DEF IInv, RowInv

(* redeem spends a token only while it is live in the database.             *)
THEOREM RotationSpendsLive == Spec => SpendsOnlyLive
<1>1. ASSUME IInv, [Next]_vars PROVE [\A t \in consumed' \ consumed : Live(t)]_vars
  <2>1. ASSUME NEW p \in Requests, NEW n \in Tokens, Rotate(p, n)
        PROVE \A t \in consumed' \ consumed : Live(t)
    BY <1>1, <2>1 DEF IInv, RowInv, RotatingHoldsLiveRow, Rotate, Rotating
  <2>2. (\A p \in Requests, n \in Tokens : ~Rotate(p, n)) => consumed' \subseteq consumed
    BY <1>1, ZenonT(40) DEF Next, Arrive, Step, Environment, vars, IssueCheck, Issue,
       RedeemReuse, RevokeToken, RedeemGood, LockRow, RevokeForUser, EndSession,
       CheckSession, SlideSession, KeepToken, MarkRevoked, SweepStart, SweepRow,
       SweepCommit, Abort, ExpireFamily, ExpireSession, PurgeToken, PurgeSession
  <2> QED BY <2>1, <2>2
<1> QED
  BY <1>1, Invariance, PTL DEF Spec, SpendsOnlyLive

-----------------------------------------------------------------------------
(* What makes SignOutEndsOfflineRefresh inductive.  A sign-out aims at every *)
(* family of its session, and marks the session's row before it revokes;     *)
(* the mark goes only with the row.  So every session signed out for good    *)
(* when a redemption came in is still marked when the redemption asks, or    *)
(* its row is gone.                                                          *)
SignOutMarksFirst ==
    /\ over \subseteq signedOut \cup forgotten
    /\ \A p \in Requests : late[p] \subseteq over
    /\ \A p \in Requests :
          pc[p] \in {"revoke", "sweep"} /\ sid[p] # None => sid[p] \in signedOut \cup forgotten
    /\ \A p \in Requests : pc[p] \in Rotating => sid[p] = None
    /\ \A p \in Requests :
          pc[p] \in {"mark", "revoke"} /\ sid[p] # None =>
              aim[p] = {f \in Families : FamSession[f] = sid[p]}
    /\ \A p \in Requests : \A t \in todo[p] \cup done[p] : family[t] \in aim[p]
    /\ \A p \in Requests : pc[p] # "sweep" => done[p] = {}

(* And the tokens of the session that a sign-out under way, or one that is   *)
(* over, leaves usable are those put in beside it.                           *)
Usable(t) == Stored(t) /\ t \notin revoked
InSession(t, s) == family[t] # None /\ FamSession[family[t]] = s
SignOutCovers ==
    /\ \A t \in Tokens : Usable(t) /\ FamSession[family[t]] \in over => t \in escaped \cup strays
    /\ \A p \in Requests, t \in Tokens :
          pc[p] = "sweep" /\ sid[p] # None /\ Usable(t) /\ InSession(t, sid[p]) =>
              t \in todo[p] \cup done[p] \cup escaped \cup strays
SessionInv == SignOutMarksFirst /\ SignOutCovers /\ SignOutEndsOfflineRefresh

(* Every step keeps SessionInv: CheckSession asks the database, and no other *)
(* step moves an offline redemption on or gives its row another family.      *)
LEMMA NextSessionInv == IInv /\ SessionInv /\ [Next]_vars => SessionInv'
<1> SUFFICES ASSUME IInv, SessionInv, [Next]_vars PROVE SessionInv'
  OBVIOUS
<1>t. TypeOK /\ RotatingHoldsLiveRow /\ MarkHasSession
  BY DEF IInv, RowInv
<1>s. SignOutMarksFirst /\ SignOutCovers /\ SignOutEndsOfflineRefresh
  BY DEF SessionInv
<1> USE ConstantsAssumption, <1>t, <1>s
        DEF TypeOK, Enter, Goto, Release, Rotating, Live, Stored, FamilyOf, SessionOf,
            RotatingHoldsLiveRow, MarkHasSession, SignOutMarksFirst, SignOutCovers, Usable,
            InSession, SignOutEndsOfflineRefresh, Passed
<1>1. ASSUME NEW p \in Requests, NEW f \in Families, IssueCheck(p, f) PROVE SessionInv'
  BY <1>1 DEF IssueCheck, SessionInv
<1>2. ASSUME NEW p \in Requests, NEW f \in Families, NEW t \in Tokens, Issue(p, f, t) PROVE SessionInv'
  <2>1. /\ family[t] = None /\ family' = [family EXCEPT ![t] = f] /\ pc[p] = "issue"
        /\ pc' = [pc EXCEPT ![p] = "idle"] /\ tok' = [tok EXCEPT ![p] = None]
        /\ sid' = [sid EXCEPT ![p] = None] /\ aim' = [aim EXCEPT ![p] = {}]
        /\ late' = [late EXCEPT ![p] = {}] /\ todo' = [todo EXCEPT ![p] = {}]
        /\ done' = [done EXCEPT ![p] = {}]
        /\ strays \subseteq strays' /\ (PastSignOut(FamSession[f]) => t \in strays')
        /\ UNCHANGED <<revoked, purged, signedOut, forgotten, over, escaped>>
    BY <1>2 DEF Issue
  <2>2. SignOutMarksFirst'
    BY <2>1
  <2>3. SignOutCovers'
    BY <2>1 DEF PastSignOut
  <2>4. SignOutEndsOfflineRefresh'
    BY <2>1
  <2> QED BY <2>2, <2>3, <2>4 DEF SessionInv
<1>3. ASSUME NEW p \in Requests, NEW t \in Tokens, RedeemReuse(p, t) PROVE SessionInv'
  BY <1>3 DEF RedeemReuse, LockRow, SessionInv
<1>4. ASSUME NEW p \in Requests, NEW t \in Tokens, RevokeToken(p, t) PROVE SessionInv'
  BY <1>4 DEF RevokeToken, LockRow, SessionInv
<1>5. ASSUME NEW p \in Requests, NEW t \in Tokens, NEW k \in {"rotate", "keep"},
             RedeemGood(p, t, k) PROVE SessionInv'
  BY <1>5 DEF RedeemGood, LockRow, SessionInv
<1>6. ASSUME NEW p \in Requests, NEW u \in Users, RevokeForUser(p, u) PROVE SessionInv'
  BY <1>6 DEF RevokeForUser, SessionInv
<1>7. ASSUME NEW p \in Requests, NEW s \in Sessions, EndSession(p, s) PROVE SessionInv'
  BY <1>7 DEF EndSession, SessionInv
<1>8. ASSUME NEW p \in Requests, CheckSession(p) PROVE SessionInv'
  <2>1. /\ UNCHANGED <<family, over, signedOut, forgotten, late, sid, tok, aim, todo, done,
                       revoked, purged, escaped, strays>>
        /\ \E c \in {"revoke", "write", "slide"} : pc' = [pc EXCEPT ![p] = c]
        /\ pc[p] = "session"
    BY <1>8 DEF CheckSession
  <2>2. Passed(p)' /\ FamilyOf(p) \in Offline => SessionOf(p) \notin signedOut
    BY <1>8 DEF CheckSession, SessionEnded
  <2>3. sid[p] = None
    BY <2>1
  <2>4. SignOutMarksFirst' /\ SignOutCovers'
    BY <2>1, <2>3
  <2>5. ASSUME SessionOf(p) \in late[p]
        PROVE  /\ SessionOf(p) \in signedOut \cup forgotten
               /\ tok[p] \in escaped \cup strays
    BY <2>1, <2>5
  <2>6. SignOutEndsOfflineRefresh'
    BY <2>1, <2>2, <2>5
  <2> QED BY <2>4, <2>6 DEF SessionInv
<1>9. ASSUME NEW p \in Requests, SlideSession(p) PROVE SessionInv'
  BY <1>9 DEF SlideSession, SessionInv
<1>10. ASSUME NEW p \in Requests, NEW n \in Tokens, Rotate(p, n) PROVE SessionInv'
  <2> DEFINE t == tok[p]
             f == family[t]
  <2>1. /\ t \in Tokens /\ Live(t) /\ family[n] = None /\ t \notin revoked
        /\ family' = [family EXCEPT ![n] = f] /\ pc[p] = "write"
        /\ pc' = [pc EXCEPT ![p] = "idle"] /\ tok' = [tok EXCEPT ![p] = None]
        /\ sid' = [sid EXCEPT ![p] = None] /\ aim' = [aim EXCEPT ![p] = {}]
        /\ late' = [late EXCEPT ![p] = {}] /\ todo' = [todo EXCEPT ![p] = {}]
        /\ done' = [done EXCEPT ![p] = {}]
        /\ escaped \subseteq escaped' /\ strays \subseteq strays'
        /\ (t \in strays => n \in strays')
        /\ (t \in escaped \/ UnderRevocation(f) => n \in escaped')
        /\ UNCHANGED <<revoked, purged, signedOut, forgotten, over>>
    BY <1>10 DEF Rotate
  <2>2. f \in Families
    BY <2>1
  <2>3. SignOutMarksFirst'
    BY <2>1
  <2>4. ASSUME NEW q \in Requests, pc[q] = "sweep", sid[q] # None, FamSession[f] = sid[q]
        PROVE  n \in escaped' \cup strays'
    <3>1. t \in todo[q] \cup done[q] \cup escaped \cup strays
      BY <2>1, <2>2, <2>4
    <3>2. t \in todo[q] \cup done[q] => UnderRevocation(f)
      BY <2>4 DEF UnderRevocation
    <3> QED BY <2>1, <3>1, <3>2
  <2>5. FamSession[f] \in over => n \in escaped' \cup strays'
    BY <2>1, <2>2
  <2>6. SignOutCovers'
    <3>1. ASSUME NEW u \in Tokens, Usable(u)', FamSession[family'[u]] \in over'
          PROVE  u \in escaped' \cup strays'
      BY <2>1, <2>5, <3>1
    <3>2. ASSUME NEW q \in Requests, NEW u \in Tokens, pc'[q] = "sweep", sid'[q] # None,
                 Usable(u)', InSession(u, sid[q])'
          PROVE  u \in todo'[q] \cup done'[q] \cup escaped' \cup strays'
      <4>1. q # p /\ pc[q] = "sweep" /\ sid[q] = sid'[q] /\ todo'[q] = todo[q] /\ done'[q] = done[q]
        BY <2>1, <3>2
      <4>2. CASE u = n
        BY <2>1, <2>2, <2>4, <3>2, <4>1, <4>2
      <4>3. CASE u # n
        BY <2>1, <3>2, <4>1, <4>3
      <4> QED BY <4>2, <4>3
    <3> QED BY <3>1, <3>2
  <2>7. SignOutEndsOfflineRefresh'
    BY <2>1
  <2> QED BY <2>3, <2>6, <2>7 DEF SessionInv
<1>11. ASSUME NEW p \in Requests, KeepToken(p) PROVE SessionInv'
  BY <1>11 DEF KeepToken, SessionInv
<1>12. ASSUME NEW p \in Requests, MarkRevoked(p) PROVE SessionInv'
  BY <1>12 DEF MarkRevoked, SessionInv
<1>13. ASSUME NEW p \in Requests, SweepStart(p) PROVE SessionInv'
  <2>1. /\ pc[p] = "revoke" /\ pc' = [pc EXCEPT ![p] = "sweep"]
        /\ todo' = [todo EXCEPT ![p] = Matching(aim[p])]
        /\ aim' = [aim EXCEPT ![p] = {family[t] : t \in Matching(aim[p])}]
        /\ UNCHANGED <<family, over, signedOut, forgotten, late, sid, tok, done,
                       revoked, purged, escaped, strays>>
    BY <1>13 DEF SweepStart
  <2>2. SignOutMarksFirst'
    BY <2>1 DEF Matching
  <2>3. ASSUME NEW t \in Tokens, sid[p] # None, Usable(t), InSession(t, sid[p])
        PROVE  t \in todo'[p]
    BY <2>1, <2>3 DEF Matching
  <2>4. SignOutCovers'
    BY <2>1, <2>3
  <2>5. SignOutEndsOfflineRefresh'
    BY <2>1
  <2> QED BY <2>2, <2>4, <2>5 DEF SessionInv
<1>14. ASSUME NEW p \in Requests, NEW t \in Tokens, SweepRow(p, t) PROVE SessionInv'
  BY <1>14 DEF SweepRow, Matching, SessionInv
<1>15. ASSUME NEW p \in Requests, SweepCommit(p) PROVE SessionInv'
  BY <1>15 DEF SweepCommit, SessionInv
<1>16. ASSUME NEW p \in Requests, Abort(p) PROVE SessionInv'
  BY <1>16 DEF Abort, SessionInv
<1>17. ASSUME NEW f \in Families, ExpireFamily(f) PROVE SessionInv'
  BY <1>17 DEF ExpireFamily, SessionInv
<1>18. ASSUME NEW s \in Sessions, ExpireSession(s) PROVE SessionInv'
  BY <1>18 DEF ExpireSession, SessionInv
<1>19. ASSUME NEW t \in Tokens, PurgeToken(t) PROVE SessionInv'
  BY <1>19 DEF PurgeToken, SessionInv
<1>20. ASSUME NEW s \in Sessions, PurgeSession(s) PROVE SessionInv'
  BY <1>20 DEF PurgeSession, SessionInv
<1>21. ASSUME UNCHANGED vars PROVE SessionInv'
  BY <1>21 DEF vars, SessionInv
<1> HIDE <1>t, <1>s DEF TypeOK, Enter, Goto, Release, Rotating, Live, Stored, FamilyOf,
         SessionOf, RotatingHoldsLiveRow, MarkHasSession, SignOutMarksFirst, SignOutCovers,
         Usable, InSession, SignOutEndsOfflineRefresh, Passed
<1> QED
  BY <1>1, <1>2, <1>3, <1>4, <1>5, <1>6, <1>7, <1>8, <1>9, <1>10, <1>11, <1>12,
     <1>13, <1>14, <1>15, <1>16, <1>17, <1>18, <1>19, <1>20, <1>21
     DEF Next, Arrive, Step, Environment

(* Sign-out ends the refresh tokens of an offline_access family: of the      *)
(* redemptions that come in after it finished none reaches new tokens        *)
(* (redeem's "issued under an SSO session that was since revoked") until     *)
(* the session's row is purged, and then only with a token that was put in   *)
(* beside the sign-out.                                                      *)
THEOREM SignOutEndsRefresh == Spec => []SignOutEndsOfflineRefresh
<1>1. Init => SessionInv
  BY ConstantsAssumption DEF Init, SessionInv, SignOutMarksFirst, SignOutCovers, Usable, Stored,
     SignOutEndsOfflineRefresh, Passed, Rotating
<1> QED
  BY <1>1, NextSessionInv, Invariance, PTL DEF Spec, SessionInv
=============================================================================
