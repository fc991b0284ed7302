\* Two concurrent requests over two families of one session, the second with
\* offline_access.
SPECIFICATION Spec
CONSTANTS
    Tokens = {t1, t2, t3}
    Families = {f1, f2}
    Sessions = {s1}
    Users = {u1}
    Requests = {p1, p2}
    FamSession <- MCFamSession
    FamUser <- MCFamUser
    Offline = {f2}
    None = None
    s1 = s1
    u1 = u1
SYMMETRY Symmetry
INVARIANTS
    OneLiveToken
    OnlyRacingTokensEscape
    SignOutEndsOfflineRefresh
PROPERTIES
    SpendsOnlyLive
