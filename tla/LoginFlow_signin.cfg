\* Two users, two authorization requests, two sessions, one disturbance.
CONSTANTS
    alice = alice
    bob = bob
    f1 = f1
    f2 = f2
    r1 = r1
    r2 = r2
    Users = {alice, bob}
    Flows = {f1, f2}
    Requests = {r1, r2}
    MaxSessions = 2
    MfaUsers = {alice}
    Unregistered = {bob}
    InitiallyOwes <- MCOwes
    Orgs <- MCOrgs
    RiskOf <- MCRisk
    AcrMfa = {f2}
    ForceConsent = {f2}
    NamesOrg = {f2}
    SkipConsent = {f2}
    Remember = {f1}
    MaxAttempts = 2
    MaxTries = 1
    MaxFailures = 2
    MaxConcurrent = 1
    MaxDisturbances = 1
    None = None
SPECIFICATION Spec
CHECK_DEADLOCK FALSE
SYMMETRY Symmetry
INVARIANTS MfaIsEarned GrantOwesNothing ConsentBeforeGrant EndedFlowStaysEnded RevokedStaysGone CapHolds
