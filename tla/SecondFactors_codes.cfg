\* One scope, two requests at a time, four in all, from no factor and from both.
SPECIFICATION Spec
CONSTANTS
    Requests = {r1, r2}
    Scopes = {s1}
    Destinations = {d1, d2}
    InitiallyHeld = {{}, {"totp", "sms"}}
    Codes = {k1}
    Skew = 1
    MaxOtpAttempts = 2
    MaxClock = 3
    MaxStarts = 4
    MaxFaults = 1
    None = None
CHECK_DEADLOCK FALSE
SYMMETRY Symmetry
INVARIANTS AcceptedOnce ProvenWhereSent CodesNeedAFactor
