\* Two codes, three calls of the token endpoint.
SPECIFICATION Spec
CONSTANTS
    Codes = {c1, c2}
    Requests = {p1, p2, p3}
    None = None
CHECK_DEADLOCK FALSE
INVARIANTS
    LateReplayUndoes
PROPERTIES
    CodeIsOneShot
