CONSTANTS
    Requests = {r1, r2}
    Deciders = {d1, d2}
    Polls = {p1, p2, p3}
    MaxPending = 1
    MaxFaults = 1
    None = None
SPECIFICATION Spec
SYMMETRY Symmetry
CHECK_DEADLOCK FALSE
INVARIANTS CollectedOnce AnswerReachesClient CapUnlessCrowded
