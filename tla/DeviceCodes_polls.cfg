\* Two device codes over one user code, two polls, two decisions that may race.
SPECIFICATION Spec
CONSTANTS
    Devices = {d1, d2}
    Polling = {d1}
    UserCodes = {u1}
    Polls = {p1, p2}
    Deciders = {a1, a2}
    MaxAnswers = 2
    None = None
SYMMETRY Symmetry
CHECK_DEADLOCK FALSE
INVARIANTS
    ApprovalSpentOnce
    DecisionSticks
