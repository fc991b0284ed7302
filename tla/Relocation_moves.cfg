CONSTANTS
    Nodes = {n1, n2}
    Databases = {home, east, west}
    Home = home
    Sessions = {s1, s2}
    Movers = {m1, m2}
    MaxMoves = 3
    MaxFaults = 1
    None = None
SPECIFICATION Spec
SYMMETRY Symmetry
CHECK_DEADLOCK FALSE
INVARIANTS LostOnlyWhenMisled EndedStaysEnded
PROPERTY OneCopyAfterARerun
