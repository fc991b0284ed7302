\* Two nodes that move from MASTER_KEY to a backend, one after the other; two
\* rows read one at a time by two passes, and a request that stores one.
SPECIFICATION Spec
CONSTANTS
    n1 = n1
    n2 = n2
    Nodes = {n1, n2}
    Stopped = {n1}
    Writers = {w1}
    Passes = {p1, p2}
    NRows = 2
    EnvVersion = 1
    Batch = 1
    MaxVersion = 3
    MaxStops = 1
    MaxFaults = 1
    None = None
CHECK_DEADLOCK FALSE
SYMMETRY Symmetry
INVARIANTS RowsReadable RotationKeepsSecrets PassLeavesNothing
