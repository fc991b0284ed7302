CONSTANTS
    n1 = n1
    n2 = n2
    e1 = e1
    e2 = e2
    e3 = e3
    e4 = e4
    Nodes = {n1, n2}
    Events = {e1, e2, e3, e4}
    Source <- MCSource
    OccurredAt <- MCOccurredAt
    Bad = {e2}
    Limit = 2
    Page = 2
    Batch = 2
    MonthEnd = 2
    MaxCutoff = 3
    MaxFaults = 1
    None = None
SPECIFICATION FairSpec
CHECK_DEADLOCK FALSE
INVARIANTS RetainedIsLinked InOrderOnce AlarmHasACause SinkSkipsOnlyInALeap
PROPERTY WritersCatchUp
