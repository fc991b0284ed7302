\* One message, two nodes, two redeliveries, two faults, under fairness.
SPECIFICATION FairSpec
CONSTANTS
    Messages = {m1}
    Nodes = {n1, n2}
    Admins = {a1, a2}
    Task = Task
    None = None
    MaxAttempts = 2
    MaxFaults = 2
CHECK_DEADLOCK FALSE
INVARIANTS
    ClaimIsExclusive
    DeliveredOnce
PROPERTIES
    EventuallySettled
