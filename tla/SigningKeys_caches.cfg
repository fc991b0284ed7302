CONSTANTS
    Nodes = {n1, n2}
    Keys = {k1, k2}
    Readers = {n1}
    None = None
    MaxRevisions = 3
    MaxFaults = 1
SPECIFICATION Spec
SYMMETRY Symmetry
CHECK_DEADLOCK FALSE
INVARIANTS AnnouncedIsSeen PublishedBeforeSigning
PROPERTY RevokedStaysUnlessOverlapped
