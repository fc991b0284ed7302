\* One writing node, one reading node with two loaders, two writes.
SPECIFICATION Spec
CONSTANTS
    a = a
    b = b
    w1 = w1
    r1 = r1
    r2 = r2
    r3 = r3
    Nodes = {a, b}
    Writers = {w1}
    Loaders = {r2, r3}
    NodeOf <- MCNodeOf
    MaxVersion = 2
    Miss = Miss
    Held = Held
    Gates = {g1, g2}
    None = None
SYMMETRY Symmetry
INVARIANTS
    RedisFresh
    RemoteL1Fresh
    OneLoadPerNode
