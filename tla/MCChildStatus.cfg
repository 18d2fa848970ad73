SPECIFICATION CSSpec
CONSTANTS
    t1 = t1
    t2 = t2
    u1 = u1
    p1 = p1
    p2 = p2
    Timed <- MCTimed
    Untimed <- MCUntimed
    Pid <- MCPid
    NoPid = NoPid
    NoChild = NoChild
    Stranger = Stranger
    MaxEpoch = 2
SYMMETRY Symmetry
INVARIANTS
    OnlyOwnChild
    OwnedChildUnreaped
PROPERTIES
    LostForever
