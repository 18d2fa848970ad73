SPECIFICATION FairSpec
CONSTANTS
    t1 = t1
    p1 = p1
    Timed <- MCTimed
    Untimed = {}
    Pid <- MCPid
    NoPid = NoPid
    NoChild = NoChild
    Stranger = Stranger
    MaxEpoch = 1
INVARIANTS
    NoChildLeftBehind
    TimeoutIsReported
    VerdictIsOnOwnExit
    NoMonitorOutlivesStream
PROPERTIES
    CallsReturn
    CSSpec
