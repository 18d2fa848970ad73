SPECIFICATION FairSpec
CONSTANTS
    o1 = o1
    o2 = o2
    Op <- MCTwo
    Deadlined <- MCDeadlined
    Cancelable <- MCAtomic
    Atomic = {}
    MaxActive = 1
    MaxAdmitted = 2
    Faults = FALSE
    NoOp = NoOp
PROPERTIES
    OperationsEnd
    ShutdownEnds
CHECK_DEADLOCK FALSE
