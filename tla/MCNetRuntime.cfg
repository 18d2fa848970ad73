SPECIFICATION Spec
CONSTANTS
    o1 = o1
    o2 = o2
    Op <- MCTwo
    Deadlined <- MCDeadlined
    Cancelable <- MCTwo
    Atomic <- MCAtomic
    MaxActive = 1
    MaxAdmitted = 2
    Faults = TRUE
    NoOp = NoOp
INVARIANTS
    NothingForgotten
    CountersExact
    NoLostWakeUp
    CanceledIsStopped
    AdmissionExact
PROPERTIES
    KeepsPromise
CHECK_DEADLOCK FALSE
