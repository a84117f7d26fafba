CONSTANTS
    kA = kA  kB = kB  kC = kC  kD = kD  w1 = w1
    Keys = {kA, kB, kC, kD}
    Awaiters = {w1}
    GpuKeys = {kA, kD}
    Notifying = {kA}
    Accepting = {kB}
    Scenarios <- MCFailure
    Outcomes <- MCOutcomes
    Later <- MCLater
SPECIFICATION Spec
INVARIANT FailureReachesDependents
CHECK_DEADLOCK FALSE
