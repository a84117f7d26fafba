CONSTANTS
    kA = kA  kB = kB  kC = kC  kD = kD  w1 = w1
    Keys = {kA, kB, kC, kD}
    Awaiters = {w1}
    GpuKeys = {kA, kD}
    Notifying = {kA}
    Accepting = {kB}
    Scenarios <- MCRetry
    Outcomes <- MCOutcomes
    Later <- MCLater
SPECIFICATION Spec
INVARIANT RetriesComeBack
CHECK_DEADLOCK FALSE
