CONSTANTS
    kA = kA  kB = kB  kC = kC  kD = kD  w1 = w1
    Keys = {kA, kB, kC, kD}
    Awaiters = {w1}
    GpuKeys = {kA, kD}
    Notifying = {kA}
    Accepting = {kB}
    Scenarios <- MCScenarios
    Outcomes <- MCOutcomes
    Later <- MCLater
SPECIFICATION Spec
INVARIANTS OneBuildPerAddress NothingIsForgotten AwaitersAreServed
PROPERTY VersionsAreImmutable
CHECK_DEADLOCK FALSE
