SPECIFICATION FairSpec
CONSTANTS
    e1 = e1
    e2 = e2
    f1 = f1
    inc = inc
    Entries = {e1, e2}
    Files = {f1, inc}
    Sources <- MCSources
    Inputs <- MCInputs
    Reverts = FALSE
    MaxEdits = 2
    MaxFrame = 1
    Faulty = {e2}
    Transient = {e1}
INVARIANTS NoPipelineKeepsOldFiles RegistrationsAreServed
PROPERTIES NoReleaseInFlight ReloadsSettle
CHECK_DEADLOCK FALSE
