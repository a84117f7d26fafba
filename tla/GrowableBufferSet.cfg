SPECIFICATION FairSpec
CONSTANTS
    fresh = fresh
    zero = zero
    Buffers = {fresh, zero}
    ZeroBuffers = {zero}
    Shrinking = {fresh}
    FirstUnits <- MCFirstUnits
    UsedPercent = 25
    Observations = 2
    AskedUnits = {1, 3}
    LatchAsks <- MCLatchAsks
    NoSet = NoSet
    MaxChanges = 2
    MaxFaults = 1
INVARIANTS
    SealedMeetsRequirements
    KeptSetIsCurrent
PROPERTIES
    RequirementsAreSealed
    QuietSceneShrinks
CHECK_DEADLOCK FALSE
