SPECIFICATION FairSpec
CONSTANTS
    layout = layout
    recording = recording
    None = None
    Fragments = {layout, recording}
    Slots = {1, 2}
    Requires <- MCRequires
    MaxSealed = 3
INVARIANTS PublishedIsWhole CompletedIsDecided
PROPERTIES NewestWins SettledIsDecided
CHECK_DEADLOCK FALSE
