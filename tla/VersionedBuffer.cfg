SPECIFICATION Spec
CONSTANTS
  Backings = {b1, b2}
  Rows = 4
  Offsets = {2, 4}
  Sizes = {1, 4}
  Capacities = {4, 6}
  MaxSequence = 4
  MaxPerClass = 2
  SpareFree = 0
  SparseAfterShrink = FALSE
  None = None
SYMMETRY Symmetric
CHECK_DEADLOCK FALSE
INVARIANTS
  EpochTellsContents
  KeptVersionsStayExact
  CapturesAreClosed
  JournalReachesBackings
