SPECIFICATION FairSpec
CONSTANTS
  Backings = {b1, b2}
  Acquirers = {a1}
  Holders = {h1}
  Pinners = {p1}
  Clock = clock
  Classes = {c1}
  MaxPerClass = 2
  SpareFree = 0
  MaxPoint = 1
  None = None
INVARIANTS
  OnePlace
  ClaimExcludesUse
  ClaimAfterRetirement
PROPERTIES
  EventWakes
