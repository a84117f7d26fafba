SPECIFICATION Spec
CONSTANTS
  MaxCandidate = 6
INVARIANTS
  NoDataRace
  ReplaceAlwaysPublishes
PROPERTIES
  ImplementsMailbox
