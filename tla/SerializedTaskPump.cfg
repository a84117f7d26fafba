SPECIFICATION PumpFairSpec
CONSTANTS
  Callers = {c1, c2}
  Workers = {w1, w2}
  Dues = {1, 2}
  MaxEpoch = 2
  MaxGeneration = 3
INVARIANTS
  PumpTypeOK
  OneConsumer
  IdleMeansDrained
  DrainedMeansServed
  DelayArmedExactly
PROPERTIES
  AcceptedWorkSettles
CHECK_DEADLOCK FALSE
