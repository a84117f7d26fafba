SPECIFICATION ClockFairSpec
CONSTANTS
  ClockThreads = {t1, t2, t3}
  Waiters = {w1, w2}
  MaxPoint = 2
INVARIANTS
  RunsOnceWhenReached
  NoneStranded
PROPERTIES
  ReachedRuns
