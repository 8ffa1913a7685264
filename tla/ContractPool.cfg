SPECIFICATION Spec
CONSTANTS
  Contract = {1, 2}
  Slot = {s1, s2}
  Ticker = {t1, t2}
  MaxRunning = 1
  DueLimit = 2
  MaxAutoRounds = 1
  MaxIdleConclude = 0
  MaxCrashes = 0
  MaxCalls = 0
SYMMETRY Interchangeable
INVARIANTS
  ConcurrencyLimit
  RunningIsExact
CHECK_DEADLOCK FALSE
