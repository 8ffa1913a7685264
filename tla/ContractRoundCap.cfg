SPECIFICATION Spec
CONSTANTS
  Contract = {1}
  Slot = {s1}
  Ticker = {t1}
  MaxRunning = 2
  DueLimit = 3
  MaxAutoRounds = 3
  MaxIdleConclude = 2
  MaxCrashes = 0
  MaxCalls = 2
INVARIANT RoundCap
CHECK_DEADLOCK FALSE
