SPECIFICATION FairSpec
CONSTANTS
  Contract = {1}
  Slot = {s1, s2}
  Ticker = {t1}
  MaxRunning = 2
  DueLimit = 3
  MaxAutoRounds = 1
  MaxIdleConclude = 1
  MaxCrashes = 1
  MaxCalls = 2
INVARIANTS
  WaitingHasQuestion
  OneRoundPerContract
PROPERTIES
  
  RoundsGoOn
CHECK_DEADLOCK FALSE
