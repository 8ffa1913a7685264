SPECIFICATION PartsSpec
CONSTANTS
  Request = {r1, r2, r3}
  Key = {k1, k2}
  Body = {b1, b2}
  None = None
  MaxCrashes = 1
  MaxLost = 1
  Name = {"r", "q", "w", "ask"}
  Safe = {"r", "q"}
  Asks = {"ask", "w"}
  MaxBatch = 4
  MaxPar = 2
  MaxTime = 3
  MaxHooks = 1
  MaxRules = 2
  Reader = {"turn"}
  Size = 5
  Cap = 5
  NearDen = 4
  MaxVersion = 1
  SubTool = {"s", "t"}
  SubList = {{}, {"s"}}
  SubQuota = {0, 1}
  MaxSubs = 2
  MaxDepth = 2
  SubMax = 0
  MaxSpent = 2
INVARIANTS
  OneExecution ReplayFaithful
  BatchesSafe   
PROPERTIES
  NoRepeatAfterSuccess OnceOnlySpec
CHECK_DEADLOCK FALSE
