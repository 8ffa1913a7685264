SPECIFICATION AgentSpec
CONSTANTS
  Tool = {"a", "b"}
  Changing = {"b"}
  MaxCalls = 2
  RoundCap = 2
  Budget = 1
  SubBudget = 0
  Keep = 2
  FoldGap = 1
  MaxRetries = 1
  FakeLimit = 1
  LoopGuard = 1
  StallN = 1
  FailN = 1
  MaxRound = 2
  Index = {0, 1}
  Pieces = 2
  Retries = 2
  Source = {"a"}
  MaxProcs = 8
  MaxEdits = 2
  MaxExits = 2
  MaxHung = 1
  MaxReloads = 1
INVARIANTS  LlmSafe McpSafe
PROPERTIES LoopEnds LlmEnds McpServes
CHECK_DEADLOCK FALSE
