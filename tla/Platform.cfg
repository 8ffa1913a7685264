SPECIFICATION PlatformSpec
CONSTANTS
  Task = {t1}
  Ticker = {k1}
  Slot = {1, 2}
  None = None
  Unset = Unset
  Birth = 1
  Minute = 2
  Period = 3
  Cron <- Crons
  MaxRunning = 2
  MaxTime = 6
  MaxCalls = 1
  MaxFaults = 1
  PageConv = {c1, c2}
  MaxTexts = 2
  Nothing = Nothing
  MaxStreams = 2
  MaxOpens = 1
  RingMax = 3
  SliceMax = 2
  IdleTicks = 2
  MaxSeq = 3
  MaxRuns = 2
  Message = {m1, m2}
  MaxRestarts = 1
  Writer = {w1, w2}
  Batch = {b1, b2}
  MaxKilled = 1
  MaxFrames = 2
  MaxCuts = 2
  MaxStarts = 3
  MaxWork = 3
  File = {"f", "g"}
  Content = {"x", "y"}
  KeepDirs = 2
  MaxWrites = 3
  Null = Null
  Missing = Missing
  MaxOps = 3
  MaxDays = 2
  Week = 2
  Owner = {o1}
  TraceMax = 2
  Round = {r1, r2}
  Threshold = 2
  Unread = Unread
  MaxDeletes = 1
  GoalTitle = {k1, k2}
  Automated = {k2}
  BMAX = 1
  MaxActs = 1
  MaxLines = 3
  Down = Down
  MaxReports = 2
  MaxTrouble = 1
  Cycle = {y1, y2}
  MaxArchived = 2
  MaxRecords = 2
  MaxArgs = 3
  MaxTurns = 1
  MaxUpsets = 1
  MaxAsked = 2
  MaxPieces = 2
  MaxMishaps = 1
  Name = {"ann", "Ann"}
  Unreadable = Unreadable
  NoTable = NoTable
  Undeclared = Undeclared
  BlankText = BlankText
  Ref = Ref
  Placeholder = Placeholder
INVARIANTS SchedulerSafe  RpcSafe MigSafe  UndoSafe 
             
PROPERTY GuestsKept
CHECK_DEADLOCK FALSE
