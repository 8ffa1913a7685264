SPECIFICATION SchedSpec
CONSTANTS
  Task = {t1}
  Ticker = {k1}
  Slot = {1}
  Unset = Unset
  Birth = 1
  Minute = 2
  Period = 3
  Cron = {{}, {1, 2}}
  MaxRunning = 2
  MaxTime = 7
  MaxCalls = 0
  MaxFaults = 0
PROPERTY OncePerPoint
CHECK_DEADLOCK FALSE
