SPECIFICATION SuiteSpec
CONSTANTS
  c1 = c1
  t1 = t1
  t2 = t2
  v1 = v1
  v2 = v2
  Card = {c1, c2, c3}
  Turn = {t1, t2}
  Conv = {v1, v2}
  ConvOf <- MCConvOf
  Unattended = {t2}
  GuardTool = {"run_command", "kill_process"}
  CommandTool = {"run_command", "run_test", "run_long_task"}
  Calls <- MCCalls
  None = None
  MaxCrashes = 1
  Task = {k1, k2}
  Ticker = {s1}
  Slot = {1, 2}
  Unset = Unset
  Birth = 2
  Minute = 2
  Period = 3
  Cron <- MCCron
  MaxRunning = 1
  MaxTime = 6
  MaxCalls = 1
  MaxFaults = 1

INVARIANTS CardsSafe RunsOnlyApproved ConcurrencyLimit
PROPERTIES WaitsEnd 
