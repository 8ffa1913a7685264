SPECIFICATION LiveSpec
CONSTANTS
  Request = {r1, r2}
  Conv = {c1}
  Key = {k1}
  Body = {b1}
  None = None
  MaxConcurrent = 1
  MaxCrashes = 1
  MaxLost = 1
INVARIANTS RegistrySafe NoOrphanAnswer
PROPERTIES  StopsArrive
CHECK_DEADLOCK FALSE
