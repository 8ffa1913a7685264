SPECIFICATION Spec
CONSTANTS
  Request = {r1, r2}
  Conv = {c1}
  Key = {k1, k2}
  Body = {b1}
  None = None
  MaxConcurrent = 1
  MaxCrashes = 0
  MaxLost = 0
INVARIANT SlotLimit
CHECK_DEADLOCK FALSE
