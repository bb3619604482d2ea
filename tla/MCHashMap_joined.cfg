SPECIFICATION JSpec
CONSTANTS
  NULL = NULL
  k1 = k1  k2 = k2  k3 = k3  k4 = k4  k5 = k5
  Key = {k1, k2, k3, k4, k5}
  Value = {v1}
  Hash <- MCHash
  MinCap = 8
  ShrinkDivisor = 8
  AllocFails = FALSE
INVARIANT JoinsEveryThread
CHECK_DEADLOCK FALSE
