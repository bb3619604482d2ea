SPECIFICATION JSpec
CONSTANTS
  NULL = NULL
  k1 = k1  k2 = k2  k3 = k3  k4 = k4  k5 = k5
  Key = {k1, k2, k3, k4, k5}
  Value = {v1, v2}
  Hash <- MCHash
  MinCap = 4
  ShrinkDivisor = 4
  AllocFails = TRUE
INVARIANTS TypeOK CountExact ProbesEnd ProbesFair JoinedOnce
PROPERTY ImplementsMap
CHECK_DEADLOCK FALSE
