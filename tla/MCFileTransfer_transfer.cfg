SPECIFICATION FairSpec
CONSTANTS
  NULL = NULL
  a = a  b = b  c = c  s1 = s1  s2 = s2
  Son = {a, b, c}
  Session = {s1, s2}
  Routes <- MCRoutes
  Size <- MCSize
  SocketSize = 1
  Disturbances <- MCDisturbances
INVARIANTS CorrectlyMeansWhole LocksAreUsed
PROPERTIES ImplementsDelivery EveryTransferEnds
CHECK_DEADLOCK FALSE
