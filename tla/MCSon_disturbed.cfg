CONSTANTS
  NULL = NULL
  main = main
  w1 = w1
  w2 = w2
  w3 = w3
  Worker = {w1, w2}
  Commands = {"sendMsg", "sendFile", "recvMsg", "recvFile", "recvOther", "update", "exit"}
  Disturbances = {"signal", "ardaHangsUp", "ardaStops", "peerGone"}
  FilePackets = 2
  Rows = {}
SPECIFICATION Spec
SYMMETRY MCSymmetry
INVARIANT TypeOK
INVARIANT ExchangesExclusive
INVARIANT RepliesMatch
INVARIANT ExitIsLast
INVARIANT IdleHoldsNothing
INVARIANT NothingStrays
CHECK_DEADLOCK FALSE
