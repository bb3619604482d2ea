CONSTANTS
  NULL = NULL
  main = main
  w1 = w1
  w2 = w2
  w3 = w3
  Worker = {w1, w2}
  Commands = {"sendMsg", "update", "exit"}
  Disturbances = {"signal", "ardaHangsUp", "ardaStops", "peerGone"}
  FilePackets = 1
  Rows = {}
SPECIFICATION FairSpec
PROPERTY EndsOnceBegun
CHECK_DEADLOCK FALSE
