CONSTANTS
  NULL = NULL
  main = main
  w1 = w1
  w2 = w2
  w3 = w3
  Worker = {w1, w2, w3}
  Commands = {"sendMsg", "sendFile", "recvFile", "recvMsg", "exit"}
  Disturbances = {"ardaRefuses"}
  FilePackets = 2
  Rows <- MCRow
SPECIFICATION FairSpec
PROPERTY NoneCutOff
CHECK_DEADLOCK FALSE
