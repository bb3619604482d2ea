SPECIFICATION FairSpec
CONSTANTS
  NULL = NULL
  a = a  b = b  s1 = s1  s2 = s2
  Son = {a, b}
  Session = {s1, s2}
  From <- MCFrom
  To <- MCTo
  Name = {"n"}
  nameOf <- MCNameOf
  Data <- MCData
  AwakeSize = 1
  QueueSize = 1
  Disturbances = {{"late"}, {"end"}, {"kill"}}
  Disturbed = {b}
INVARIANTS SuccessIsShared QueuesAreRemoved
PROPERTIES Succeeds EveryThreadEnds
CHECK_DEADLOCK FALSE
