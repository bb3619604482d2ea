SPECIFICATION FairSpec
CONSTANTS
  NULL = NULL
  Call = {t1, t2}
  Pipe = {"stdout", "stderr"}
  PipeSize = 1
  MaxOutput = 2
  Code = {0, 1}
INVARIANTS WaitsFindAChild OutputReturned
PROPERTY RunReturns
CHECK_DEADLOCK FALSE
