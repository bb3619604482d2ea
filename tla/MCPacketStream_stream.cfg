SPECIFICATION FairSpec
CONSTANTS
  NULL = NULL
  Letter <- MCLetter
  Sent <- MCSent
  Datas <- MCDatas
  Junk <- MCJunk
  ByteBase = 2
  MaxPackets = 2
INVARIANT PacketsAsWritten
PROPERTY EndIsNoticed
CHECK_DEADLOCK FALSE
