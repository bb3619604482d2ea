CONSTANTS
  NULL = NULL
  a = a
  b = b
  s1 = s1
  s2 = s2
  s3 = s3
  s4 = s4
  User <- MCUser
  UserOf <- MCUserOf
  AddrOf <- MCAddrOf
  Session <- MCNameTaken
  SlidesInto <- MCSlide
  LastFd = 5
  MaxClients = 3
  ClientHeaders = {"[NEW_SON]", "[NEW_MSG]", "?"}
  SocketRoom = 1
  MaxMessages = 1
SPECIFICATION Spec
INVARIANT DescriptorsAccounted
INVARIANT AcceptNeverBlocks
INVARIANT TypeOK
INVARIANT MessageCountExact
