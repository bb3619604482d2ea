CONSTANTS
  NULL = NULL
  a = a
  b = b
  s1 = s1
  s2 = s2
  s3 = s3
  s4 = s4
  User <- MCUser
  UserOf <- MCUserOf
  AddrOf <- MCAddrOf
  Session <- MCReplaced
  SlidesInto <- MCNoSlide
  LastFd = 7
  MaxClients = 3
  ClientHeaders = {"[NEW_SON]", "[LIST_REQUEST]", "[EXIT]", "[MSG]", "[NEW_MSG]", "?", "part"}
  SocketRoom = 1
  MaxMessages = 1
SPECIFICATION FairSpec
PROPERTY ConnectionsAccepted
PROPERTY PacketsRead
PROPERTY ImplementsLine
