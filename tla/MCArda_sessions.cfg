CONSTANTS
  NULL = NULL
  a = a
  b = b
  s1 = s1
  s2 = s2
  s3 = s3
  s4 = s4
  User <- MCUser
  UserOf <- MCUserOf
  AddrOf <- MCAddrOf
  Session <- MCSession3
  SlidesInto <- MCNoSlide
  LastFd = 6
  MaxClients = 1
  ClientHeaders = {"[NEW_SON]", "[EXIT]"}
  SocketRoom = 1
  MaxMessages = 0
SPECIFICATION Spec
INVARIANT FdSetBounded
INVARIANT UniqueNames
INVARIANT CacheCoherent
INVARIANT ListsAreUsable
PROPERTY NoSpuriousLogout
PROPERTY ImplementsRegistry
