SPECIFICATION TransportSpec
CONSTANTS
  INIT_TIMEOUT = 2
  MAX_TIMEOUT = 1024
  Factor = 4
  MaxNow = 16
  MaxTasks = 2
  Holders = {h1, h2, h3}
  PageSize = 2
  MaxPages = 2
  Null = Null
  PacketSize = 5
  WordSize = 2
  HashLength = 3
  VectorSize = 5
  Chunks = {1, 4, 7, 13}
  CONFIDANTS = 3
  MaxBytes = 24
  n1 = n1
  n2 = n2
  n3 = n3
  n4 = n4
  Nodes = {n1, n2, n3, n4}
  Origin = n1
  Confidants = {n2, n4}
  Ring <- MCRing
  Lossy = TRUE
  r2 = r2
  d1 = d1
  d2 = d2
  Messages = {r2, d1, d2}
  Redirects = {r2}
  countHeader <- MCCount
  Senders = {s1}
  RingCapacity = 1
  BackCapacity = 5
  PartCapacity = 2
  MAX_REDIRECT = 1
  MaxCounter = 2
  VersionAccepted = TRUE
  MaxInits = 2
INVARIANT FirstSendPrompt
PROPERTY EverySendHappens
INVARIANT FreeOrHeld
INVARIANT MessageWhole
INVARIANT ActsOnWhole
PROPERTY NeighboursStart
PROPERTY VectorOrEarly
PROPERTY EveryMessageHandled
INVARIANT InitOnce
PROPERTY EntersUnlessStartLost
CHECK_DEADLOCK FALSE
