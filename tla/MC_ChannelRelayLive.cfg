SPECIFICATION FairSpec
CONSTANTS
  Sock = {s1}
  Call = {c1, c2}
  NoSock = NoSock
  MaxPending = 2
PROPERTIES
  CallsEndUnlessUnread
  LossIsNoticed
CHECK_DEADLOCK FALSE
