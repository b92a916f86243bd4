SPECIFICATION FairSpec
CONSTANTS
  Sock = {s1}
  Call = {c1}
  NoSock = NoSock
  MaxPending = 1
PROPERTIES
  CallsEnd
CHECK_DEADLOCK FALSE
