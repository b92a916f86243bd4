SPECIFICATION Spec
CONSTANTS
  Sock = {s1, s2}
  Call = {c1, c2}
  NoSock = NoSock
  MaxPending = 1
SYMMETRY RelaySymmetry
INVARIANTS
  TypeOK
  PendingIsWithCurrent
  SlotsBounded
  NoStrandedWait
  TimeoutIsCancelled
PROPERTIES
  NoOrphanRequest
  SupersededIsHarmless
  ImplementsService
CHECK_DEADLOCK FALSE
