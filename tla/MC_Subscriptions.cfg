SPECIFICATION Spec
CONSTANTS
  Session = {x1, x2, x3}
  Uri = {u1, u2}
  Sock = {s1, s2}
  None = None
  MaxSessions = 2
  MaxUris = 1
  MaxInFlight = 2
SYMMETRY Symmetry
INVARIANTS
  TypeOK
  NothingLeftBehind
  UrisBounded
  ReplayCovers
PROPERTIES
  NobodyElseUnsubscribes
CHECK_DEADLOCK FALSE
