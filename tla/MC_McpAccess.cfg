SPECIFICATION Spec
CONSTANTS
  p1 = p1
  p2 = p2
  s1 = s1
  s2 = s2
  s3 = s3
  Request = {r1, r2}
  Bare = {r2}
  Principal = {p1, p2}
  Id = {a}
  Session = {s1, s2, s3}
  None = None
  MaxSessions = 2
  IdleTicks = 2
  MaxGrants = 1
  MaxChannels = 2
SYMMETRY Symmetric
INVARIANTS
  TypeOK
  SessionStaysWithOwner
  IdleBindingsArePurged
  OneLateMessage
  BindingsEndWithTheChannel
CHECK_DEADLOCK FALSE
