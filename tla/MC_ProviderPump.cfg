SPECIFICATION FairSpec
CONSTANTS
  c1 = c1
  x1 = x1
  Sock = {s1, s2}
  Session = {x1, x2}
  Call = {c1}
  None = None
  SessionOf <- FromX1
  MayGuess = FALSE
INVARIANTS
  TypeOK
  RegistryIsCurrent
  ReachesOwnClientsOnly
PROPERTIES
  
  RegisterIsAcked
CHECK_DEADLOCK FALSE
