SPECIFICATION FairSpec
CONSTANTS
  a = a
  b = b
  i1 = i1
  i2 = i2
  Chan = {a, b}
  Id = {i1, i2}
  Token = {t1, t2, t3, t4}
  Sock = {s1, s2}
  None = None
  Forever = Forever
  Grace = 1
  InitialTtl = {1}
  IdOf <- DistinctIds
  MaxChannels = 2
INVARIANTS
  TypeOK
  IndexesAgree
  TokensApart
  ServedNeverExpires
PROPERTIES
  
  OrphanIsTurnedAway
CHECK_DEADLOCK FALSE
