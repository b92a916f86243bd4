SPECIFICATION FairSpec
CONSTANTS
  a = a
  b = b
  i1 = i1
  i2 = i2
  Chan = {a, b}
  Id = {i1}
  Token = {t1, t2}
  Sock = {s1}
  None = None
  Forever = Forever
  Grace = 1
  InitialTtl = {1}
  IdOf <- SameId
  MaxChannels = 1
PROPERTIES
  OrphanIsTurnedAway
CHECK_DEADLOCK FALSE
