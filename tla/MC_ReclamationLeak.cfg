SPECIFICATION CooperativeSpec
CONSTANTS
  a = a
  b = b
  i1 = i1
  i2 = i2
  Chan = {a}
  Id = {i1}
  Token = {t1, t2}
  Sock = {s1, s2, s3}
  None = None
  Forever = Forever
  Grace = 1
  InitialTtl = {1}
  IdOf <- OneId
  MaxChannels = 1
PROPERTIES
  OfflineIsReclaimed
CHECK_DEADLOCK FALSE
