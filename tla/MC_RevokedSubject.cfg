SPECIFICATION Spec
CONSTANTS
  t1 = t1
  t2 = t2
  b1 = b1
  b2 = b2
  Task = {t1}
  Subject = {x1}
  Client = {c1}
  Dynamic = {}
  Browser = {}
  Renewing = {c1}
  Target = {b1, b2}
  None = None
  MaxRecords = 4
  MaxIssued = 6
  MaxOfKind = 2
INVARIANT RevocationIsFinal
CHECK_DEADLOCK FALSE
