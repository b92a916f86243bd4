SPECIFICATION LimitsSpec
CONSTANTS
  k1 = k1
  k2 = k2
  k3 = k3
  Key = {k1, k2, k3}
  Requests = 2
  Window = 3
  MaxKeys = 2
  Backoff = 1
  MaxBackoff = 4
  NoBudget = NoBudget
  Owner = {p, q}
  Channel = {a, b}
  MaxGrants = 3
SYMMETRY Symmetric
INVARIANTS
  TypeOK
  OneEntryPerBudget
  DelayIsServed
  CountIsExact
