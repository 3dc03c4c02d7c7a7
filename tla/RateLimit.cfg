SPECIFICATION RateSpec
CONSTANTS
  q1 = q1
  q2 = q2
  q3 = q3
  q4 = q4
  i1 = i1
  i2 = i2
  Calls = {q1, q2, q3, q4}
  Kinds = {"plain", "sharded", "quota", "tripwire"}
  ShardCount = 2
  Isolates = {i1, i2}
  Limit = 2
  Tiers = {1}
  LastHour = 1
  MaxQuota = 3
  Faults = TRUE
SYMMETRY MCSymmetry
INVARIANT RefusalEarned
PROPERTY AdmitBound
CHECK_DEADLOCK FALSE
