SPECIFICATION Spec
CONSTANTS
  c1 = c1
  c2 = c2
  h1 = h1
  h2 = h2
  h3 = h3
  Challenges = {c1, c2}
  Handlers = {h1, h2, h3}
  Ttl = 3
  DoTtl = 3
  KvLag = 1
  Processing = 1
  Faults = TRUE
  MaxTime = 6
SYMMETRY MCSymmetry
INVARIANTS ChallengeSingleUse NotBurned
CHECK_DEADLOCK FALSE
