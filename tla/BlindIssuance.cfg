SPECIFICATION Spec
CONSTANTS
  c1 = c1
  c2 = c2
  p1 = p1
  p2 = p2
  r1 = r1
  r2 = r2
  k1 = k1
  k2 = k2
  k3 = k3
  k4 = k4
  NoKid = NoKid
  Creators = {c1}
  Presenters = {p1, p2}
  Rotators = {r1, r2}
  Kids = {k1, k2, k3, k4}
  Keys <- KeyTable
  FirstKid = k1
  MaxAge = 1
  Processing = 1
  KvLag = 1
  Faults = TRUE
  MaxRequests = 4
  MaxTime = 5
SYMMETRY MCSymmetry
INVARIANTS TypeOK RedeemedOnce OneRotationTolerated
CHECK_DEADLOCK FALSE
