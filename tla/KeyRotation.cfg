SPECIFICATION Spec
CONSTANTS
  r1 = r1
  r2 = r2
  s1 = s1
  Rotators = {r1, r2}
  Signers = {s1}
  MaxVersion = 4
  InitialKvs <- Kvs
  Faults = TRUE
  LostReads = {s1}
SYMMETRY RequestSymmetry
INVARIANTS OneActive NoKeyDropped NoRotatedOutKey RotationRecovers
CHECK_DEADLOCK FALSE
