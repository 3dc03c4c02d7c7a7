SPECIFICATION Spec
CONSTANTS
  r1 = r1
  r2 = r2
  s1 = s1
  Rotators = {r1, r2}
  Signers = {s1}
  MaxVersion = 4
  InitialKvs <- OneKey
  Faults = FALSE
  LostReads = {r1, r2}
SYMMETRY RequestSymmetry
INVARIANTS NoKeyDropped
CHECK_DEADLOCK FALSE
