SPECIFICATION Spec
CONSTANTS
  r1 = r1
  r2 = r2
  n1 = n1
  t1 = t1
  t2 = t2
  t3 = t3
  Resources = {r1, r2}
  LockNames = {n1}
  Tokens = {t1, t2, t3}
  Types <- MCTypes
  TypeOf <- MCTypeOf
  Ttl <- MCTtl
  KeyRank <- MCKeyRank
  MaxLockTtl = 2
  MaxRequestTtl = 3
  MaxListEntries = 3
  FaultyKeys = {r1}
  Environments = {"production", "sandbox"}
  MaxTime = 4
SYMMETRY TokenSymmetry
INVARIANTS SingleUse LeaseExclusive AlarmPending
PROPERTIES ImplementsLockService
