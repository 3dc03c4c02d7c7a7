SPECIFICATION FairReqSpec
CONSTANTS
  a = a
  b = b
  c = c
  q1 = q1
  d1 = d1
  d2 = d2
  Nonces = {a, b, c}
  KeyRank <- MCKeyRank
  MaxNonceTtl = 3
  MaxRequestTtl = 4
  MaxNonceCapacity = 2
  FaultyNonces = {c}
  LastRequest = 3
  MaxTime = 8
  Requests = {q1}
  NonceOf <- MCNonceOf
  TimestampOf <- MCTimestampOf
  Deliveries = {d1, d2}
  Window = 1
  NonceTtl = 3
  Processing = 1
INVARIANTS NoReplay NonceAlarmPending AcceptedOnce
PROPERTY EventuallyForgotten
CHECK_DEADLOCK FALSE
