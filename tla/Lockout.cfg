SPECIFICATION Spec
CONSTANTS
  a1 = a1
  a2 = a2
  a3 = a3
  a4 = a4
  Attempts = {a1, a2, a3, a4}
  Threshold = 2
  LeaseTtl = 2
  LockTtl = 2
  TrackTtl = 3
  InitialCounters <- Counters
  Verdicts = {TRUE, FALSE}
  KvLag = 1
  Prompt = TRUE
  Faults = TRUE
  MaxTime = 3
SYMMETRY AttemptSymmetry
INVARIANTS FailuresRemembered LockedWhenCounted LockEarned
CHECK_DEADLOCK FALSE
