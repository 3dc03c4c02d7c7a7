SPECIFICATION Spec
CONSTANTS
    Entries = {"o1"}
    NsOf <- MCOfficerNs
    InitialKvs <- MCOfficerKvs
    Configured <- MCConfigured
    OldKek = "old"
    NewKek = "new"
    Procedures <- MCOnlyRotateLast
    MaxReruns = 0
    Requests = {q1}
    Isolates = {i1}
    CacheTtl = 1
    Processing = 1
    MaxTime = 2
    KvFaults = FALSE
    StoreFaults = FALSE
CHECK_DEADLOCK FALSE
INVARIANT VerdictSafe
