SPECIFICATION Spec
CONSTANTS
    Entries <- MCEntries
    NsOf <- MCNsOf
    InitialKvs <- MCInitialKvs
    Configured <- MCConfigured
    OldKek = "old"
    NewKek = "new"
    Procedures <- MCProcedures
    MaxReruns = 1
    Requests = {q1, q2}
    Isolates = {i1}
    CacheTtl = 1
    Processing = 1
    MaxTime = 2
    KvFaults = TRUE
    StoreFaults = TRUE
SYMMETRY Symmetry
CHECK_DEADLOCK FALSE
INVARIANTS
    SafeToRemove
    WindowReadable
    NamespaceUntouched
    FirstFieldSpeaks
    KekFresh
