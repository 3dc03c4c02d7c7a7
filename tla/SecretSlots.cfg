SPECIFICATION SlotSpec
CONSTANTS
    Surfaces = {"status", "admin", "internal", "preflight"}
    Requests = {q1, q2}
    CacheTtl = 2
    OkTtl = 2
    FailTtl = 1
    Processing = 1
    Patience = 2
    MaxSecret = 3
    MaxFaults = 1
    LastTime = 3
SYMMETRY Symmetry
INVARIANTS
    RetiredRefused
    OverlapAccepted
    PreflightExpires
CHECK_DEADLOCK FALSE
