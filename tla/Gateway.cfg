SPECIFICATION Spec
CONSTANTS
    q1 = q1
    q2 = q2
    n1 = n1
    n2 = n2
    AllowAny = FALSE
    ExactOrigins <- MCExact
    WildcardOrigins <- MCWildcard
    Requests <- MCRequests
    Workloads <- MCWorkloads
    Environments = {"sandbox", "production"}
    Nonces = {n1, n2}
    Cap = 1
    MaxFailures = 1
    Fixtures <- MCFixtures
    PageSize = 1
    NonceTtl = 1
    MaxTime = 2
INVARIANTS
    ContextOnce
    AuditOnce
    AuditCorrelates
    MethodsAgree
    HeadersAgree
    OneServicePerNonce
    NonceSpentByHolder
    FixturesCleared
CHECK_DEADLOCK FALSE
