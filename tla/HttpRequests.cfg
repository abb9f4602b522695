CONSTANTS
    User = {u1, u2}
    Request = {r1, r2}
    SkipPaths = {r2}
    AccessTtl = 1
    RefreshTtl = 2
    CacheTtl = 2
    Latency = 1
    MaxTokens = 4
    MaxTime = 4
SPECIFICATION Spec
INVARIANTS
    TypeOK
    ContextIsOwn
PROPERTIES
    AcceptanceIsBounded
CHECK_DEADLOCK FALSE
