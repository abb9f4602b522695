SPECIFICATION Spec
CONSTANTS
    Stream = {s1, s2}
    Chain = {s1, s2}
    Url = {u1, u2}
    MaxPlays = 4
    Interval = 2
    Ttl = 3
    MaxAge = 3
    Retries = 2
INVARIANTS
    TypeOK
    GlobalsRestored
    StaleOnlyWhenMissed
    CountsArePlays
CHECK_DEADLOCK FALSE
