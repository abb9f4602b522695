CONSTANTS
    register = register
    login = login
    Key = {register, login}
    Limit <- MCLimit
    Ttl <- MCTtl
    Interval = 3
    MaxTime = 12
SPECIFICATION Spec
INVARIANTS
    TypeOK
    BurstBound
    RefusalsAreEarned
PROPERTIES
    IsFixedWindow
