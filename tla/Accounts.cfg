CONSTANTS
    c1 = c1
    c2 = c2
    e1 = e1
    Register = {c1, c2}
    Event = {c1, c2}
    User = {c1, c2}
    Email = {e1}
    email <- MCEmail
    Remove = {}
    Limit = 1
    MaxRows = 4
    MaxTopic = 2
    MaxRestarts = 1
SPECIFICATION Spec
INVARIANTS
    TypeOK
    OneAccountPerEmail
    PhantomOnlyAfterRollback
    NoWelcomeLost
    CopiesAreRedeliveries
PROPERTIES
    WelcomeSettles
CHECK_DEADLOCK FALSE
