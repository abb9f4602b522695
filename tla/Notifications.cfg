SPECIFICATION NotificationSpec
CONSTANTS
    User = {u1, u2}
    Remove = {r1, r2}
    Limit = 1
    MaxRows = 3
INVARIANTS
    PagesShowAll
PROPERTIES
    ReadStaysRead
CHECK_DEADLOCK FALSE
