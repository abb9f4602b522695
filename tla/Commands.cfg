SPECIFICATION Spec
CONSTANTS
    Payload = {p1, p2}
    Nothing = Nothing
INVARIANTS
    TypeOK
    AcknowledgedOnce
    EndsTold
    NoMenuLost
CHECK_DEADLOCK FALSE
