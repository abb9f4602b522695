SPECIFICATION Spec
CONSTANTS
    db = db
    kafka = kafka
    redis = redis
    Connection = {db, kafka, redis}
    Modules <- NotificationModules
    Kafka = kafka
    MaxAttempts = 2
    MaxFaults = 3
    Message = {m1, m2}
    Timeout = 2
    None = None
INVARIANTS
    TypeOK
    DrainKeepsItsWord
PROPERTIES
    GateIsRight
    ShutdownEnds
    Recovers
