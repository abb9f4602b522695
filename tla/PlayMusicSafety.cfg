CONSTANTS
    MaxSongs = 3
    MaxBatch = 2
    Task = {t1, t2, t3}
    Timer = {n1, n2}
    NoTimer = NoTimer
    MayDrop = TRUE
SPECIFICATION Spec
SYMMETRY Symmetry
INVARIANTS
    TypeOK
    PlayingIsDriven
    TimerFollowsFlag
    NoLeakedConnection
