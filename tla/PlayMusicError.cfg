CONSTANTS
    MaxSongs = 2
    MaxBatch = 2
    Task = {t1, t2, t3}
    Timer = {n1, n2}
    NoTimer = NoTimer
    MayDrop = FALSE
SPECIFICATION Spec
PROPERTY ErrorSkipsOneSong
