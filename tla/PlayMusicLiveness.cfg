CONSTANTS
    MaxSongs = 3
    MaxBatch = 2
    Task = {t1, t2}
    Timer = {n1}
    NoTimer = NoTimer
    MayDrop = FALSE
SPECIFICATION FairSpec
PROPERTIES
    HeadMovesOn
    IdleBotLeaves
