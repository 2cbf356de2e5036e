SPECIFICATION FairSpec
CONSTANTS
    big = big
    empty = empty
    small = small
    more = more
    None = None
    Files = {big, empty, small}
    NumWorkers = 2
    Assigned <- TwoFiles
    NumChunks <- ChunksOf
    Compressors = {k1}
    Storers = {s1, s2}
    QueueDepth = 1
    StageDepth = 1
CHECK_DEADLOCK FALSE
INVARIANTS
    TypeOK
    EntriesWhole
    NothingLeftOut
    OpenToProducers
    DeadlockOnlyAtReaderGone
PROPERTY
    Termination
    ImplementsIntake
