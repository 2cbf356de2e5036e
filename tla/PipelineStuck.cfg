SPECIFICATION FairSpec
CONSTANTS
    big = big
    empty = empty
    small = small
    more = more
    None = None
    Files = {big, empty, small, more}
    NumWorkers = 2
    Assigned <- ThreeFiles
    NumChunks <- ChunksOf
    Compressors = {k1}
    Storers = {s1, s2}
    QueueDepth = 1
    StageDepth = 1
CHECK_DEADLOCK FALSE
PROPERTY
    Termination
