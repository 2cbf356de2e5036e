SPECIFICATION FairSpec
CONSTANTS
    a = a
    b = b
    c = c
    Chunks = {a, b, c}
    Snap <- Snapshots
    Pack <- Packs
    Radix = 2
    MaxTxn = 3
    MaxFaults = 1
INVARIANT
    SyncPoint
