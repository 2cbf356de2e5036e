SPECIFICATION Spec
CONSTANTS
    Chunks = {c1, c2}
    Trees = {{c1}, {c1, c2}}
    MaxTxn = 2
    Modern = FALSE
    PowerFails = TRUE
    Outlives = FALSE
INVARIANTS
    PublishedReadable
