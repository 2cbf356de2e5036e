SPECIFICATION Spec
CONSTANTS
    Chunks = {c1, c2}
    Trees = {{c1}, {c1, c2}}
    MaxTxn = 3
    Modern = FALSE
    PowerFails = FALSE
    Outlives = TRUE
INVARIANTS
    AuditTrailsManifest
    InProgressCoversManifest
    PublishedReadable
PROPERTIES
    TxnMonotone
