SPECIFICATION Spec
CONSTANTS
    Values = {v1, v2}
    NoValue = NoValue
    Torn = Torn
    MaxEpoch = 5
INVARIANTS
    TypeOK
    WritesInactive
    NeverLosesCommitted
    ReaderBound
PROPERTY
    ImplementsRegister
