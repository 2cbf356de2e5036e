SPECIFICATION Spec
CONSTANTS
    c1 = c1
    c2 = c2
    c3 = c3
    Chunks <- MCChunks
    Trees <- MCTrees
    MaxTxn = 3
    MaxCompacts = 2
SYMMETRY Mirror
INVARIANTS
    TypeOK
    
    SwapKeepsCopies
    
PROPERTY
    Reclaimed

