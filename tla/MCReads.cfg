\* A server that starts while both chains grow and then answers two requests at
\* once, or one call that it executes while the chain grows and is replaced.
SPECIFICATION MCSpec
CONSTANTS
    Requests = {r1, r2}
    Storage <- MCStorage
    MaxEthBlock = 3
    Contracts = {"proxy", "implementation"}
    Keys = {1}
    Values = {0, 1}
    Classes = {"old", "new"}
    StorageAt <- MCStorageAt
    Class <- MCClass
    Declared <- MCDeclared
    MaxReads = 2
    MaxDepth = 2
    MaxBlock = 4
    MaxFork = 1
    MaxLag = 1
    None = None
SYMMETRY MCSymmetry
INVARIANTS
    StateIsOneSettledBlock
    CallReadsOneBlock
PROPERTIES
    ImplementsVerifiedReads
CHECK_DEADLOCK FALSE
