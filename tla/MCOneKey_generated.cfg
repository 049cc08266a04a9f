\* Does a call go on with the key it has generated?
SPECIFICATION MCSpec
CONSTANTS
    Keys = {k1}
    MaxCalls = 1
    MaxNonce = 1
    MaxSent = 1
    None = None
    Deployments = {c1, c2}
    RandomKeys = {g1, g2}
    NoKey = NoKey
SYMMETRY MCSymmetry
INVARIANT UsesGeneratedKey
CHECK_DEADLOCK FALSE
