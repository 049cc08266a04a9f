\* Two keys, one of which deploys the account, and transactions of two calls, three
\* of which are sent, for the same nonce or not; or three calls of deployAccount, one
\* after the other or at once.
SPECIFICATION MCSpec
CONSTANTS
    Keys = {k1, k2}
    MaxCalls = 2
    MaxNonce = 3
    MaxSent = 3
    None = None
    Deployments = {c1, c2, c3}
    RandomKeys = {g1, g2, g3}
    NoKey = NoKey
SYMMETRY MCSymmetry
INVARIANT AccountKeysAreKept
PROPERTY KeyIsHandedOver
CHECK_DEADLOCK FALSE
