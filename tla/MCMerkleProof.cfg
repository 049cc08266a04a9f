\* Three keys, for every value, in every one of the states, with every answer.
SPECIFICATION Spec
CONSTANTS
    Height = 3
    Values = {1, 2}
    Keys <- MCKeys
    Worlds <- MCWorlds
    Others <- MCOthers
    NoData = NoData
    Root <- TrieRoot
    Proof <- TrieProof
    Answers <- MCAnswers
INVARIANTS
    VerifiedIfHeld
    ComputedProofsDecide
CHECK_DEADLOCK FALSE
