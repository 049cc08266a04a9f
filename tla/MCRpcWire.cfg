\* Every type, every variant, up to two fields of the document changed.
SPECIFICATION Spec
CONSTANTS
    Changed = {"null", "object", "0x0", "negative"}
    MaxChanges = 2
INVARIANTS
    ConformingArrives
    BothEndsReadAlike
    OnlyPendingIsMisread
CHECK_DEADLOCK FALSE
