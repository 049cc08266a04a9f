SPECIFICATION Spec
CONSTANTS
    Keys = {k1, k2}
    Zero = Zero
    None = None
    SignerType <- MCSignerType
    Starknet = "Starknet"
    OrderedTypes <- MCOrderedTypes
    Paths = {"outside"}
    Periods = {1, 2, 3, 25}
    MIN_ESCAPE_SECURITY_PERIOD = 2
    DEFAULT_ESCAPE_SECURITY_PERIOD = 3
    TIME_BETWEEN_TWO_ESCAPES = 4
    HOUR = 2
    U64_MAX = 28
    StartTime = 6
    MaxTime = 14
SYMMETRY MCKeySymmetry
INVARIANTS
    TypeOK
    OneOwner
    BackupNeedsGuardian
    EscapeCanComplete
    EscapeSeesUnchangedParties
    StatusNeverPanics
    OwnerCanAnswer
PROPERTIES
    ExpiredStaysExpired
    RolesChangeTogetherOrAnnounced
    GuardianEscapeNeedsOwner
    ImplementsRecovery
