SPECIFICATION Spec
CONSTANTS
    Keys = {k1}
    Zero = Zero
    None = None
    SignerType <- MCOneType
    Starknet = "Starknet"
    OrderedTypes <- MCOneOrderedType
    Paths = {"validate"}
    Periods = {2}
    MIN_ESCAPE_SECURITY_PERIOD = 2
    DEFAULT_ESCAPE_SECURITY_PERIOD = 3
    TIME_BETWEEN_TWO_ESCAPES = 4
    HOUR = 2
    U64_MAX = 32
    StartTime = 6
    MaxTime = 16
PROPERTIES
    AttemptsResetWithEscape
