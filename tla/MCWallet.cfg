\* The default account, an imported one and two PINs: a second choice of each
\* while the first may be under way; or two tokens, overlapping fetches and two
\* confirmations.
SPECIFICATION MCSpec
CONSTANTS
    Names = {Starknet, n1}
    PrivateKeys = {k0, k1}
    Pins = {p1, p2}
    DefaultName = Starknet
    DefaultKey = k0
    Unset = Unset
    MaxLaunches = 6
    MaxChecks = 1
    MaxCrashes = 1
    Tokens = {"ethereum", "starknet"}
    MaxFunds = 2
    MaxFetches = 2
    MaxConfirms = 2
    None = None
INVARIANTS
    PinComesWithAccount
    LastChoiceStored
    AccountBelongsTogether
    AccountIsBehindPin
    ConfirmationSendsOnce
    SendsWhatWasChecked
PROPERTIES
    OpensWithChosenPin
    AsksForNewPin
CHECK_DEADLOCK FALSE
