SPECIFICATION LoopSpec
CONSTANTS
    Listed = {"api", "web"}
    Others = {"job"}
    Garbled = {"job"}
    Addresses = {a1, a2}
    NoAddress = none
    MaxLoopRestarts = 1
INVARIANTS TargetsAsListed
PROPERTIES EveryTargetScraped
CHECK_DEADLOCK FALSE
