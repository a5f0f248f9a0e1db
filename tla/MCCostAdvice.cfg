SPECIFICATION AdviceSpec
CONSTANTS
    Names = {kind, prod}
    Utilizations <- Percents
    Lookback = 2
    IdleBelow = 15
    SizedUpTo = 40
    MaxSamples = 4
    MaxRestarts = 1
INVARIANTS OneActive
PROPERTIES AdviceCatchesUp
CHECK_DEADLOCK FALSE
