SPECIFICATION Spec
CONSTANTS
    Dispatchers = {d1, d2}
    Notifiers = {n1}
    Settings <- OneTwoOrMock
    Spacing = 2
    MaxRetries = 2
    InitialBackoff = 1
    MaxBackoff = 2
    RetryAfters = {0}
INVARIANTS EveryChannelTried
PROPERTIES SlotsSpaced EveryDispatchEnds
