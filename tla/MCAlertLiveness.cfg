SPECIFICATION Spec
CONSTANTS
    Events <- Two
    TenantOf <- TwoOwners
    ClusterOf <- TwoClusters
    NodeOf <- TwoNodes
    WorkOf <- TwoWorks
    Flushers = {f1, f2}
    BufferWindow = 1
    Cooldown = 2
    LastCapture = 2
    MaxTime = 3
INVARIANTS EventsAccounted
PROPERTIES ImplementsThrottle EveryBreachEnds
CHECK_DEADLOCK FALSE
