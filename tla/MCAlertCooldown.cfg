SPECIFICATION Spec
CONSTANTS
    Events <- Three
    TenantOf <- OneTenant
    ClusterOf <- ThreeClusters
    NodeOf <- ThreeNodes
    WorkOf <- ThreeWorks
    Flushers = {f1}
    BufferWindow = 1
    Cooldown = 2
    LastCapture = 1
    MaxTime = 3
INVARIANTS CooldownSpacing EveryBreachAnnounced
CHECK_DEADLOCK FALSE
