SPECIFICATION GroupingSpec
CONSTANTS
    Events <- MCEvents
    TenantOf <- MCTenant
    ClusterOf <- MCCluster
    NodeOf <- MCNode
    WorkOf <- MCWork
    MaxLen = 4
INVARIANTS ForestIsComponents GroupsAreComponents
CHECK_DEADLOCK FALSE
