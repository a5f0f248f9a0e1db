SPECIFICATION Spec
CONSTANTS
    Orgs = {default, acme}
    Default = default
    NoOne = NoOne
    Keys = {cpu, memory}
    MaxPosts = 4
    MaxFaults = 1
SYMMETRY Symmetry
INVARIANTS SoleOrganizationKept ChannelOwned
PROPERTIES ForeignFromStore
CHECK_DEADLOCK FALSE
