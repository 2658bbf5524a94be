SPECIFICATION Spec
CONSTANTS
    VMs = {v1, v2}
    NoVM = NoVM
    MaxIp = 2
    RangeEnd = 1
    NicLists <- NamedLists
    Networks <- AllNetworks
    MaxUsed = 3
INVARIANTS TypeOK LeaseIsOwned UsedIsCounted NoLeaseLost
PROPERTY ServiceSpec
