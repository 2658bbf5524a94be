SPECIFICATION Spec
CONSTANTS
    Hosts <- MCHosts
    VMs <- MCVMs
    MaxMem <- MCMaxMem
    Mem <- MCMem
    Suits <- MCSuits
    MAX_VM = 2
    MAX_DISPATCH = 2
    MAX_HOST = 2
    Scenarios <- MCScenarios
CHECK_DEADLOCK FALSE
INVARIANT NotOvercommitted
PROPERTY Placed
