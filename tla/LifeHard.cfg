SPECIFICATION Spec
CONSTANTS
    Hosts = {h1, h2}
    NoHost = NoHost
    Xen = TRUE
    MayEvict = FALSE
    Scenarios <- HardLives
CHECK_DEADLOCK FALSE
INVARIANTS NotStuck NoNullRecord SingleDomain BootAfterTransfer
PROPERTY KeepsPlacement
