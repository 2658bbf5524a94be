SPECIFICATION Spec
CONSTANTS
    Hosts = {h1}
    NoHost = NoHost
    Xen = FALSE
    MayEvict = TRUE
    Scenarios <- AnyLives
CHECK_DEADLOCK FALSE
INVARIANTS TypeOK MigrationHasSource HandlersHaveHistory
