SPECIFICATION FairSpec
CONSTANTS
    Hosts = {h1, h2}
    NoHost = NoHost
    Xen = TRUE
    MayEvict = FALSE
    Scenarios <- PlainLives
CHECK_DEADLOCK FALSE
INVARIANTS CapacityIsExact NotBlocked
PROPERTIES DoneIsFinal Settles
