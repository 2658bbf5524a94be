SPECIFICATION Spec
CONSTANTS
    Hosts = {h1, h2}
    NoHost = NoHost
    Xen = TRUE
    MayEvict = FALSE
    Scenarios <- CopiedLives
CHECK_DEADLOCK FALSE
INVARIANTS RecordsSettle RunsWhereRecorded
