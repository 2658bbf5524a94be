SPECIFICATION Spec
CONSTANTS
    Hosts = {1, 2, 3}
    Silent = {1}
    HostLimit = 2
    Scenarios <- AllScenarios
CHECK_DEADLOCK FALSE
INVARIANTS OneRequest
PROPERTIES DisabledStays HookRuns AskedAgain
