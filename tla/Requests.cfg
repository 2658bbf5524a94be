SPECIFICATION Spec
CONSTANTS
    Threads = {t1, t2}
    Names = {"guest"}
    Tokens = {"a", "b"}
    NoToken = "none"
    Directory <- MCDirectory
    Modes <- MCModes
    EnableOther = FALSE
    Scopes <- MCScopes
    MaxUid = 3
    MaxGid = 100
    MaxRequests = 3
    MaxCrashes = 1
SYMMETRY Symmetry
CHECK_DEADLOCK FALSE
INVARIANTS MembershipAgrees SessionIsCurrent
PROPERTIES ChmodIsAllowed
