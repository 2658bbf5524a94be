SPECIFICATION Spec
CONSTANTS
    Threads = {t1, t2}
    MaxLines = 4
    MaxFaults = 2
CHECK_DEADLOCK FALSE
INVARIANT OneHolder
PROPERTY Answered
