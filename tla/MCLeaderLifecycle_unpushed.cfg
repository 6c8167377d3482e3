\* The calls are bounded: the system stops when they are used up.
CONSTANTS
    c1 = c1
    c2 = c2
    w1 = w1
    k1 = k1
    None = None
    Caller <- MCCaller
    Task <- MCTask
    Commit <- MCCommit
    MaxCalls = 3
SYMMETRY Symmetry
SPECIFICATION Spec
CHECK_DEADLOCK FALSE
PROPERTY UnpushedIsRefused
