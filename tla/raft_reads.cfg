SPECIFICATION Spec
CONSTANTS
    s1 = s1
    s2 = s2
    s3 = s3
    Node = {s1, s2, s3}
    None = None
    MaxPendingReads = 1
    MaxReadHistory = 1
    MaxTerm = 2
    Scenarios <- ReadScenarios
INVARIANTS
    ReadsAreLinearizable
CHECK_DEADLOCK FALSE
