SPECIFICATION Spec
CONSTANTS
    k = k
    v = v
    w = w
    Absent = Absent
    Programs <- AllPrograms
    Limits <- AllLimits
    Int64Max = 2
    MaxTime = 2
    MaxFaults = 1
INVARIANTS
    HonestHistoryAccepted
    VerdictIsRight
    CounterexampleIsMinimal
CHECK_DEADLOCK FALSE
