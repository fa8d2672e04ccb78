SPECIFICATION Spec
CONSTANTS
    Value = {v}
    MaxIndex <- IndexBound
    MaxBatch = 2
    SegmentRecords = 2
    MaxRecords = 4
    FaultModels <- ReadFaults
INVARIANT ReturnedAppendsSurvive
CHECK_DEADLOCK FALSE
