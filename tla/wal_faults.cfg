SPECIFICATION Spec
CONSTANTS
    Value = {v}
    MaxIndex <- IndexBound
    MaxBatch = 2
    SegmentRecords = 2
    MaxRecords = 5
    FaultModels <- EachFault
INVARIANTS
    ReopenSucceeds
    TruncationCovered
    AcknowledgedSurvive
    MembersMatchFiles
    AcknowledgedRetained
CHECK_DEADLOCK FALSE
