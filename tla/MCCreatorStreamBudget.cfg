SPECIFICATION Spec
CONSTANTS
    Scale = 5
    EpochLengths = {2, 3}
    InitialLength = 3
    ClosuresPerBlock = 1
    RecordsPerBlock = 2
    Shares = {2}
    Durations = {2}
    MaxLead = 2
    MaxTranches = 2
    MaxRegrids = 0
    MaxTime = 10
    MaxGap = 3
INVARIANTS
    ElapsedIsPaid
