SPECIFICATION FairSpec
CONSTANTS
    Scale = 5
    EpochLengths = {2, 3}
    InitialLength = 3
    ClosuresPerBlock = 2
    RecordsPerBlock = 2
    Shares = {1, 2}
    Durations = {2}
    MaxLead = 2
    MaxTranches = 2
    MaxRegrids = 1
    MaxTime = 10
    MaxGap = 3
INVARIANTS
    TypeOK
    StreamExact
    AdvanceSucceeds
    EpochGetsItsShare
    WindowsDisjoint
    ElapsedIsDistributed
PROPERTIES
    ClockCatchesUp
