SPECIFICATION FairSpec
CONSTANTS
    Alice = Alice
    Bob = Bob
    Users <- MCUsers
    Period = 2
    EarlyRenewal = 1
    PeriodFee = 2
    CreatorBps = 5000
    MaxPeriods = 1
    AttemptsPerBlock = 1
    TransitionsPerBlock = 1
    InitialBalance <- MCPoor
    Locked <- MCBobLocked
    GovTerms <- MCShortTerm
    Amounts <- MCAmounts
    MaxTime = 4
    MaxGap = 2
INVARIANTS
    QueueMatchesState
    HaltHasKnownCause
PROPERTIES
    KeepsPaidTime
    FundedRenews
    ExpiryIsResolved
CHECK_DEADLOCK FALSE
