SPECIFICATION Spec
CONSTANTS
    Alice = Alice
    Bob = Bob
    Users <- MCUsers
    Period = 2
    EarlyRenewal = 1
    PeriodFee = 2
    CreatorBps = 5000
    MaxPeriods = 1
    AttemptsPerBlock = 1
    TransitionsPerBlock = 1
    InitialBalance <- MCBalance
    Locked <- MCAllLocked
    GovTerms <- MCTerms
    Amounts <- MCAmounts
    MaxTime = 4
    MaxGap = 2
SYMMETRY MCSymmetry
INVARIANT
    FailedRenewalFallsBack
CHECK_DEADLOCK FALSE
