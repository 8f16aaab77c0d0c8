SPECIFICATION Spec
CONSTANTS
    Owners = {a1, a2}
    Newcomers = {a2}
    NoOne = NoOne
    NoMark = NoMark
    Intents <- MCIntents
    MaxTx = 2
    MaxGen = 2
    MaxSwitches = 1
    MaxLoops = 2
    MAX_POW_RETRIES = 1
    MaxBalance = 2
CHECK_DEADLOCK FALSE
CONSTRAINT TellingPairs
INVARIANTS
    TypeOK
    OneHolder
    ReservationsAddUp
    MarksAreLive
    NoDuplicateAction
PROPERTIES
    SigningIsCurrent
    NoSilentDrop
    EveryTxSettles
    KeepsPromises
