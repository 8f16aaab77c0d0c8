SPECIFICATION Spec
CONSTANTS
    a = a
    Accounts = {a, b}
    NoOne = NoOne
    Mixed = Mixed
    Urls = {u}
    NoUrl = NoUrl
    Address <- MCAddress
    Slots = {s1, s2}
    NoSlot = NoSlot
    Resets = {x, y}
    NoReset = NoReset
    MaxGen = 4
SYMMETRY Symmetry
CONSTRAINT SimpleOrEarly
INVARIANTS
    AnswersAreCurrent
    BalanceIsOwners
    HeldBalanceStands
    PrefetchIsLive
