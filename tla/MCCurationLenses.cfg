SPECIFICATION Spec
CONSTANTS
    Nobody = Nobody
    Alice = Alice
    Bob = Bob
    Carol = Carol
    Red = Red
    Blue = Blue
    Users <- MCTwo
    Communities = {"art"}
    Names <- MCTwoNames
    TeamCaps = {1}
    InitialCap = 1
    InvitesPerTeam <- MCNoInvites
    InvitesPerUser = 0
    MaxMemberships <- MCOneTeam
    MaxJoined <- MCJoins
    MaxTeams = 2
    MaxOrder = 2
    AdminCandidates = {Alice}
    MaxSubs = 2
    BanCandidates <- MCOne
    DeleteCandidates = {Bob}
SYMMETRY MCNameSymmetry
INVARIANTS
    PinNotBanned
    CountExact
    HaltHasKnownCause
CHECK_DEADLOCK FALSE
