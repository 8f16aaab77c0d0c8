SPECIFICATION Spec
CONSTANTS
    Nobody = Nobody
    Alice = Alice
    Bob = Bob
    Carol = Carol
    Red = Red
    Blue = Blue
    Users <- MCThree
    Communities = {"art"}
    Names <- MCOneName
    TeamCaps = {1, 3}
    InitialCap = 3
    InvitesPerTeam <- MCInvites
    InvitesPerUser = 1
    MaxMemberships <- MCOneTeam
    MaxJoined <- MCJoins
    MaxTeams = 1
    MaxOrder = 4
    AdminCandidates = {}
    MaxSubs = 4
    BanCandidates <- MCNone
    DeleteCandidates = {}
SYMMETRY MCSymmetry
INVARIANTS
    LoweredCapDoesNotHalt
CHECK_DEADLOCK FALSE
