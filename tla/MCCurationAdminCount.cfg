SPECIFICATION Spec
CONSTANTS
    Nobody = Nobody
    Alice = Alice
    Bob = Bob
    Carol = Carol
    Red = Red
    Blue = Blue
    Users <- MCTwo
    Communities = {"art"}
    Names <- MCOneName
    TeamCaps = {1}
    InitialCap = 1
    InvitesPerTeam <- MCNoInvites
    InvitesPerUser = 0
    MaxMemberships <- MCOneTeam
    MaxJoined <- MCJoins
    MaxTeams = 1
    MaxOrder = 1
    AdminCandidates = {Alice}
    MaxSubs = 3
    BanCandidates <- MCNone
    DeleteCandidates = {}
INVARIANTS
    AdminsAndSubscribersCount
CHECK_DEADLOCK FALSE
