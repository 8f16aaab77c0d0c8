------------------------------ MODULE Curation ------------------------------
(***************************************************************************)
(* Communities, curation teams and the lens each user reads a community    *)
(* through: team records, rosters, invitations, community preferences,     *)
(* bans and the subscriber count by which teams are ranked.                *)
(*                                                                         *)
(* Who may curate follows from the subscription and the level of a         *)
(* profile.  Both change outside this component, so Activate, Deactivate,  *)
(* MakeAdmin and DismissAdmin model TransitionCurationEligibility as its   *)
(* callers reach it.  Deactivate runs in BeginBlock when a subscription    *)
(* expires: there an error stops the node (`halted'); in a transaction it  *)
(* is rolled back.                                                         *)
(*                                                                         *)
(* A community is a slug and exists without being created.  Abstracted:    *)
(* team descriptions and tags, the reverse keys of joins and invitations   *)
(* (written and deleted with the key they reverse), and the daily quota.   *)
(***************************************************************************)
EXTENDS Integers, FiniteSets

CONSTANTS
    Users, Nobody,     \* account addresses; the owner of no team
    Communities,       \* community slugs
    Names,             \* normalised team names
    TeamCaps,          \* values governance may give max_curators_per_team
    InitialCap,        \* its first value
    InvitesPerTeam,    \* max_pending_curator_invites_per_team that goes with a cap
    InvitesPerUser,    \* max_pending_curator_invites_per_user
    MaxMemberships,    \* max_curation_memberships, by tier
    MaxJoined,         \* max_joined_communities, by tier
    MaxTeams,          \* bound on the teams a community ever has
    MaxOrder,          \* bound on the accepted orders a team hands out
    MaxSubs,           \* the largest subscriber count, in place of 2^64 - 1
    AdminCandidates,   \* bound: the accounts governance may make admins
    BanCandidates,     \* bound: the accounts teams may ban
    DeleteCandidates   \* bound: the accounts governance may delete, once each

Tiers == {"free", "subscriber", "admin"}

ASSUME CurationAssumption ==
    /\ Nobody \notin Users
    /\ IsFiniteSet(Users) /\ IsFiniteSet(Communities)
    /\ TeamCaps \subseteq Nat \ {0} /\ InitialCap \in TeamCaps
    /\ InvitesPerTeam \in [TeamCaps -> Nat] /\ InvitesPerUser \in Nat
    /\ \A cap \in TeamCaps : InvitesPerTeam[cap] <= cap
    /\ MaxMemberships \in [Tiers -> Nat] /\ MaxJoined \in [Tiers -> Nat]
    /\ MaxTeams \in Nat /\ MaxOrder \in Nat /\ MaxSubs \in Nat
    /\ AdminCandidates \subseteq Users /\ BanCandidates \subseteq Users
    /\ DeleteCandidates \subseteq Users

VARIABLES
    profiles, paid, admins,  \* accounts with a profile, paying, of admin level
    teamState, owner, name, subs, nextOrder,  \* CurationTeam, by team
    order,        \* roster: accepted order of a member, 0 for others
    memberOf,     \* team a user curates for in a community, 0 for none
    memberCount,  \* number of teams a user curates for
    nameKeys,     \* team names in use, by community
    invites,      \* pending invitations <<team, user>>
    inviteCount,  \* number of invitations pending for a user
    pref,         \* CommunityPreference of a user in a community
    joinCount,    \* number of communities a user has joined
    banned,       \* users hidden by a team: <<team, user>>
    maxCurators,  \* max_curators_per_team
    halted,       \* BeginBlock returned an error
    miscounted,   \* history: a pin moved without the count following it
    forgotten,    \* history: accounts that were deleted
    ousted        \* history: teams whose owner governance took off the roster

eligibility == <<profiles, paid, admins>>
teamVars == <<teamState, owner, name, nextOrder, nameKeys>>
roster == <<order, memberOf, memberCount>>
inviteVars == <<invites, inviteCount>>
joinVars == <<pref, joinCount>>
history == <<miscounted, forgotten, ousted>>
vars == <<eligibility, teamVars, subs, roster, inviteVars, joinVars, banned,
          maxCurators, halted, history>>

Teams == Communities \X (1..MaxTeams)
Live == {t \in Teams : teamState[t] = "live"}
Members(t) == {u \in Users : order[t][u] > 0}
Pending(t) == {u \in Users : <<t, u>> \in invites}

NotJoined == [mode |-> "none", team |-> 0]
LiveDefault == [mode |-> "default", team |-> 0]
Raw == [mode |-> "raw", team |-> 0]
Pinned(i) == [mode |-> "pinned", team |-> i]
Pref == [mode: {"none", "default", "raw", "pinned"}, team: 0..MaxTeams]
Lenses == {LiveDefault, Raw} \cup {Pinned(i) : i \in 1..MaxTeams}

TypeOK ==
    /\ profiles \subseteq Users /\ paid \subseteq profiles /\ admins \subseteq profiles
    /\ teamState \in [Teams -> {"none", "live", "deleted"}]
    /\ owner \in [Teams -> Users \cup {Nobody}]
    /\ name \in [Teams -> Names \cup {""}]
    /\ subs \in [Teams -> Nat]
    /\ nextOrder \in [Teams -> Nat \ {0}]
    /\ order \in [Teams -> [Users -> Nat]]
    /\ memberOf \in [Users -> [Communities -> 0..MaxTeams]]
    /\ memberCount \in [Users -> Nat]
    /\ nameKeys \subseteq Communities \X Names
    /\ invites \subseteq Teams \X Users
    /\ inviteCount \in [Users -> Nat]
    /\ pref \in [Users -> [Communities -> Pref]]
    /\ joinCount \in [Users -> Nat]
    /\ banned \subseteq Teams \X Users
    /\ maxCurators \in TeamCaps
    /\ halted \in BOOLEAN /\ miscounted \in BOOLEAN
    /\ forgotten \subseteq Users /\ ousted \subseteq Teams

Init ==
    /\ profiles = {} /\ paid = {} /\ admins = {}
    /\ teamState = [t \in Teams |-> "none"]
    /\ owner = [t \in Teams |-> Nobody]
    /\ name = [t \in Teams |-> ""]
    /\ subs = [t \in Teams |-> 0]
    /\ nextOrder = [t \in Teams |-> 1]
    /\ order = [t \in Teams |-> [u \in Users |-> 0]]
    /\ memberOf = [u \in Users |-> [c \in Communities |-> 0]]
    /\ memberCount = [u \in Users |-> 0]
    /\ nameKeys = {}
    /\ invites = {} /\ inviteCount = [u \in Users |-> 0]
    /\ pref = [u \in Users |-> [c \in Communities |-> NotJoined]]
    /\ joinCount = [u \in Users |-> 0]
    /\ banned = {}
    /\ maxCurators = InitialCap
    /\ halted = FALSE
    /\ miscounted = FALSE /\ forgotten = {} /\ ousted = {}
-----------------------------------------------------------------------------
(***************************************************************************)
(* Keeper helpers.                                                         *)
(***************************************************************************)
CanCurate(u) == u \in paid \cup admins

Tier(u) == IF u \in admins THEN "admin"
           ELSE IF u \in paid THEN "subscriber" ELSE "free"

Joined(u, c) == pref[u][c].mode # "none"

\* JoinCommunity does nothing for a joined user and checks the cap for others.
MayJoin(u, c) == Joined(u, c) \/ joinCount[u] < MaxJoined[Tier(u)]

\* Mutation of PinnedTeam: a deleted team is adjusted like a live one.
PinnedTeamDeleted(p, c) == IF p.mode = "pinned" THEN {<<c, p.team>>} ELSE {}

\* The live team a preference contributes a subscriber to.
PinnedTeam(p, c) == IF p.mode = "pinned" THEN {<<c, p.team>>} \cap Live ELSE {}
Pins(u) == UNION {PinnedTeam(pref[u][c], c) : c \in Communities}

\* adjustTeamSubscriberCount fails rather than underflow or overflow.
CanTake(minus) == \A t \in minus : subs[t] > 0
CanAdd(plus) == \A t \in plus : subs[t] < MaxSubs
Moved(minus, plus) ==
    [t \in Teams |-> (subs[t] - (IF t \in minus THEN 1 ELSE 0))
                     + (IF t \in plus THEN 1 ELSE 0)]

\* bestCurationTeamForUser: most subscribers first, then the older team; teams
\* that banned the user are skipped, except `allow'.
BestTeam(c, u, bans, allow) ==
    LET open == {t \in Live : t[1] = c /\ (t = allow \/ <<t, u>> \notin bans)}
    IN  {t \in open : \A s \in open :
            subs[t] > subs[s] \/ (subs[t] = subs[s] /\ t[2] <= s[2])}

\* The pin on the best team, or Raw when there is none.
BestLens(c, u, bans) ==
    LET best == BestTeam(c, u, bans, <<c, 0>>)
    IN  IF best = {} THEN Raw ELSE Pinned((CHOOSE t \in best : TRUE)[2])

\* Mutation of MaySelect: the ban is not looked up.
MaySelectBanned(u, c, p) == p.mode = "pinned" => <<c, p.team>> \in Live

MaySelect(u, c, p) ==
    p.mode = "pinned" => /\ <<c, p.team>> \in Live
                         /\ <<<<c, p.team>>, u>> \notin banned

\* SetCurationPreference once the lens is validated.  `counted' is what the
\* caller passes as `paid': whether the user counts as a subscriber.
MovePin(u, c, p, counted) ==
    LET minus == PinnedTeam(pref[u][c], c)
        plus == PinnedTeam(p, c)
    IN  /\ pref' = [pref EXCEPT ![u][c] = p]
        /\ \/ /\ counted
              /\ CanTake(minus) /\ CanAdd(plus \ minus)
              /\ subs' = Moved(minus, plus)
           \/ /\ ~counted
              /\ UNCHANGED subs
        /\ miscounted' = (miscounted \/ (counted # CanCurate(u) /\ minus # plus))

\* Mutation of Joins: joining a joined community counts again.
JoinsAgain(u, c) == joinCount' = [joinCount EXCEPT ![u] = @ + 1]

Joins(u, c) == joinCount' = [joinCount EXCEPT ![u] = IF Joined(u, c) THEN @ ELSE @ + 1]

\* Every removal recounts the roster against the current cap and fails above it.
RosterFits(t) == Cardinality(Members(t)) - 1 <= maxCurators

\* RemoveCuratorFromTeam for each roster entry <<team, user>> of R.
CanDrop(R) ==
    \A r \in R : order[r[1]][r[2]] > 0 /\ RosterFits(r[1])
\* Mutation of DropMembers: the index by user is not deleted.
DropMembersKeepsIndex(R) ==
    /\ order' = [t \in Teams |-> [u \in Users |->
                    IF <<t, u>> \in R THEN 0 ELSE order[t][u]]]
    /\ memberCount' = [u \in Users |->
                    memberCount[u] - Cardinality({t \in Teams : <<t, u>> \in R})]
    /\ UNCHANGED memberOf

DropMembers(R) ==
    /\ order' = [t \in Teams |-> [u \in Users |->
                    IF <<t, u>> \in R THEN 0 ELSE order[t][u]]]
    /\ memberOf' = [u \in Users |-> [c \in Communities |->
                    IF \E t \in Teams : t[1] = c /\ <<t, u>> \in R
                    THEN 0 ELSE memberOf[u][c]]]
    /\ memberCount' = [u \in Users |->
                    memberCount[u] - Cardinality({t \in Teams : <<t, u>> \in R})]

ClearInvites(I) ==
    /\ invites' = invites \ I
    /\ inviteCount' = [u \in Users |->
          inviteCount[u] - Cardinality({t \in Teams : <<t, u>> \in I \cap invites})]

\* Team record and name key of deleted teams.
Dissolve(gone) ==
    /\ teamState' = [t \in Teams |-> IF t \in gone THEN "deleted" ELSE teamState[t]]
    /\ nameKeys' = nameKeys \ {<<t[1], name[t]>> : t \in gone}
    /\ UNCHANGED <<name, nextOrder>>

Rosters(T) == {r \in T \X Users : order[r[1]][r[2]] > 0}
InvitesOf(T) == {i \in invites : i[1] \in T}
-----------------------------------------------------------------------------
(***************************************************************************)
(* removeCurationMembership: a user leaves the live teams S.  A team the   *)
(* user owns passes to its longest-serving eligible curator, and is        *)
(* deleted when it has none.                                               *)
(***************************************************************************)

Curates(u) == {t \in Live : memberOf[u][t[1]] = t[2]}
Successors(t, u) == {v \in Members(t) \ {u} : CanCurate(v)}
\* Mutation of Heir: the newest curator succeeds.
HeirNewest(t, u) ==
    CHOOSE v \in Successors(t, u) :
        \A w \in Successors(t, u) : order[t][v] >= order[t][w]

Heir(t, u) ==
    CHOOSE v \in Successors(t, u) :
        \A w \in Successors(t, u) : order[t][v] <= order[t][w]
\* Mutation of Gone: a team always goes with its owner.
GoneAlways(u, S) == {t \in S : owner[t] = u}

Gone(u, S) == {t \in S : owner[t] = u /\ Successors(t, u) = {}}
Departures(u, S) == Rosters(Gone(u, S)) \cup ((S \ Gone(u, S)) \X {u})

\* minus: the teams that lose u's subscription.  lost: the invitations that go.
CanDepart(u, S, minus) == CanTake(minus) /\ CanDrop(Departures(u, S))
Depart(u, S, minus, lost) ==
    LET gone == Gone(u, S)
    IN  /\ CanDepart(u, S, minus)
        /\ DropMembers(Departures(u, S))
        /\ ClearInvites(lost \cup InvitesOf(gone))
        /\ Dissolve(gone)
        /\ subs' = [t \in Teams |-> IF t \in gone THEN 0 ELSE Moved(minus, {})[t]]
        /\ owner' = [t \in Teams |-> IF t \in S \ gone /\ owner[t] = u
                                     THEN Heir(t, u) ELSE owner[t]]

\* Mutation of InvitesTo: the invitations of the account stay.
InvitesToNone(u) == {}

InvitesTo(u) == {i \in invites : i[2] = u}

\* Mutation of LoseEligibility: the account's pins stay counted.
LoseEligibilityKeepsCount(u) ==
    /\ Depart(u, Curates(u), {}, InvitesTo(u))
    /\ UNCHANGED <<joinVars, banned, maxCurators, halted, history>>

\* TransitionCurationEligibility of an account that may no longer curate.
LoseEligibility(u) ==
    /\ Depart(u, Curates(u), Pins(u), InvitesTo(u))
    /\ UNCHANGED <<joinVars, banned, maxCurators, halted, history>>

\* TransitionCurationEligibility of an account that may curate now.
GainEligibility(u) ==
    /\ CanAdd(Pins(u))
    /\ subs' = Moved({}, Pins(u))
    /\ UNCHANGED <<teamVars, roster, inviteVars, joinVars, banned, maxCurators,
                   halted, history>>

KeepEligibility ==
    UNCHANGED <<teamVars, subs, roster, inviteVars, joinVars, banned, maxCurators,
                halted, history>>
-----------------------------------------------------------------------------
(***************************************************************************)
(* Profiles, subscriptions and levels.                                     *)
(***************************************************************************)
SetUsername(u) ==
    /\ u \notin profiles
    /\ profiles' = profiles \cup {u}
    /\ UNCHANGED <<paid, admins>>
    /\ KeepEligibility

\* TransitionPaidState(true): a purchase, a gift, a renewal or governance.
Activate(u) ==
    /\ u \in profiles \ paid
    /\ paid' = paid \cup {u}
    /\ UNCHANGED <<profiles, admins>>
    /\ IF u \in admins THEN KeepEligibility ELSE GainEligibility(u)

\* TransitionPaidState(false), by governance or, inBlock, by expiry.
Deactivate(u, inBlock) ==
    /\ u \in paid
    /\ \/ /\ paid' = paid \ {u}
          /\ UNCHANGED <<profiles, admins>>
          /\ IF u \in admins THEN KeepEligibility ELSE LoseEligibility(u)
       \/ /\ inBlock
          /\ u \notin admins
          /\ ~CanDepart(u, Curates(u), Pins(u))
          /\ halted' = TRUE
          /\ UNCHANGED <<eligibility, teamVars, subs, roster, inviteVars, joinVars,
                         banned, maxCurators, history>>

MakeAdmin(u) ==
    /\ u \in (profiles \cap AdminCandidates) \ admins
    /\ admins' = admins \cup {u}
    /\ UNCHANGED <<profiles, paid>>
    /\ IF u \in paid THEN KeepEligibility ELSE GainEligibility(u)

DismissAdmin(u) ==
    /\ u \in admins
    /\ admins' = admins \ {u}
    /\ UNCHANGED <<profiles, paid>>
    /\ IF u \in paid THEN KeepEligibility ELSE LoseEligibility(u)

\* DeleteUserState leaves every key of this component in place.
DeleteUser(u) ==
    /\ u \in (profiles \cap DeleteCandidates) \ forgotten
    /\ profiles' = profiles \ {u}
    /\ paid' = paid \ {u}
    /\ admins' = admins \ {u}
    /\ forgotten' = forgotten \cup {u}
    /\ UNCHANGED <<teamVars, subs, roster, inviteVars, joinVars, banned, maxCurators,
                   halted, miscounted, ousted>>

\* Governance changes max_curators_per_team and the invitations that go with it.
UpdateParams(cap) ==
    /\ maxCurators' = cap
    /\ UNCHANGED <<eligibility, teamVars, subs, roster, inviteVars, joinVars, banned,
                   halted, history>>
-----------------------------------------------------------------------------
(***************************************************************************)
(* Communities and lenses.                                                 *)
(***************************************************************************)
\* The lens a join stores: the default is resolved at join time.
JoinLens(u, c, p) == IF p = LiveDefault THEN BestLens(c, u, banned) ELSE p

JoinCommunity(u, c, p) ==
    /\ u \in profiles
    /\ ~Joined(u, c)
    /\ MaySelect(u, c, p)
    /\ MayJoin(u, c)
    /\ Joins(u, c)
    /\ MovePin(u, c, JoinLens(u, c, p), CanCurate(u))
    /\ UNCHANGED <<eligibility, teamVars, roster, inviteVars, banned, maxCurators,
                   halted, forgotten, ousted>>

\* By the user or by governance; both pass effective_paid.
LeaveCommunity(u, c) ==
    LET S == {t \in Curates(u) : t[1] = c}
        pin == PinnedTeam(pref[u][c], c) \ Gone(u, S)
        minus == IF u \in paid THEN pin ELSE {}
    IN  /\ u \in profiles
        /\ Joined(u, c)
        /\ Depart(u, S, minus, {})
        /\ pref' = [pref EXCEPT ![u][c] = NotJoined]
        /\ joinCount' = [joinCount EXCEPT ![u] = @ - 1]
        /\ miscounted' = (miscounted \/ (CanCurate(u) /\ u \notin paid /\ pin # {}))
        /\ UNCHANGED <<eligibility, banned, maxCurators, halted, forgotten, ousted>>

SetCurationPreference(u, c, p) ==
    /\ u \in profiles
    /\ Joined(u, c)
    /\ MaySelect(u, c, p)
    /\ MovePin(u, c, p, CanCurate(u))
    /\ UNCHANGED <<eligibility, teamVars, roster, inviteVars, joinCount, banned,
                   maxCurators, halted, forgotten, ousted>>

\* GovSetCommunityPreference with present = true; it passes effective_paid.
GovSetCommunityPreference(u, c, p) ==
    /\ u \in profiles
    /\ MaySelect(u, c, p)
    /\ MayJoin(u, c)
    /\ Joins(u, c)
    /\ MovePin(u, c, p, u \in paid)
    /\ UNCHANGED <<eligibility, teamVars, roster, inviteVars, banned, maxCurators,
                   halted, forgotten, ousted>>
-----------------------------------------------------------------------------
(***************************************************************************)
(* Teams.                                                                  *)
(***************************************************************************)
\* By its founder or by governance.  The founder joins the community if needed
\* and pins the new team.
CreateCurationTeam(u, t, n) ==
    LET c == t[1]
        old == PinnedTeam(pref[u][c], c)
    IN  /\ teamState[t] = "none"
        /\ \A i \in 1..(t[2] - 1) : teamState[<<c, i>>] # "none"
        /\ CanCurate(u)
        /\ memberOf[u][c] = 0
        /\ <<c, n>> \notin nameKeys
        /\ memberCount[u] < MaxMemberships[Tier(u)]
        /\ MayJoin(u, c)
        /\ CanTake(old)
        /\ teamState' = [teamState EXCEPT ![t] = "live"]
        /\ owner' = [owner EXCEPT ![t] = u]
        /\ name' = [name EXCEPT ![t] = n]
        /\ nameKeys' = nameKeys \cup {<<c, n>>}
        /\ nextOrder' = [nextOrder EXCEPT ![t] = 2]
        /\ order' = [order EXCEPT ![t][u] = 1]
        /\ memberOf' = [memberOf EXCEPT ![u][c] = t[2]]
        /\ memberCount' = [memberCount EXCEPT ![u] = @ + 1]
        /\ Joins(u, c)
        /\ pref' = [pref EXCEPT ![u][c] = Pinned(t[2])]
        /\ subs' = Moved(old, {t})
        /\ UNCHANGED <<eligibility, inviteVars, banned, maxCurators, halted, history>>

OwnerMayAct(t) == t \in Live /\ CanCurate(owner[t])

SetCurationTeamProfile(t, n) ==
    /\ OwnerMayAct(t)
    /\ n # name[t] => <<t[1], n>> \notin nameKeys
    /\ nameKeys' = (nameKeys \ {<<t[1], name[t]>>}) \cup {<<t[1], n>>}
    /\ name' = [name EXCEPT ![t] = n]
    /\ UNCHANGED <<eligibility, teamState, owner, nextOrder, subs, roster, inviteVars,
                   joinVars, banned, maxCurators, halted, history>>

\* Mutation of HasPlace: pending invitations reserve no place.
HasPlaceForMember(t) ==
    Cardinality(Members(t)) < maxCurators /\ Cardinality(Pending(t)) < InvitesPerTeam[maxCurators]

\* The capacity checks of InviteCurator.
HasPlace(t) ==
    LET members == Cardinality(Members(t))
        pending == Cardinality(Pending(t))
    IN  /\ members < maxCurators
        /\ pending < InvitesPerTeam[maxCurators]
        /\ members + pending < maxCurators

MayInvite(t, u) ==
    /\ t \in Live
    /\ u # owner[t]
    /\ CanCurate(u)
    /\ memberOf[u][t[1]] = 0
    /\ <<t, u>> \notin invites
    /\ HasPlace(t)
    /\ inviteCount[u] < InvitesPerUser

\* By the owner or by governance in the owner's name.
InviteCurator(t, u) ==
    /\ MayInvite(t, u)
    /\ invites' = invites \cup {<<t, u>>}
    /\ inviteCount' = [inviteCount EXCEPT ![u] = @ + 1]
    /\ UNCHANGED <<eligibility, teamVars, subs, roster, joinVars, banned, maxCurators,
                   halted, history>>

\* Revoked by the owner, declined by the invitee, or either by governance.
ClearInvite(t, u) ==
    /\ <<t, u>> \in invites
    /\ ClearInvites({<<t, u>>})
    /\ UNCHANGED <<eligibility, teamVars, subs, roster, joinVars, banned, maxCurators,
                   halted, history>>

\* The checks of AcceptCuratorInvite but for the invitation itself.
MayEnroll(t, u) ==
    /\ t \in Live
    /\ CanCurate(u)
    /\ memberOf[u][t[1]] = 0
    /\ memberCount[u] < MaxMemberships[Tier(u)]
    /\ Cardinality(Members(t)) < maxCurators
    /\ MayJoin(u, t[1])
    /\ nextOrder[t] <= MaxOrder

AcceptedOrder(t) == nextOrder[t]

Enroll(t, u) ==
    /\ order' = [order EXCEPT ![t][u] = AcceptedOrder(t)]
    /\ nextOrder' = [nextOrder EXCEPT ![t] = @ + 1]
    /\ memberOf' = [memberOf EXCEPT ![u][t[1]] = t[2]]
    /\ memberCount' = [memberCount EXCEPT ![u] = @ + 1]
    /\ Joins(u, t[1])
    /\ pref' = [pref EXCEPT ![u][t[1]] = IF Joined(u, t[1]) THEN @ ELSE LiveDefault]

AcceptCuratorInvite(t, u) ==
    /\ <<t, u>> \in invites
    /\ MayEnroll(t, u)
    /\ Enroll(t, u)
    /\ ClearInvites({<<t, u>>})
    /\ UNCHANGED <<eligibility, teamState, owner, name, nameKeys, subs, banned,
                   maxCurators, halted, history>>

\* GovSetCuratorMembership with present = true: an invitation and its acceptance.
GovAddCurator(t, u) ==
    /\ MayInvite(t, u)
    /\ MayEnroll(t, u)
    /\ Enroll(t, u)
    /\ UNCHANGED <<eligibility, teamState, owner, name, nameKeys, subs, inviteVars,
                   banned, maxCurators, halted, history>>

RemoveCuratorFromTeam(t, u) ==
    /\ CanDrop({<<t, u>>})
    /\ DropMembers({<<t, u>>})
    /\ UNCHANGED <<eligibility, teamVars, subs, inviteVars, joinVars, banned,
                   maxCurators, halted, miscounted, forgotten>>

\* GovSetCuratorMembership with present = false takes the owner off as well.
GovRemoveCurator(t, u) ==
    /\ RemoveCuratorFromTeam(t, u)
    /\ ousted' = IF owner[t] = u THEN ousted \cup {t} ELSE ousted

\* Mutation of LeaveCurationTeam: the owner may leave as well.
LeaveCurationTeamOwnerToo(t, u) == RemoveCuratorFromTeam(t, u) /\ UNCHANGED ousted

LeaveCurationTeam(t, u) ==
    /\ owner[t] # u
    /\ RemoveCuratorFromTeam(t, u)
    /\ UNCHANGED ousted

RemoveCurator(t, u) ==
    /\ OwnerMayAct(t)
    /\ owner[t] # u
    /\ RemoveCuratorFromTeam(t, u)
    /\ UNCHANGED ousted

\* By the owner (TransferCurationTeam) or by governance.
SetCurationTeamOwner(t, u) ==
    /\ t \in Live
    /\ u # owner[t]
    /\ CanCurate(u)
    /\ u \in Members(t)
    /\ owner' = [owner EXCEPT ![t] = u]
    /\ ousted' = ousted \ {t}
    /\ UNCHANGED <<eligibility, teamState, name, nextOrder, nameKeys, subs, roster,
                   inviteVars, joinVars, banned, maxCurators, halted, miscounted,
                   forgotten>>

DeleteCurationTeam(t) ==
    /\ OwnerMayAct(t)
    /\ CanDrop(Rosters({t}))
    /\ DropMembers(Rosters({t}))
    /\ ClearInvites(InvitesOf({t}))
    /\ Dissolve({t})
    /\ subs' = [subs EXCEPT ![t] = 0]
    /\ UNCHANGED <<eligibility, owner, joinVars, banned, maxCurators, halted, history>>
-----------------------------------------------------------------------------
(***************************************************************************)
(* SetCurationUserHidden: a team bans a user and, if the user reads        *)
(* through that team, moves them to the next best one.                     *)
(***************************************************************************)
\* The team u reads community c through; a ban by `allow' is not applied yet.
CurrentTeam(u, c, allow) ==
    LET pin == PinnedTeam(pref[u][c], c)
    IN  IF pref[u][c].mode \in {"none", "raw"} THEN {}
        ELSE IF pin # {} THEN pin ELSE BestTeam(c, u, banned, allow)

BanUser(a, t, u) ==
    LET c == t[1]
        bans == banned \cup {<<t, u>>}
    IN  /\ t \in Live /\ CanCurate(a) /\ a \in Members(t)
        /\ u \in BanCandidates
        /\ Curates(u) \cap ({c} \X (1..MaxTeams)) = {}
        /\ banned' = bans
        /\ \/ /\ t \in CurrentTeam(u, c, t)
              /\ u \in profiles
              /\ MovePin(u, c, BestLens(c, u, bans), CanCurate(u))
           \/ /\ t \notin CurrentTeam(u, c, t)
              /\ UNCHANGED <<pref, subs, miscounted>>
        /\ UNCHANGED <<eligibility, teamVars, roster, inviteVars, joinCount,
                       maxCurators, halted, forgotten, ousted>>

UnbanUser(a, t, u) ==
    /\ t \in Live /\ CanCurate(a) /\ a \in Members(t)
    /\ <<t, u>> \in banned
    /\ banned' = banned \ {<<t, u>>}
    /\ UNCHANGED <<eligibility, teamVars, subs, roster, inviteVars, joinVars,
                   maxCurators, halted, history>>
-----------------------------------------------------------------------------
AccountStep ==
    \E u \in Users :
        \/ SetUsername(u)
        \/ Activate(u)
        \/ \E inBlock \in BOOLEAN : Deactivate(u, inBlock)
        \/ MakeAdmin(u)
        \/ DismissAdmin(u)
        \/ DeleteUser(u)

LensStep ==
    \E u \in Users, c \in Communities :
        \/ LeaveCommunity(u, c)
        \/ \E p \in Lenses : \/ JoinCommunity(u, c, p)
                             \/ SetCurationPreference(u, c, p)
                             \/ GovSetCommunityPreference(u, c, p)

TeamStep ==
    \E t \in Teams :
        \/ DeleteCurationTeam(t)
        \/ \E n \in Names : SetCurationTeamProfile(t, n)
        \/ \E u \in Users :
              \/ \E n \in Names : CreateCurationTeam(u, t, n)
              \/ InviteCurator(t, u)
              \/ ClearInvite(t, u)
              \/ AcceptCuratorInvite(t, u)
              \/ GovAddCurator(t, u)
              \/ GovRemoveCurator(t, u)
              \/ LeaveCurationTeam(t, u)
              \/ RemoveCurator(t, u)
              \/ SetCurationTeamOwner(t, u)
              \/ \E a \in Users : BanUser(a, t, u) \/ UnbanUser(a, t, u)

Next ==
    /\ ~halted
    /\ AccountStep \/ LensStep \/ TeamStep \/ \E cap \in TeamCaps : UpdateParams(cap)

Spec == Init /\ [][Next]_vars
-----------------------------------------------------------------------------
(***************************************************************************)
(* Properties.                                                             *)
(***************************************************************************)
\* The two indexes of a membership agree: a user is on the roster of a team
\* (CurationTeamMember) exactly when the team is the one recorded for the user
\* in that community (CurationTeamUser).
MembershipAgrees ==
    \A t \in Teams, u \in Users : order[t][u] > 0 <=> memberOf[u][t[1]] = t[2]

\* The counters the caps are checked against (CurationTeamUserCount,
\* CurationInviteCount and JoinCount) equal the number of keys they count.
CountsAgree ==
    \A u \in Users :
        /\ memberCount[u] = Cardinality({t \in Teams : u \in Members(t)})
        /\ inviteCount[u] = Cardinality({t \in Teams : u \in Pending(t)})
        /\ joinCount[u] = Cardinality({c \in Communities : Joined(u, c)})

\* Only live teams have curators, and a curator is a subscriber or an admin
\* unless DeleteUserState removed the profile: losing eligibility clears every
\* membership.
MembersAreEligible ==
    \A t \in Teams : \A u \in Members(t) :
        t \in Live /\ (CanCurate(u) \/ u \in forgotten)

\* The owner of a live team is one of its curators unless governance took the
\* owner off the roster: departure, transfer and succession keep this so.
OwnerIsCurator == \A t \in Live \ ousted : owner[t] \in Members(t)

\* No two curators of a team share an accepted order, which decides succession.
OrdersDistinct ==
    \A t \in Teams : \A u, v \in Members(t) :
        order[t][u] < nextOrder[t] /\ (order[t][u] = order[t][v] => u = v)

\* A pending invitation is from a live team to someone who is not on it and who
\* may curate (or whose profile was deleted).
InvitesAreAnswerable ==
    \A i \in invites : /\ i[1] \in Live
                       /\ i[2] \notin Members(i[1])
                       /\ CanCurate(i[2]) \/ i[2] \in forgotten

Taken(t) == Cardinality(Members(t)) + Cardinality(Pending(t))
\* Invitations reserve a place: inviting or enrolling a curator never takes
\* curators and pending invitations together above the cap, so an invitee finds
\* the team full only if governance lowered the cap.
PlacesReserved ==
    [][\A t \in Teams : Taken(t)' > Taken(t) => Taken(t)' <= maxCurators]_vars

\* The name keys of a community are the names of its live teams, each used once.
NamesAgree ==
    /\ nameKeys = {<<t[1], name[t]>> : t \in Live}
    /\ \A s, t \in Live : (s[1] = t[1] /\ name[s] = name[t]) => s = t

\* A user never reads a community through a team that banned them: the ban
\* reroutes the pin and a later pin is refused.
PinNotBanned ==
    \A u \in Users, c \in Communities :
        \A t \in PinnedTeam(pref[u][c], c) : <<t, u>> \notin banned

Subscribers(t) == {u \in Users : CanCurate(u) /\ t \in Pins(u)}

\* The subscriber count of a live team, by which teams are ranked, is the number
\* of subscribers and admins that pin it, as long as no pin was moved for an
\* unpaid admin and no account was deleted.
CountExact ==
    (~miscounted /\ forgotten = {}) =>
        \A t \in Live : subs[t] = Cardinality(Subscribers(t))

\* Expiry stops the node only after the count has drifted, after an account was
\* deleted, or while a roster is above a lowered cap.
HaltHasKnownCause ==
    halted => \/ miscounted
              \/ forgotten # {}
              \/ \E t \in Live : ~RosterFits(t)

\* When the owner of a team leaves it, the team passes to the eligible curator
\* that accepted first.
SuccessionIsOldest ==
    [][\A t \in Live \ ousted :
          (owner'[t] # owner[t] /\ order'[t][owner[t]] = 0) =>
              /\ order'[t][owner'[t]] > 0
              /\ owner'[t] \in paid' \cup admins'
              /\ \A v \in paid' \cup admins' :
                    order'[t][v] > 0 => order'[t][owner'[t]] <= order'[t][v]]_vars

\* A team is not lost with its owner: a lapse or a departure deletes a team only
\* if no other eligible curator is on it.
TeamOutlivesOwner ==
    [][\A t \in Live :
          (teamState'[t] # "live" /\ <<eligibility, pref>>' # <<eligibility, pref>>) =>
              Successors(t, owner[t]) = {}]_vars

-----------------------------------------------------------------------------
(***************************************************************************)
(* What comments say of the program, checked by the runs that expect a     *)
(* violation.                                                              *)
(***************************************************************************)
\* A comment of SetCurationPreference's handler has admins and paid subscribers
\* both count toward the subscriber count of the team they pin.
AdminsAndSubscribersCount ==
    forgotten = {} => \A t \in Live : subs[t] = Cardinality(Subscribers(t))

\* A comment of TransitionCurationEligibility has a lowered cap cause no halt
\* of the next expiry.
LoweredCapDoesNotHalt == (~miscounted /\ forgotten = {}) => ~halted
=============================================================================
