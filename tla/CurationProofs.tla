--------------------------- MODULE CurationProofs ---------------------------
(***************************************************************************)
(* What Curation states of rosters, counters, invitations, names, bans,    *)
(* subscriber counts and halts, and what a step may never do to a team,    *)
(* proved for any users, communities, teams and caps.                      *)
(***************************************************************************)
EXTENDS CurationInv

-----------------------------------------------------------------------------
(***************************************************************************)
(* Teams: invitations, names and new teams.                                *)
(***************************************************************************)
\* An invitation adds one key and one to the invitee's count, and clearing it
\* takes both back.
LEMMA InvitationKeeps ==
  ASSUME CurInv, NEW t \in Teams, NEW u \in Users,
         InviteCurator(t, u) \/ ClearInvite(t, u)
  PROVE  CurInv'
  <1>1. TypeOK /\ InviteCounts /\ InvitesAreAnswerable
    BY DEF CurInv, InviteInv
  <1>2. /\ UNCHANGED <<profiles, paid, admins, teamState, owner, name, nextOrder, nameKeys>>
        /\ UNCHANGED <<subs, order, memberOf, memberCount, pref, joinCount, banned>>
        /\ UNCHANGED <<maxCurators, halted, miscounted, forgotten, ousted>>
    BY DEF InviteCurator, ClearInvite, eligibility, teamVars, roster, joinVars, history
  <1>3. /\ invites' \subseteq Teams \X Users
        /\ inviteCount' \in [Users -> Nat]
        /\ InviteCounts'
        /\ InvitesAreAnswerable'
    <2>1. CASE ClearInvite(t, u)
      <3>1. {<<t, u>>} \subseteq invites /\ ClearInvites({<<t, u>>})
        BY <2>1 DEF ClearInvite
      <3>2. /\ invites' \subseteq invites
            /\ inviteCount' \in [Users -> Nat]
            /\ InviteCounts'
        BY <1>1, <3>1, ClearEffect
      <3>3. QED
        BY <1>1, <1>2, <3>2
           DEF TypeOK, InvitesAreAnswerable, Live, Members, CanCurate
    <2>2. CASE InviteCurator(t, u)
      <3>1. /\ invites' = invites \cup {<<t, u>>}
            /\ inviteCount' = [inviteCount EXCEPT ![u] = @ + 1]
            /\ t \in Live /\ CanCurate(u) /\ memberOf[u][t[1]] = 0
            /\ <<t, u>> \notin invites
        BY <2>2 DEF InviteCurator, MayInvite
      <3>2. invites' \subseteq Teams \X Users /\ inviteCount' \in [Users -> Nat]
        <4>1. invites \subseteq Teams \X Users /\ inviteCount \in [Users -> Nat]
          BY <1>1 DEF TypeOK
        <4>2. <<t, u>> \in Teams \X Users /\ inviteCount[u] + 1 \in Nat
          BY <4>1
        <4>3. QED
          BY <3>1, <4>1, <4>2
      <3>3. InviteCounts'
        <4> SUFFICES ASSUME NEW v \in Users
                     PROVE  inviteCount'[v] = Cardinality(InvitingTeams(v)')
          BY DEF InviteCounts
        <4>1. inviteCount[v] = Cardinality(InvitingTeams(v)) /\ inviteCount[v] \in Nat
          BY <1>1 DEF InviteCounts, TypeOK
        <4>2. InvitingTeams(v)' =
                IF v = u THEN InvitingTeams(v) \cup {t} ELSE InvitingTeams(v)
          BY <3>1 DEF InvitingTeams, Pending
        <4>3. IsFiniteSet(InvitingTeams(v))
          BY TeamsFinite, FS_Subset DEF InvitingTeams
        <4>4. u = v => t \notin InvitingTeams(v)
          BY <3>1 DEF InvitingTeams, Pending
        <4>5. u = v => Cardinality(InvitingTeams(v) \cup {t}) = Cardinality(InvitingTeams(v)) + 1
          BY <4>3, <4>4, FS_AddElement, Zenon
        <4>6. inviteCount'[v] = IF v = u THEN inviteCount[v] + 1 ELSE inviteCount[v]
          BY <1>1, <3>1 DEF TypeOK
        <4>7. QED
          BY <4>1, <4>2, <4>5, <4>6
      <3>4. ~(order[t][u] > 0)
        <4>1. order[t][u] > 0 <=> memberOf[u][t[1]] = t[2]
          BY DEF CurInv, RosterInv, MembershipAgrees
        <4>2. t[2] # 0
          BY DEF Teams
        <4>3. QED
          BY <3>1, <4>1, <4>2
      <3>5. InvitesAreAnswerable'
        <4> SUFFICES ASSUME NEW i \in invites'
                     PROVE  /\ i[1] \in Live
                            /\ i[2] \notin Members(i[1])
                            /\ CanCurate(i[2]) \/ i[2] \in forgotten
          BY <1>2 DEF InvitesAreAnswerable, Live, Members, CanCurate
        <4>1. CASE i \in invites
          BY <1>1, <4>1 DEF InvitesAreAnswerable
        <4>2. CASE i = <<t, u>>
          BY <3>1, <3>4, <4>2 DEF Members
        <4>3. QED
          BY <3>1, <4>1, <4>2
      <3>6. QED
        BY <3>2, <3>3, <3>5
    <2>3. QED
      BY <2>1, <2>2
  <1>4. TypeOK'
    BY <1>1, <1>2, <1>3 DEF TypeOK
  <1>5. RosterInv' /\ OwnerIsCurator' /\ NamesAgree'
    <2>1. RosterInv'
      BY <1>2, RosterFrame DEF CurInv
    <2>2. OwnerIsCurator'
      BY <1>2, Zenon DEF CurInv, OwnerIsCurator, Members, Live
    <2>3. NamesAgree'
      BY <1>2 DEF CurInv, NamesAgree, Live
    <2>4. QED
      BY <2>1, <2>2, <2>3
  <1>6. LensInv'
    BY <1>2 DEF CurInv, LensInv, JoinCounts, JoinedIn, Joined, PinNotBanned, PinnedTeam,
                BansExist, Live
  <1>7. QED
    BY <1>3, <1>4, <1>5, <1>6 DEF CurInv, InviteInv

\* A new name replaces the old one among the name keys.
LEMMA ProfileKeeps ==
  ASSUME CurInv, NEW t \in Teams, NEW n \in Names, SetCurationTeamProfile(t, n)
  PROVE  CurInv'
  <1>1. /\ UNCHANGED <<profiles, paid, admins, teamState, owner, nextOrder, subs, order>>
        /\ UNCHANGED <<memberOf, memberCount, invites, inviteCount, pref, joinCount, banned>>
        /\ UNCHANGED <<maxCurators, halted, miscounted, forgotten, ousted>>
    BY DEF SetCurationTeamProfile, eligibility, roster, inviteVars, joinVars, history
  <1>2. /\ t \in Live
        /\ n # name[t] => <<t[1], n>> \notin nameKeys
        /\ nameKeys' = (nameKeys \ {<<t[1], name[t]>>}) \cup {<<t[1], n>>}
        /\ name' = [name EXCEPT ![t] = n]
    BY DEF SetCurationTeamProfile, OwnerMayAct
  <1>3. TypeOK
    BY DEF CurInv
  <1>4. /\ nameKeys = {<<s[1], name[s]>> : s \in Live}
        /\ \A r, s \in Live : (r[1] = s[1] /\ name[r] = name[s]) => r = s
    BY DEF CurInv, NamesAgree
  <1>5. \A s \in Live : s \in Teams /\ name'[s] = IF s = t THEN n ELSE name[s]
    BY <1>2, <1>3 DEF TypeOK, Live
  <1>6. ASSUME NEW s \in Live, s # t, s[1] = t[1] PROVE name[s] # n
    <2>1. <<s[1], name[s]>> \in nameKeys
      BY <1>4
    <2>2. name[s] # name[t]
      BY <1>2, <1>4, <1>6
    <2>3. QED
      BY <1>2, <1>6, <2>1, <2>2
  <1>7. nameKeys' = {<<s[1], name'[s]>> : s \in Live}
    <2>1. ASSUME NEW k \in nameKeys' PROVE \E s \in Live : k = <<s[1], name'[s]>>
      <3>1. CASE k = <<t[1], n>>
        BY <1>2, <1>5, <3>1
      <3>2. CASE k \in nameKeys /\ k # <<t[1], name[t]>>
        <4>1. PICK s \in Live : k = <<s[1], name[s]>>
          BY <1>4, <3>2
        <4>2. s # t
          BY <3>2, <4>1
        <4>3. QED
          BY <1>5, <4>1, <4>2
      <3>3. QED
        BY <1>2, <3>1, <3>2
    <2>2. ASSUME NEW s \in Live PROVE <<s[1], name'[s]>> \in nameKeys'
      <3>1. CASE s = t
        BY <1>2, <1>5, <3>1
      <3>2. CASE s # t
        <4>1. <<s[1], name[s]>> \in nameKeys /\ name'[s] = name[s]
          BY <1>4, <1>5, <3>2
        <4>2. ~(s[1] = t[1] /\ name[s] = name[t])
          BY <1>2, <1>4, <3>2
        <4>3. QED
          BY <1>2, <4>1, <4>2
      <3>3. QED
        BY <3>1, <3>2
    <2>3. QED
      BY <2>1, <2>2
  <1>8. NamesAgree'
    <2>1. \A r, s \in Live : (r[1] = s[1] /\ name'[r] = name'[s]) => r = s
      BY <1>4, <1>5, <1>6
    <2>2. Live' = Live
      BY <1>1 DEF Live
    <2>3. QED
      BY <1>7, <2>1, <2>2 DEF NamesAgree
  <1>9. TypeOK'
    <2>1. name' \in [Teams -> Names \cup {""}]
      BY <1>2, <1>3 DEF TypeOK
    <2>2. nameKeys' \subseteq Communities \X Names
      <3>1. nameKeys \subseteq Communities \X Names
        BY <1>3 DEF TypeOK
      <3>2. <<t[1], n>> \in Communities \X Names
        BY DEF Teams
      <3>3. QED
        BY <1>2, <3>1, <3>2
    <2>3. QED
      BY <1>1, <1>3, <2>1, <2>2 DEF TypeOK
  <1>10. RosterInv' /\ OwnerIsCurator' /\ InviteInv'
    <2>1. RosterInv' /\ OwnerIsCurator'
      <3>1. RosterInv'
        BY <1>1, RosterFrame DEF CurInv
      <3>2. OwnerIsCurator'
        BY <1>1 DEF CurInv, OwnerIsCurator, Members, Live
      <3>3. QED
        BY <3>1, <3>2
    <2>2. InviteInv'
      BY <1>1 DEF CurInv, InviteInv, InviteCounts, InvitingTeams, Pending,
                  InvitesAreAnswerable, Members, Live, CanCurate
    <2>3. QED
      BY <2>1, <2>2
  <1>11. LensInv'
    BY <1>1 DEF CurInv, LensInv, JoinCounts, JoinedIn, Joined, PinNotBanned, PinnedTeam,
                BansExist, Live
  <1>12. QED
    BY <1>8, <1>9, <1>10, <1>11 DEF CurInv

\* A new team has its creator as only curator and first subscriber; before it
\* existed it had no curators, invitations or bans.
LEMMA CreateKeeps ==
  ASSUME CurInv, NEW t \in Teams, NEW u \in Users, NEW n \in Names,
         CreateCurationTeam(u, t, n)
  PROVE  CurInv'
  <1> DEFINE c == t[1]
  <1>1. /\ teamState[t] = "none" /\ CanCurate(u) /\ memberOf[u][c] = 0
        /\ <<c, n>> \notin nameKeys /\ CanTake(PinnedTeam(pref[u][c], c))
        /\ teamState' = [teamState EXCEPT ![t] = "live"]
        /\ owner' = [owner EXCEPT ![t] = u]
        /\ name' = [name EXCEPT ![t] = n]
        /\ nameKeys' = nameKeys \cup {<<c, n>>}
        /\ nextOrder' = [nextOrder EXCEPT ![t] = 2]
    BY DEF CreateCurationTeam
  <1>2. /\ order' = [order EXCEPT ![t][u] = 1]
        /\ memberOf' = [memberOf EXCEPT ![u][c] = t[2]]
        /\ memberCount' = [memberCount EXCEPT ![u] = @ + 1]
        /\ Joins(u, c)
        /\ pref' = [pref EXCEPT ![u][c] = Pinned(t[2])]
        /\ subs' = Moved(PinnedTeam(pref[u][c], c), {t})
        /\ UNCHANGED <<eligibility, inviteVars, banned, maxCurators, halted, history>>
    BY DEF CreateCurationTeam
  <1>3. TypeOK /\ MembershipAgrees /\ MemberCounts /\ OrdersDistinct /\ JoinCounts
    BY DEF CurInv, RosterInv, LensInv
  <1>4. /\ UNCHANGED <<profiles, paid, admins, invites, inviteCount, banned, maxCurators>>
        /\ UNCHANGED <<halted, miscounted, forgotten, ousted>>
    BY <1>2 DEF eligibility, inviteVars, history
  <1>5. c \in Communities /\ t[2] \in 1..MaxTeams
    BY DEF Teams
  <1> HIDE DEF c
  <1>6. /\ order' \in [Teams -> [Users -> Nat]]
        /\ memberOf' \in [Users -> [Communities -> 0..MaxTeams]]
        /\ memberCount' \in [Users -> Nat]
        /\ \A s \in Teams, v \in Users :
              order'[s][v] = IF s = t /\ v = u THEN 1 ELSE order[s][v]
        /\ MembershipAgrees'
        /\ MemberCounts'
    <2>1. /\ memberOf[u][t[1]] = 0
          /\ order' = [order EXCEPT ![t][u] = 1]
          /\ memberOf' = [memberOf EXCEPT ![u][t[1]] = t[2]]
          /\ memberCount' = [memberCount EXCEPT ![u] = @ + 1]
      BY <1>1, <1>2 DEF c
    <2>2. 1 \in Nat \ {0}
      OBVIOUS
    <2>3. QED
      BY <1>3, <2>1, <2>2, EnlistEffect, Zenon
  <1>7. Pinned(t[2]) \in Pref /\ Pinned(t[2]).mode # "none"
    <2>1. t[2] \in 0..MaxTeams
      BY <1>5, CurationAssumption
    <2>2. QED
      BY <2>1 DEF Pinned, Pref
  <1>8. /\ pref' \in [Users -> [Communities -> Pref]]
        /\ joinCount' \in [Users -> Nat]
        /\ JoinCounts'
    BY <1>2, <1>3, <1>5, <1>7, JoinEffect, Zenon
  <1>9. subs' \in [Teams -> Nat]
    BY <1>1, <1>2, <1>3, MovedType
  <1>10. t \notin Live /\ Live' = Live \cup {t}
    BY <1>1, <1>3 DEF Live, TypeOK
  <1>11. TypeOK'
    <2>1. teamState' \in [Teams -> {"none", "live", "deleted"}]
      BY <1>1, <1>3 DEF TypeOK
    <2>2. owner' \in [Teams -> Users \cup {Nobody}]
      BY <1>1, <1>3 DEF TypeOK
    <2>3. name' \in [Teams -> Names \cup {""}] /\ nextOrder' \in [Teams -> Nat \ {0}]
      <3>1. name \in [Teams -> Names \cup {""}] /\ nextOrder \in [Teams -> Nat \ {0}]
        BY <1>3 DEF TypeOK
      <3>2. name' \in [Teams -> Names \cup {""}]
        BY <1>1, <3>1
      <3>3. nextOrder' \in [Teams -> Nat \ {0}]
        <4>1. 2 \in Nat \ {0}
          OBVIOUS
        <4>2. QED
          BY <1>1, <3>1, <4>1
      <3>4. QED
        BY <3>2, <3>3
    <2>4. nameKeys' \subseteq Communities \X Names
      <3>1. nameKeys \subseteq Communities \X Names
        BY <1>3 DEF TypeOK
      <3>2. <<c, n>> \in Communities \X Names
        BY <1>5
      <3>3. QED
        BY <1>1, <3>1, <3>2
    <2>5. QED
      BY <1>3, <1>4, <1>6, <1>8, <1>9, <2>1, <2>2, <2>3, <2>4 DEF TypeOK
  <1>12. \A v \in Users : order[t][v] = 0
    <2> SUFFICES ASSUME NEW v \in Users PROVE order[t][v] = 0
      OBVIOUS
    <2>1. ~(order[t][v] > 0)
      BY <1>10 DEF CurInv, RosterInv, MembersAreEligible, Members
    <2>2. order[t][v] \in Nat
      BY <1>3 DEF TypeOK
    <2>3. QED
      BY <2>1, <2>2
  <1>13. OrdersDistinct'
    <2> SUFFICES ASSUME NEW s \in Teams, NEW v \in Users, NEW w \in Users,
                        order'[s][v] > 0, order'[s][w] > 0
                 PROVE  /\ order'[s][v] < nextOrder'[s]
                        /\ order'[s][v] = order'[s][w] => v = w
      BY DEF OrdersDistinct, Members
    <2>1. CASE s = t
      <3>1. v = u /\ w = u /\ order'[s][v] = 1
        <4>1. /\ order'[s][v] = IF v = u THEN 1 ELSE order[s][v]
              /\ order'[s][w] = IF w = u THEN 1 ELSE order[s][w]
          BY <1>6, <2>1
        <4>2. order[s][v] = 0 /\ order[s][w] = 0
          BY <1>12, <2>1
        <4>3. QED
          BY <4>1, <4>2
      <3>2. nextOrder'[s] = 2
        BY <1>1, <1>3, <2>1 DEF TypeOK
      <3>3. QED
        BY <3>1, <3>2
    <2>2. CASE s # t
      <3>1. /\ order'[s][v] = order[s][v] /\ order'[s][w] = order[s][w]
            /\ nextOrder'[s] = nextOrder[s]
        BY <1>1, <1>3, <1>6, <2>2 DEF TypeOK
      <3>2. order[s][v] > 0 /\ order[s][w] > 0
        BY <3>1
      <3>3. order[s][v] < nextOrder[s] /\ (order[s][v] = order[s][w] => v = w)
        BY <1>3, <3>2 DEF OrdersDistinct, Members
      <3>4. QED
        BY <3>1, <3>3
    <2>3. QED
      BY <2>1, <2>2
  <1>14. \A v \in Users : Entitled(v)' <=> Entitled(v)
    BY <1>2, EntitledFrame DEF history
  <1>15. MembersAreEligible'
    <2> SUFFICES ASSUME NEW s \in Teams, NEW v \in Users, order'[s][v] > 0
                 PROVE  s \in Live \cup {t} /\ Entitled(v)
      BY <1>4, <1>10, <1>14 DEF MembersAreEligible, Members, Entitled
    <2>1. (s = t /\ v = u) \/ order[s][v] > 0
      BY <1>6
    <2>2. QED
      BY <1>1, <2>1, Zenon DEF CurInv, RosterInv, MembersAreEligible, Members, Entitled
  <1>16. OwnerIsCurator'
    <2> SUFFICES ASSUME NEW s \in Live \cup {t}, s \notin ousted
                 PROVE  owner'[s] \in Users /\ order'[s][owner'[s]] > 0
      BY <1>4, <1>10 DEF OwnerIsCurator, Members
    <2>1. CASE s = t
      <3>1. owner'[s] = u
        BY <1>1, <1>3, <2>1 DEF TypeOK
      <3>2. QED
        <4>1. order'[t][u] = 1
          BY <1>6
        <4>2. 1 > 0
          OBVIOUS
        <4>3. QED
          BY <2>1, <3>1, <4>1, <4>2, Zenon
    <2>2. CASE s # t
      <3>1. s \in Teams /\ owner[s] \in Users /\ order[s][owner[s]] > 0
        BY <2>2 DEF CurInv, OwnerIsCurator, Members, Live
      <3>2. owner'[s] = owner[s]
        BY <1>1, <1>3, <2>2, <3>1 DEF TypeOK
      <3>3. QED
        <4>1. order'[s][owner[s]] = order[s][owner[s]]
          BY <1>6, <2>2, <3>1
        <4>2. QED
          BY <3>1, <3>2, <4>1
    <2>3. QED
      BY <2>1, <2>2
  <1>17. InviteInv'
    <2>1. InviteCounts'
      BY <1>4 DEF CurInv, InviteInv, InviteCounts, InvitingTeams, Pending
    <2>2. InvitesAreAnswerable'
      <3> SUFFICES ASSUME NEW i \in invites
                   PROVE  i[1] \in Live \cup {t} /\ ~(order'[i[1]][i[2]] > 0) /\ Entitled(i[2])
        BY <1>3, <1>4, <1>10, <1>14 DEF InvitesAreAnswerable, Members, Entitled, TypeOK
      <3>1. i[1] \in Teams /\ i[2] \in Users
        <4>1. i \in Teams \X Users
          BY <1>3 DEF TypeOK
        <4>2. QED
          BY <4>1
      <3>2. i[1] \in Live /\ ~(order[i[1]][i[2]] > 0) /\ Entitled(i[2])
        BY <3>1 DEF CurInv, InviteInv, InvitesAreAnswerable, Members, Entitled
      <3>3. QED
        BY <1>6, <1>10, <3>1, <3>2
    <2>3. QED
      BY <2>1, <2>2 DEF InviteInv
  <1>18. NamesAgree'
    <2>1. /\ nameKeys = {<<s[1], name[s]>> : s \in Live}
          /\ \A r, s \in Live : (r[1] = s[1] /\ name[r] = name[s]) => r = s
      BY DEF CurInv, NamesAgree
    <2>2. /\ name'[t] = n
          /\ \A s \in Live : name'[s] = name[s]
      BY <1>1, <1>3, <1>10 DEF TypeOK, Live
    <2>3. nameKeys' = {<<s[1], name'[s]>> : s \in Live \cup {t}}
      <3>1. {<<s[1], name'[s]>> : s \in Live} = nameKeys
        BY <2>1, <2>2
      <3>2. {<<s[1], name'[s]>> : s \in Live \cup {t}} =
              {<<s[1], name'[s]>> : s \in Live} \cup {<<t[1], name'[t]>>}
        OBVIOUS
      <3>3. QED
        BY <1>1, <2>2, <3>1, <3>2 DEF c
    <2>4. \A s \in Live : ~(s[1] = t[1] /\ name[s] = n)
      BY <1>1, <2>1 DEF c
    <2>5. \A r, s \in Live \cup {t} : (r[1] = s[1] /\ name'[r] = name'[s]) => r = s
      BY <2>1, <2>2, <2>4
    <2>6. QED
      BY <1>10, <2>3, <2>5 DEF NamesAgree
  <1>19. BansExist'
    BY <1>1, <1>3, <1>4 DEF CurInv, LensInv, BansExist, TypeOK
  <1>20. PinNotBanned'
    <2> SUFFICES ASSUME NEW v \in Users, NEW d \in Communities,
                        NEW s \in PinnedTeam(pref[v][d], d)'
                 PROVE  <<s, v>> \notin banned
      BY <1>4 DEF PinNotBanned
    <2>1. CASE s = t
      BY <1>1, <2>1 DEF CurInv, LensInv, BansExist
    <2>2. CASE s # t
      <3>1. s = <<d, pref'[v][d].team>> /\ s \in Live /\ pref'[v][d].mode = "pinned"
        BY <1>10, <2>2 DEF PinnedTeam
      <3>2. ~(v = u /\ d = c)
        <4> SUFFICES ASSUME v = u, d = c PROVE FALSE
          OBVIOUS
        <4>1. pref'[v][d].team = t[2]
          BY <1>2, <1>3, <1>5 DEF TypeOK, Pinned
        <4>2. QED
          BY <2>2, <3>1, <4>1 DEF c, Teams
      <3>3. pref'[v][d] = pref[v][d]
        BY <1>2, <1>3, <1>5, <3>2 DEF TypeOK
      <3>4. s \in PinnedTeam(pref[v][d], d)
        BY <3>1, <3>3 DEF PinnedTeam
      <3>5. QED
        BY <3>4 DEF CurInv, LensInv, PinNotBanned
    <2>3. QED
      BY <2>1, <2>2
  <1>21. QED
    BY <1>6, <1>8, <1>11, <1>13, <1>15, <1>16, <1>17, <1>18, <1>19, <1>20
       DEF CurInv, RosterInv, LensInv

-----------------------------------------------------------------------------
(***************************************************************************)
(* Teams: owners, and the steps of teams together.                         *)
(***************************************************************************)
\* The team passes to one of its curators, also after governance ousted its owner.
LEMMA OwnerKeeps ==
  ASSUME CurInv, NEW t \in Teams, NEW u \in Users, SetCurationTeamOwner(t, u)
  PROVE  CurInv'
  <1>1. /\ UNCHANGED <<profiles, paid, admins, teamState, name, nextOrder, nameKeys, subs>>
        /\ UNCHANGED <<order, memberOf, memberCount, invites, inviteCount, pref, joinCount>>
        /\ UNCHANGED <<banned, maxCurators, halted, miscounted, forgotten>>
    BY DEF SetCurationTeamOwner, eligibility, roster, inviteVars, joinVars
  <1>2. u \in Members(t) /\ owner' = [owner EXCEPT ![t] = u] /\ ousted' = ousted \ {t}
    BY DEF SetCurationTeamOwner
  <1>3. TypeOK
    BY DEF CurInv
  <1>4. TypeOK'
    <2>1. owner' \in [Teams -> Users \cup {Nobody}]
      BY <1>2, <1>3 DEF TypeOK
    <2>2. ousted' \subseteq Teams
      BY <1>2, <1>3 DEF TypeOK
    <2>3. QED
      BY <1>1, <1>3, <2>1, <2>2 DEF TypeOK
  <1>5. OwnerIsCurator'
    <2> SUFFICES ASSUME NEW s \in Live, s \notin ousted'
                 PROVE  owner'[s] \in Members(s)
      BY <1>1 DEF OwnerIsCurator, Members, Live
    <2>1. CASE s = t
      BY <1>2, <1>3, <2>1 DEF TypeOK
    <2>2. CASE s # t
      <3>1. owner[s] \in Members(s)
        BY <1>2, <2>2 DEF CurInv, OwnerIsCurator
      <3>2. owner'[s] = owner[s]
        BY <1>2, <1>3, <2>2 DEF TypeOK, Live
      <3>3. QED
        BY <3>1, <3>2
    <2>3. QED
      BY <2>1, <2>2
  <1>6. RosterInv' /\ NamesAgree'
    <2>1. RosterInv'
      BY <1>1, RosterFrame DEF CurInv
    <2>2. NamesAgree'
      BY <1>1 DEF CurInv, NamesAgree, Live
    <2>3. QED
      BY <2>1, <2>2
  <1>7. InviteInv'
    BY <1>1 DEF CurInv, InviteInv, InviteCounts, InvitingTeams, Pending,
                InvitesAreAnswerable, Members, Live, CanCurate
  <1>8. LensInv'
    BY <1>1 DEF CurInv, LensInv, JoinCounts, JoinedIn, Joined, PinNotBanned, PinnedTeam,
                BansExist, Live
  <1>9. QED
    BY <1>4, <1>5, <1>6, <1>7, <1>8 DEF CurInv

\* Every message about a team keeps the invariant.
LEMMA TeamStepKeeps == CurInv /\ TeamStep => CurInv'
  <1> SUFFICES ASSUME CurInv, NEW t \in Teams,
                      \/ DeleteCurationTeam(t)
                      \/ \E n \in Names : SetCurationTeamProfile(t, n)
                      \/ \E u \in Users :
                            \/ \E n \in Names : CreateCurationTeam(u, t, n)
                            \/ InviteCurator(t, u)
                            \/ ClearInvite(t, u)
                            \/ AcceptCuratorInvite(t, u)
                            \/ GovAddCurator(t, u)
                            \/ GovRemoveCurator(t, u)
                            \/ LeaveCurationTeam(t, u)
                            \/ RemoveCurator(t, u)
                            \/ SetCurationTeamOwner(t, u)
                            \/ \E a \in Users : BanUser(a, t, u) \/ UnbanUser(a, t, u)
               PROVE  CurInv'
    BY DEF TeamStep
  <1>1. CASE DeleteCurationTeam(t)
    BY <1>1, DeleteTeamKeeps
  <1>2. CASE \E n \in Names : SetCurationTeamProfile(t, n)
    BY <1>2, ProfileKeeps
  <1>3. ASSUME NEW u \in Users, NEW n \in Names, CreateCurationTeam(u, t, n)
        PROVE  CurInv'
    BY <1>3, CreateKeeps
  <1>4. ASSUME NEW u \in Users, InviteCurator(t, u) \/ ClearInvite(t, u)
        PROVE  CurInv'
    BY <1>4, InvitationKeeps
  <1>5. ASSUME NEW u \in Users, AcceptCuratorInvite(t, u)
        PROVE  CurInv'
    <2>1. TypeOK /\ InviteCounts
      BY DEF CurInv, InviteInv
    <2>2. /\ MayEnroll(t, u) /\ Enroll(t, u) /\ ClearInvites({<<t, u>>})
          /\ UNCHANGED <<eligibility, teamState, owner, name, nameKeys, subs, banned,
                         maxCurators, halted, history>>
      BY <1>5 DEF AcceptCuratorInvite
    <2>3. /\ invites' = invites \ {<<t, u>>}
          /\ inviteCount' \in [Users -> Nat]
          /\ InviteCounts'
      BY <2>1, <2>2, ClearEffect
    <2>4. invites' \subseteq invites /\ <<t, u>> \notin invites'
      BY <2>3
    <2>5. QED
      BY <2>2, <2>3, <2>4, EnrollKeeps, Zenon
  <1>6. ASSUME NEW u \in Users, GovAddCurator(t, u)
        PROVE  CurInv'
    <2>1. /\ MayEnroll(t, u) /\ Enroll(t, u)
          /\ UNCHANGED <<eligibility, teamState, owner, name, nameKeys, subs, banned,
                         maxCurators, halted, history>>
          /\ <<t, u>> \notin invites
          /\ UNCHANGED <<invites, inviteCount>>
      BY <1>6 DEF GovAddCurator, MayInvite, inviteVars
    <2>2. inviteCount' \in [Users -> Nat] /\ InviteCounts'
      <3>1. inviteCount' \in [Users -> Nat]
        BY <2>1 DEF CurInv, TypeOK
      <3>2. InviteCounts'
        BY <2>1 DEF CurInv, InviteInv, InviteCounts, InvitingTeams, Pending
      <3>3. QED
        BY <3>1, <3>2
    <2>3. invites' \subseteq invites /\ <<t, u>> \notin invites'
      BY <2>1
    <2>4. QED
      BY <2>1, <2>2, <2>3, EnrollKeeps
  <1>7. ASSUME NEW u \in Users,
               GovRemoveCurator(t, u) \/ LeaveCurationTeam(t, u) \/ RemoveCurator(t, u)
        PROVE  CurInv'
    <2>1. /\ RemoveCuratorFromTeam(t, u)
          /\ ousted' \in {ousted, ousted \cup {t}}
          /\ owner[t] = u => t \in ousted'
      BY <1>7 DEF GovRemoveCurator, LeaveCurationTeam, RemoveCurator
    <2>2. QED
      BY <2>1, RemoveCuratorKeeps
  <1>8. ASSUME NEW u \in Users, SetCurationTeamOwner(t, u)
        PROVE  CurInv'
    BY <1>8, OwnerKeeps
  <1>9. ASSUME NEW u \in Users, NEW a \in Users, BanUser(a, t, u)
        PROVE  CurInv'
    BY <1>9, BanKeeps
  <1>10. ASSUME NEW u \in Users, NEW a \in Users, UnbanUser(a, t, u)
        PROVE  CurInv'
    <2>1. /\ banned' \subseteq banned
          /\ UNCHANGED <<eligibility, teamVars, subs, roster, inviteVars, joinVars,
                         maxCurators, halted, history>>
      BY <1>10 DEF UnbanUser
    <2>2. banned' \subseteq Teams \X Users
      BY <2>1 DEF CurInv, TypeOK
    <2>3. BansExist'
      BY <2>1, Zenon DEF CurInv, LensInv, BansExist, teamVars
    <2>4. PinNotBanned'
      BY <2>1 DEF CurInv, LensInv, PinNotBanned, PinnedTeam, Live, teamVars, joinVars
    <2>5. QED
      BY <2>1, <2>2, <2>3, <2>4, BansFrame
  <1>11. QED
    BY <1>1, <1>2, <1>3, <1>4, <1>5, <1>6, <1>7, <1>8, <1>9, <1>10

\* So does a change of the parameters: nothing in the invariant is about the cap.
LEMMA ParamsKeep ==
  ASSUME CurInv, maxCurators' \in TeamCaps,
         UNCHANGED <<eligibility, teamVars, subs, roster, inviteVars, joinVars, banned,
                     halted, history>>
  PROVE  CurInv'
  <1>1. TypeOK'
    BY DEF CurInv, TypeOK, eligibility, teamVars, roster, inviteVars, joinVars, history
  <1>2. \A v \in Users : Entitled(v) => Entitled(v)'
    BY EntitledFrame DEF history
  <1>3. RosterInv' /\ OwnerIsCurator' /\ InviteInv' /\ NamesAgree'
    BY <1>2, TeamsFrame DEF history
  <1>4. TypeOK /\ LensInv
    BY DEF CurInv
  <1>5. LensInv'
    BY <1>4, LensFrame DEF teamVars
  <1>6. QED
    BY <1>1, <1>3, <1>5 DEF CurInv

-----------------------------------------------------------------------------
(***************************************************************************)
(* The theorems.                                                           *)
(***************************************************************************)
\* The chain starts without profiles, teams, preferences and bans.
LEMMA InitKeeps == Init => CurInv
  <1> SUFFICES ASSUME Init PROVE CurInv
    OBVIOUS
  <1>1. TypeOK
    <2>1. NotJoined \in Pref
      BY CurationAssumption DEF NotJoined, Pref
    <2>2. nextOrder \in [Teams -> Nat \ {0}]
      <3>1. 1 \in Nat \ {0}
        OBVIOUS
      <3>2. QED
        BY <3>1 DEF Init
    <2>3. memberOf \in [Users -> [Communities -> 0..MaxTeams]]
      <3>1. 0 \in 0..MaxTeams
        BY CurationAssumption
      <3>2. QED
        BY <3>1 DEF Init
    <2>4. pref \in [Users -> [Communities -> Pref]]
      BY <2>1 DEF Init
    <2>5. QED
      BY <2>2, <2>3, <2>4, CurationAssumption DEF TypeOK, Init
  <1>2. \A t \in Teams, u \in Users : order[t][u] = 0
    BY DEF Init
  <1>3. Live = {} /\ \A t \in Teams : Members(t) = {} /\ Pending(t) = {}
    <2>1. Live = {}
      BY DEF Live, Init
    <2>2. \A t \in Teams : Members(t) = {}
      BY <1>2 DEF Members
    <2>3. \A t \in Teams : Pending(t) = {}
      BY DEF Pending, Init
    <2>4. QED
      BY <2>1, <2>2, <2>3
  <1>4. \A u \in Users, c \in Communities : ~Joined(u, c)
    BY DEF Joined, NotJoined, Init
  <1>5. MembershipAgrees
    <2> SUFFICES ASSUME NEW t \in Teams, NEW u \in Users
                 PROVE  order[t][u] > 0 <=> memberOf[u][t[1]] = t[2]
      BY DEF MembershipAgrees
    <2>1. t[1] \in Communities /\ t[2] \in 1..MaxTeams
      BY DEF Teams
    <2>2. memberOf[u][t[1]] = 0 /\ order[t][u] = 0
      BY <1>2, <2>1 DEF Init
    <2>3. QED
      BY <2>1, <2>2
  <1>6. MemberCounts /\ InviteCounts /\ JoinCounts
    <2> SUFFICES ASSUME NEW u \in Users
                 PROVE  /\ memberCount[u] = Cardinality(MemberTeams(u))
                        /\ inviteCount[u] = Cardinality(InvitingTeams(u))
                        /\ joinCount[u] = Cardinality(JoinedIn(u))
      BY DEF MemberCounts, InviteCounts, JoinCounts
    <2>1. MemberTeams(u) = {} /\ InvitingTeams(u) = {} /\ JoinedIn(u) = {}
      BY <1>3, <1>4 DEF MemberTeams, InvitingTeams, JoinedIn
    <2>2. Cardinality({}) = 0
      BY FS_EmptySet
    <2>3. QED
      BY <2>1, <2>2 DEF Init
  <1>7. OrdersDistinct /\ MembersAreEligible /\ OwnerIsCurator
    BY <1>3 DEF OrdersDistinct, MembersAreEligible, OwnerIsCurator
  <1>8. InvitesAreAnswerable /\ BansExist
    BY DEF InvitesAreAnswerable, BansExist, Init
  <1>9. NamesAgree
    BY <1>3 DEF NamesAgree, Init
  <1>10. PinNotBanned
    BY DEF PinNotBanned, Init
  <1>11. QED
    BY <1>1, <1>5, <1>6, <1>7, <1>8, <1>9, <1>10
       DEF CurInv, RosterInv, InviteInv, LensInv

\* The teams, rosters, invitations, names, joins and bans of the chain agree in
\* every reachable state, for any number of users, communities and teams and for
\* any caps.
THEOREM CurationInvariant == Spec => []CurInv
  <1>1. CurInv /\ [Next]_vars => CurInv'
    <2> SUFFICES ASSUME CurInv, [Next]_vars PROVE CurInv'
      OBVIOUS
    <2>1. CASE AccountStep
      BY <2>1, AccountStepKeeps
    <2>2. CASE LensStep
      BY <2>2, LensStepKeeps
    <2>3. CASE TeamStep
      BY <2>3, TeamStepKeeps
    <2>4. ASSUME NEW cap \in TeamCaps, UpdateParams(cap)
          PROVE  CurInv'
      BY <2>4, ParamsKeep DEF UpdateParams
    <2>5. CASE UNCHANGED vars
      <3>1. maxCurators' \in TeamCaps
        BY <2>5 DEF vars, CurInv, TypeOK
      <3>2. QED
        BY <2>5, <3>1, ParamsKeep DEF vars
    <2>6. QED
      BY <2>1, <2>2, <2>3, <2>4, <2>5 DEF Next
  <1>2. QED
    BY <1>1, InitKeeps, PTL DEF Spec

\* Type correctness: in particular no counter of a team or an account goes below
\* zero.
THEOREM CurationTypeCorrect == Spec => []TypeOK
  <1>1. CurInv => TypeOK
    BY DEF CurInv
  <1>2. QED
    BY <1>1, CurationInvariant, PTL

\* The roster of a team and the membership index of its curators agree.
THEOREM RostersAgree == Spec => []MembershipAgrees
  <1>1. CurInv => MembershipAgrees
    BY DEF CurInv, RosterInv
  <1>2. QED
    BY <1>1, CurationInvariant, PTL

\* The membership, invitation and join counters that the caps are checked
\* against equal the number of keys they count.
THEOREM CountersAreExact == Spec => []CountsAgree
  <1>1. CurInv => CountsAgree
    BY Zenon DEF CurInv, RosterInv, InviteInv, LensInv, MemberCounts, InviteCounts, JoinCounts,
           MemberTeams, InvitingTeams, JoinedIn, CountsAgree
  <1>2. QED
    BY <1>1, CurationInvariant, PTL

\* A live team is owned by one of its curators unless governance took the owner
\* off the roster.
THEOREM OwnersCurate == Spec => []OwnerIsCurator
  <1>1. CurInv => OwnerIsCurator
    BY DEF CurInv
  <1>2. QED
    BY <1>1, CurationInvariant, PTL

\* A pending invitation can be answered: its team is live and its invitee is
\* eligible and not yet on the team.
THEOREM InvitationsStand == Spec => []InvitesAreAnswerable
  <1>1. CurInv => InvitesAreAnswerable
    BY DEF CurInv, InviteInv
  <1>2. QED
    BY <1>1, CurationInvariant, PTL

\* Nobody pins a live team that banned them.
THEOREM PinsRespectBans == Spec => []PinNotBanned
  <1>1. CurInv => PinNotBanned
    BY DEF CurInv, LensInv
  <1>2. QED
    BY <1>1, CurationInvariant, PTL

\* Losing eligibility leaves no membership behind, no two curators of a team
\* accepted at the same order, and the name keys are the names of live teams.
THEOREM RostersAreSound == Spec => [](MembersAreEligible /\ OrdersDistinct /\ NamesAgree)
  <1>1. CurInv => MembersAreEligible /\ OrdersDistinct /\ NamesAgree
    BY DEF CurInv, RosterInv
  <1>2. QED
    BY <1>1, CurationInvariant, PTL

\* No order is above itself: an account without an order is on no roster.
LEMMA NoneAbove == ~(0 > 0)
  OBVIOUS

-----------------------------------------------------------------------------
(***************************************************************************)
(* The subscriber counts.  They are kept up to date by differences, so the *)
(* invariant covers teams that do not exist yet: a pin never names one.    *)
(***************************************************************************)
\* u pins team t.
Reads(u, t) == pref[u][t[1]].mode = "pinned" /\ pref[u][t[1]].team = t[2]

PinsExist ==
    \A u \in Users, c \in Communities : pref[u][c].mode = "pinned" =>
        <<c, pref[u][c].team>> \in Teams /\ teamState[<<c, pref[u][c].team>>] # "none"
SubsExact ==
    (~miscounted /\ forgotten = {}) =>
        \A t \in Teams : teamState[t] # "deleted" => subs[t] = Cardinality(Subscribers(t))
SubsInv == PinsExist /\ SubsExact

\* The team a preference counts for, the teams a user counts for and the users
\* that count for a team.
LEMMA PinnedTeamOf ==
  ASSUME NEW p, NEW c \in Communities, NEW t \in Teams
  PROVE  /\ t \in PinnedTeam(p, c) <=>
              t \in Live /\ t[1] = c /\ p.mode = "pinned" /\ p.team = t[2]
         /\ PinnedTeam(p, c) \subseteq Live
  <1>1. t = <<t[1], t[2]>> /\ t[1] \in Communities
    BY DEF Teams
  <1>2. t = <<c, p.team>> <=> t[1] = c /\ t[2] = p.team
    BY <1>1
  <1>3. QED
    BY <1>2 DEF PinnedTeam

\* Preference p of community c counts for team t.
PinNames(p, c, t) == t \in Live /\ t[1] = c /\ p.mode = "pinned" /\ p.team = t[2]

\* PinnedTeam is what PinNames says.
LEMMA PinnedTeamIs ==
  ASSUME NEW p, NEW c \in Communities, NEW t \in Teams
  PROVE  t \in PinnedTeam(p, c) <=> PinNames(p, c, t)
  BY PinnedTeamOf DEF PinNames

\* The teams whose count includes u.
LEMMA PinsOf ==
  ASSUME NEW u \in Users, NEW t \in Teams
  PROVE  t \in Pins(u) <=> t \in Live /\ Reads(u, t)
  <1>1. t[1] \in Communities
    BY DEF Teams
  <1>2. t \in Pins(u) <=> \E c \in Communities : t \in PinnedTeam(pref[u][c], c)
    BY Zenon DEF Pins
  <1>3. \A c \in Communities : t \in PinnedTeam(pref[u][c], c) <=>
            t \in Live /\ t[1] = c /\ pref[u][c].mode = "pinned" /\ pref[u][c].team = t[2]
    BY PinnedTeamOf
  <1>4. QED
    BY <1>1, <1>2, <1>3, Zenon DEF Reads

\* The subscribers of a team.
LEMMA SubscribersOf ==
  ASSUME NEW u \in Users, NEW t \in Teams
  PROVE  u \in Subscribers(t) <=> CanCurate(u) /\ t \in Live /\ Reads(u, t)
  BY PinsOf, Zenon DEF Subscribers

\* The same in the next state.
LEMMA SubscribersNext ==
  ASSUME NEW u \in Users, NEW t \in Teams
  PROVE  u \in Subscribers(t)' <=> CanCurate(u)' /\ t \in Live' /\ Reads(u, t)'
  <1>1. t = <<t[1], t[2]>> /\ t[1] \in Communities
    BY DEF Teams
  <1>2. u \in Subscribers(t)' <=>
          CanCurate(u)' /\ \E c \in Communities : t \in PinnedTeam(pref[u][c], c)'
    BY Zenon DEF Subscribers, Pins
  <1>3. ASSUME NEW c \in Communities
        PROVE  t \in PinnedTeam(pref[u][c], c)' <=>
                 t \in Live' /\ t[1] = c /\ pref'[u][c].mode = "pinned" /\ pref'[u][c].team = t[2]
    <2>1. t = <<c, pref'[u][c].team>> <=> t[1] = c /\ t[2] = pref'[u][c].team
      BY <1>1
    <2>2. QED
      BY <2>1 DEF PinnedTeam
  <1>4. QED
    BY <1>1, <1>2, <1>3, Zenon DEF Reads

\* A set that differs from another by at most the element u.
LEMMA OneDiffers ==
  ASSUME NEW S, IsFiniteSet(S), NEW T, NEW u, \A v : v # u => (v \in T <=> v \in S)
  PROVE  /\ Cardinality(S) \in Nat
         /\ Cardinality(T) = (Cardinality(S) - (IF u \in S THEN 1 ELSE 0))
                              + (IF u \in T THEN 1 ELSE 0)
  <1>1. Cardinality(S) \in Nat
    BY FS_CardinalityType
  <1>2. CASE u \in S /\ u \in T
    <2>1. S = T
      BY <1>2
    <2>2. QED
      BY <1>1, <1>2, <2>1
  <1>3. CASE u \notin S /\ u \notin T
    <2>1. S = T
      BY <1>3
    <2>2. QED
      BY <1>1, <1>3, <2>1
  <1>4. CASE u \in S /\ u \notin T
    <2>1. T = S \ {u}
      BY <1>4
    <2>2. Cardinality(T) = Cardinality(S) - 1
      BY <1>4, <2>1, FS_RemoveElement
    <2>3. QED
      BY <1>1, <1>4, <2>2
  <1>5. CASE u \notin S /\ u \in T
    <2>1. T = S \cup {u}
      BY <1>5
    <2>2. Cardinality(T) = Cardinality(S) + 1
      BY <1>5, <2>1, FS_AddElement
    <2>3. QED
      BY <1>1, <1>5, <2>2
  <1>6. QED
    BY <1>2, <1>3, <1>4, <1>5, Zenon

\* How much u adds to the count of t.
Weight(u, t) == IF u \in Subscribers(t) THEN 1 ELSE 0

\* Taking one off a count and putting it on again.
LEMMA OneOffOn ==
  ASSUME NEW n \in Nat
  PROVE  (n - 0) + 0 = n /\ (n - 1) + 1 = n /\ (n - 1) + 1 = (n - 0) + 0
  OBVIOUS

\* The counts stay exact when one user's pins or right to curate change and the
\* counts follow.
LEMMA CountFollows ==
  ASSUME SubsExact, NEW u \in Users, miscounted => miscounted', forgotten \subseteq forgotten',
         \A t \in Teams : teamState'[t] # "deleted" =>
             /\ teamState[t] # "deleted"
             /\ \A v \in Users \ {u} : v \in Subscribers(t)' <=> v \in Subscribers(t)
             /\ ~miscounted' /\ forgotten' = {} =>
                   subs'[t] = (subs[t] - Weight(u, t)) + Weight(u, t)'
  PROVE  SubsExact'
  <1> SUFFICES ASSUME ~miscounted', forgotten' = {}, NEW t \in Teams, teamState'[t] # "deleted"
               PROVE  subs'[t] = Cardinality(Subscribers(t)')
    BY Zenon DEF SubsExact
  <1>1. ~miscounted /\ forgotten = {}
    OBVIOUS
  <1>2. /\ subs[t] = Cardinality(Subscribers(t))
        /\ subs'[t] = (subs[t] - Weight(u, t)) + Weight(u, t)'
    BY <1>1, Zenon DEF SubsExact
  <1> DEFINE S == Subscribers(t)
             T == Subscribers(t)'
  <1>3. IsFiniteSet(S)
    <2>1. S \subseteq Users
      BY DEF Subscribers
    <2>2. QED
      BY <2>1, FS_Subset, CurationAssumption
  <1>4. \A v : v # u => (v \in T <=> v \in S)
    <2>1. S \subseteq Users /\ T \subseteq Users
      BY DEF Subscribers
    <2>2. QED
      BY <2>1
  <1>5. /\ Weight(u, t) = IF u \in S THEN 1 ELSE 0
        /\ Weight(u, t)' = IF u \in T THEN 1 ELSE 0
    BY Zenon DEF Weight
  <1> HIDE DEF S, T
  <1>6. Cardinality(T) = (Cardinality(S) - (IF u \in S THEN 1 ELSE 0)) + (IF u \in T THEN 1 ELSE 0)
    BY <1>3, <1>4, OneDiffers
  <1>7. QED
    BY <1>2, <1>5, <1>6, Zenon DEF S, T

\* A step that changes neither teams, pins nor the right to curate.
LEMMA SubsFrame ==
  ASSUME SubsExact, UNCHANGED <<teamState, subs>>, miscounted => miscounted',
         forgotten \subseteq forgotten',
         \A v \in Users : CanCurate(v)' <=> CanCurate(v),
         \A v \in Users, t \in Teams : Reads(v, t)' <=> Reads(v, t)
  PROVE  SubsExact'
  <1> SUFFICES ASSUME ~miscounted', forgotten' = {}, NEW t \in Teams, teamState'[t] # "deleted"
               PROVE  subs'[t] = Cardinality(Subscribers(t)')
    BY Zenon DEF SubsExact
  <1>1. ~miscounted /\ forgotten = {}
    OBVIOUS
  <1>2. subs'[t] = Cardinality(Subscribers(t))
    BY <1>1, Zenon DEF SubsExact
  <1>3. Live' = Live
    BY Zenon DEF Live
  <1>4. \A v \in Users : v \in Subscribers(t)' <=> v \in Subscribers(t)
    BY <1>3, SubscribersOf, SubscribersNext
  <1>5. Subscribers(t)' = Subscribers(t)
    BY <1>4, Zenon DEF Subscribers
  <1>6. QED
    BY <1>2, <1>5, Zenon

\* Teams that a pin names do not cease to exist.
LEMMA PinsFrame ==
  ASSUME PinsExist, UNCHANGED pref,
         \A t \in Teams : teamState'[t] = "none" => teamState[t] = "none"
  PROVE  PinsExist'
  BY Zenon DEF PinsExist

\* Steps that change nothing the counts are about.
LEMMA CountsUntouched ==
  ASSUME SubsInv, UNCHANGED <<teamState, subs, pref, miscounted>>, forgotten \subseteq forgotten',
         forgotten' = {} => \A v \in Users : CanCurate(v)' <=> CanCurate(v)
  PROVE  SubsInv'
  <1>1. PinsExist'
    BY PinsFrame, Zenon DEF SubsInv
  <1>2. CASE forgotten' = {}
    <2>1. \A v \in Users, t \in Teams : Reads(v, t)' <=> Reads(v, t)
      BY Zenon DEF Reads
    <2>2. SubsExact'
      BY <1>2, <2>1, SubsFrame, Zenon DEF SubsInv
    <2>3. QED
      BY <1>1, <2>2, Zenon DEF SubsInv
  <1>3. CASE forgotten' # {}
    BY <1>1, <1>3, Zenon DEF SubsInv, SubsExact
  <1>4. QED
    BY <1>2, <1>3, Zenon

\* TransitionCurationEligibility of an account that may curate now counts its pins.
LEMMA GainCounts ==
  ASSUME CurInv, SubsInv, NEW u \in Users, GainEligibility(u), ~CanCurate(u), CanCurate(u)',
         \A v \in Users \ {u} : CanCurate(v)' <=> CanCurate(v)
  PROVE  SubsInv'
  <1>1. /\ subs' = Moved({}, Pins(u))
        /\ UNCHANGED <<teamState, pref, miscounted, forgotten>>
    BY DEF GainEligibility, teamVars, joinVars, history
  <1>2. PinsExist'
    BY <1>1, PinsFrame, Zenon DEF SubsInv
  <1>3. Live' = Live /\ \A v \in Users, t \in Teams : Reads(v, t)' <=> Reads(v, t)
    BY <1>1, Zenon DEF Live, Reads
  <1>4. ASSUME NEW t \in Teams
        PROVE  /\ \A v \in Users \ {u} : v \in Subscribers(t)' <=> v \in Subscribers(t)
               /\ subs'[t] = (subs[t] - Weight(u, t)) + Weight(u, t)'
    <2>1. \A v \in Users \ {u} : v \in Subscribers(t)' <=> v \in Subscribers(t)
      BY <1>3, SubscribersOf, SubscribersNext
    <2>2. Weight(u, t) = 0 /\ Weight(u, t)' = IF t \in Pins(u) THEN 1 ELSE 0
      <3>1. u \notin Subscribers(t)
        BY SubscribersOf
      <3>2. u \in Subscribers(t)' <=> t \in Pins(u)
        BY <1>3, PinsOf, SubscribersNext
      <3>3. QED
        BY <3>1, <3>2, Zenon DEF Weight
    <2>3. subs[t] \in Nat
      BY Zenon DEF CurInv, TypeOK
    <2>4. subs'[t] = (subs[t] - 0) + (IF t \in Pins(u) THEN 1 ELSE 0)
      BY <1>1, Zenon DEF Moved
    <2>5. QED
      BY <2>1, <2>2, <2>4, Zenon
  <1>5. SubsExact'
    BY <1>1, <1>4, CountFollows DEF SubsInv
  <1>6. QED
    BY <1>2, <1>5, Zenon DEF SubsInv

\* removeCurationMembership takes a user off the counts of the teams that stay.
LEMMA DepartCounts ==
  ASSUME CurInv, SubsExact, NEW u \in Users, NEW S \in SUBSET Curates(u), NEW minus, NEW lost,
         Depart(u, S, minus, lost), minus \subseteq Live,
         miscounted => miscounted', forgotten \subseteq forgotten',
         \A v \in Users \ {u} : CanCurate(v)' <=> CanCurate(v),
         \A v \in Users \ {u}, t \in Teams : Reads(v, t)' <=> Reads(v, t),
         ~miscounted' => \A t \in Live \ Gone(u, S) :
             /\ t \in minus <=> u \in Subscribers(t) /\ ~(CanCurate(u)' /\ Reads(u, t)')
             /\ CanCurate(u)' /\ Reads(u, t)' => u \in Subscribers(t)
  PROVE  SubsExact'
  <1> DEFINE gone == Gone(u, S)
  <1>1. /\ teamState' = [t \in Teams |-> IF t \in gone THEN "deleted" ELSE teamState[t]]
        /\ subs' = [t \in Teams |-> IF t \in gone THEN 0 ELSE Moved(minus, {})[t]]
    BY Zenon DEF Depart, Dissolve
  <1> HIDE DEF gone
  <1>2. ASSUME NEW t \in Teams, teamState'[t] # "deleted"
        PROVE  /\ teamState[t] # "deleted"
               /\ \A v \in Users \ {u} : v \in Subscribers(t)' <=> v \in Subscribers(t)
               /\ ~miscounted' /\ forgotten' = {} =>
                     subs'[t] = (subs[t] - Weight(u, t)) + Weight(u, t)'
    <2>1. t \notin gone /\ teamState'[t] = teamState[t]
      BY <1>1, <1>2, Zenon
    <2>2. t \in Live' <=> t \in Live
      BY <2>1, Zenon DEF Live
    <2>3. \A v \in Users \ {u} : v \in Subscribers(t)' <=> v \in Subscribers(t)
      BY <2>2, SubscribersOf, SubscribersNext
    <2>4. subs'[t] = (subs[t] - (IF t \in minus THEN 1 ELSE 0)) + 0 /\ subs[t] \in Nat
      <3>1. t \notin {}
        OBVIOUS
      <3>2. Moved(minus, {})[t] = (subs[t] - (IF t \in minus THEN 1 ELSE 0)) + 0
        BY <3>1, Zenon DEF Moved
      <3>3. QED
        BY <1>1, <2>1, <3>2, Zenon DEF CurInv, TypeOK
    <2>5. ASSUME ~miscounted'
          PROVE  subs'[t] = (subs[t] - Weight(u, t)) + Weight(u, t)'
      <3>1. u \in Subscribers(t)' <=> CanCurate(u)' /\ t \in Live /\ Reads(u, t)'
        BY <2>2, SubscribersNext
      <3>2. /\ t \in minus <=> u \in Subscribers(t) /\ u \notin Subscribers(t)'
            /\ u \in Subscribers(t)' => u \in Subscribers(t)
        <4>1. CASE t \in Live
          BY <2>1, <2>5, <3>1, <4>1, Zenon DEF gone
        <4>2. CASE t \notin Live
          BY <3>1, <4>2, SubscribersOf
        <4>3. QED
          BY <4>1, <4>2, Zenon
      <3>3. QED
        BY <2>4, <3>2, OneOffOn, Zenon DEF Weight
    <2>6. QED
      BY <1>2, <2>1, <2>3, <2>5, Zenon
  <1>3. QED
    BY <1>2, CountFollows

\* TransitionCurationEligibility of an account that may no longer curate.
LEMMA LoseCounts ==
  ASSUME CurInv, SubsInv, NEW u \in Users, LoseEligibility(u), CanCurate(u), ~CanCurate(u)',
         \A v \in Users \ {u} : CanCurate(v)' <=> CanCurate(v)
  PROVE  SubsInv'
  <1>1. /\ Depart(u, Curates(u), Pins(u), InvitesTo(u))
        /\ UNCHANGED <<pref, miscounted, forgotten>>
    BY DEF LoseEligibility, joinVars, history
  <1>2. PinsExist'
    <2>1. \A t \in Teams : teamState'[t] = "none" => teamState[t] = "none"
      BY <1>1 DEF Depart, Dissolve
    <2>2. QED
      BY <1>1, <2>1, PinsFrame, Zenon DEF SubsInv
  <1>3. Pins(u) \subseteq Live
    BY DEF Pins, PinnedTeam
  <1>4. \A v \in Users, t \in Teams : Reads(v, t)' <=> Reads(v, t)
    BY <1>1, Zenon DEF Reads
  <1>5. \A t \in Live : t \in Pins(u) <=> u \in Subscribers(t)
    BY Zenon DEF Subscribers
  <1>6. SubsExact'
    BY <1>1, <1>3, <1>4, <1>5, DepartCounts DEF SubsInv
  <1>7. QED
    BY <1>2, <1>6, Zenon DEF SubsInv

\* The preference of u in c becomes p, and no other changes.
PrefMoves(u, c, p) ==
    /\ pref'[u][c] = p
    /\ \A v \in Users, d \in Communities : v # u \/ d # c => pref'[v][d] = pref[v][d]
    /\ \A v \in Users, t \in Teams : v # u \/ t[1] # c => (Reads(v, t)' <=> Reads(v, t))
    /\ \A t \in Teams : t[1] = c => (Reads(u, t)' <=> p.mode = "pinned" /\ p.team = t[2])

\* What storing one preference changes.
LEMMA PrefChange ==
  ASSUME TypeOK, NEW u \in Users, NEW c \in Communities, NEW p,
         pref' = [pref EXCEPT ![u][c] = p]
  PROVE  PrefMoves(u, c, p)
  <1>1. /\ pref'[u][c] = p
        /\ \A v \in Users, d \in Communities : v # u \/ d # c => pref'[v][d] = pref[v][d]
    BY DEF TypeOK
  <1>2. \A t \in Teams : t[1] \in Communities
    BY DEF Teams
  <1>3. QED
    BY <1>1, <1>2, Zenon DEF Reads, PrefMoves

\* SetCurationPreference moves the count with the pin, or the pin counts as moved
\* without it.
LEMMA MovePinCounts ==
  ASSUME CurInv, SubsInv, NEW u \in Users, NEW c \in Communities, NEW p \in Pref,
         NEW counted \in BOOLEAN, MovePin(u, c, p, counted),
         UNCHANGED <<teamState, forgotten, paid, admins>>,
         p.mode = "pinned" => <<c, p.team>> \in Live
  PROVE  SubsInv'
  <1> DEFINE minus == PinnedTeam(pref[u][c], c)
             plus == PinnedTeam(p, c)
  <1>1. /\ pref' = [pref EXCEPT ![u][c] = p]
        /\ (counted /\ subs' = Moved(minus, plus)) \/ (~counted /\ subs' = subs)
        /\ miscounted' = (miscounted \/ (counted # CanCurate(u) /\ minus # plus))
    BY Zenon DEF MovePin
  <1>2. TypeOK
    BY Zenon DEF CurInv
  <1>3. /\ pref'[u][c] = p
        /\ \A v \in Users, d \in Communities : v # u \/ d # c => pref'[v][d] = pref[v][d]
        /\ \A v \in Users, t \in Teams : v # u \/ t[1] # c => (Reads(v, t)' <=> Reads(v, t))
        /\ \A t \in Teams : t[1] = c => (Reads(u, t)' <=> p.mode = "pinned" /\ p.team = t[2])
    <2>1. PrefMoves(u, c, p)
      BY <1>1, <1>2, PrefChange
    <2>2. QED
      BY <2>1, Zenon DEF PrefMoves
  <1>4. PinsExist'
    <2> SUFFICES ASSUME NEW v \in Users, NEW d \in Communities, pref'[v][d].mode = "pinned"
                 PROVE  /\ <<d, pref'[v][d].team>> \in Teams
                        /\ teamState[<<d, pref'[v][d].team>>] # "none"
      BY Zenon DEF PinsExist
    <2>1. CASE v = u /\ d = c
      BY <1>3, <2>1 DEF Live
    <2>2. CASE v # u \/ d # c
      BY <1>3, <2>2, Zenon DEF SubsInv, PinsExist
    <2>3. QED
      BY <2>1, <2>2, Zenon
  <1>5. Live' = Live /\ \A v \in Users : CanCurate(v)' <=> CanCurate(v)
    BY Zenon DEF Live, CanCurate
  <1>6. ASSUME NEW t \in Teams
        PROVE  /\ t \in minus <=> t \in Live /\ t[1] = c /\ Reads(u, t)
               /\ t \in plus <=> t \in Live /\ t[1] = c /\ Reads(u, t)'
    <2>1. t \in minus <=> PinNames(pref[u][c], c, t)
      BY PinnedTeamIs
    <2>2. t \in plus <=> PinNames(p, c, t)
      BY PinnedTeamIs
    <2>3. QED
      BY <1>3, <2>1, <2>2, Zenon DEF Reads, PinNames
  <1> HIDE DEF minus, plus
  <1>7. ASSUME NEW t \in Teams
        PROVE  /\ \A v \in Users \ {u} : v \in Subscribers(t)' <=> v \in Subscribers(t)
               /\ ~miscounted' => subs'[t] = (subs[t] - Weight(u, t)) + Weight(u, t)'
    <2>1. \A v \in Users \ {u} : v \in Subscribers(t)' <=> v \in Subscribers(t)
      BY <1>3, <1>5, SubscribersOf, SubscribersNext
    <2>2. /\ u \in Subscribers(t) <=> CanCurate(u) /\ t \in Live /\ Reads(u, t)
          /\ u \in Subscribers(t)' <=> CanCurate(u) /\ t \in Live /\ Reads(u, t)'
      BY <1>5, SubscribersOf, SubscribersNext
    <2>3. /\ subs[t] \in Nat
          /\ counted => subs'[t] = (subs[t] - (IF t \in minus THEN 1 ELSE 0))
                                    + (IF t \in plus THEN 1 ELSE 0)
          /\ ~counted => subs'[t] = subs[t]
      BY <1>1, <1>2, Zenon DEF Moved, TypeOK
    <2>4. ASSUME ~miscounted'
          PROVE  subs'[t] = (subs[t] - Weight(u, t)) + Weight(u, t)'
      <3>1. CASE t[1] # c
        <4>1. t \notin minus /\ t \notin plus /\ (u \in Subscribers(t)' <=> u \in Subscribers(t))
          BY <1>3, <1>6, <2>2, <3>1
        <4>2. QED
          BY <2>3, <4>1, OneOffOn, Zenon DEF Weight
      <3>2. CASE t[1] = c
        <4>1. /\ u \in Subscribers(t) <=> CanCurate(u) /\ t \in minus
              /\ u \in Subscribers(t)' <=> CanCurate(u) /\ t \in plus
          BY <1>6, <2>2, <3>2, Zenon
        <4>2. counted = CanCurate(u) \/ minus = plus
          BY <1>1, <2>4, Zenon
        <4>3. CASE counted = CanCurate(u)
          <5>1. /\ u \in Subscribers(t) <=> counted /\ t \in minus
                /\ u \in Subscribers(t)' <=> counted /\ t \in plus
            BY <4>1, <4>3, Zenon
          <5>2. QED
            BY <2>3, <5>1, OneOffOn, Zenon DEF Weight
        <4>4. CASE minus = plus
          <5>1. /\ u \in Subscribers(t)' <=> u \in Subscribers(t)
                /\ t \in plus <=> t \in minus
            BY <4>1, <4>4, Zenon
          <5>2. QED
            BY <2>3, <5>1, OneOffOn, Zenon DEF Weight
        <4>5. QED
          BY <4>2, <4>3, <4>4, Zenon
      <3>3. QED
        BY <3>1, <3>2, Zenon
    <2>5. QED
      BY <2>1, <2>4, Zenon
  <1>8. SubsExact'
    BY <1>1, <1>7, CountFollows DEF SubsInv
  <1>9. QED
    BY <1>4, <1>8, Zenon DEF SubsInv

\* LeaveCommunity takes a paying user off the count of the pinned team; an admin
\* who does not pay counts as moved without the count.
LEMMA LeaveCounts ==
  ASSUME CurInv, SubsInv, NEW u \in Users, NEW c \in Communities, LeaveCommunity(u, c)
  PROVE  SubsInv'
  <1> DEFINE S == {t \in Curates(u) : t[1] = c}
             pin == PinnedTeam(pref[u][c], c) \ Gone(u, S)
             minus == IF u \in paid THEN pin ELSE {}
  <1>1. /\ Depart(u, S, minus, {}) /\ pref' = [pref EXCEPT ![u][c] = NotJoined]
        /\ miscounted' = (miscounted \/ (CanCurate(u) /\ u \notin paid /\ pin # {}))
        /\ UNCHANGED <<paid, admins, forgotten>>
    BY DEF LeaveCommunity, eligibility
  <1>2. TypeOK /\ NotJoined \in Pref /\ NotJoined.mode = "none" /\ 0 \in 0..MaxTeams
    BY CurationAssumption DEF CurInv, NotJoined, Pref
  <1>3. /\ pref'[u][c] = NotJoined
        /\ \A v \in Users, d \in Communities : v # u \/ d # c => pref'[v][d] = pref[v][d]
        /\ \A v \in Users, t \in Teams : v # u \/ t[1] # c => (Reads(v, t)' <=> Reads(v, t))
        /\ \A t \in Teams : t[1] = c => ~Reads(u, t)'
    <2>1. PrefMoves(u, c, NotJoined)
      BY <1>1, <1>2, PrefChange
    <2>2. NotJoined.mode # "pinned"
      BY <1>2
    <2>3. QED
      BY <2>1, <2>2, Zenon DEF PrefMoves
  <1>4. PinsExist'
    <2>1. \A t \in Teams : teamState'[t] = "none" => teamState[t] = "none"
      BY <1>1 DEF Depart, Dissolve
    <2>2. NotJoined.mode # "pinned"
      BY <1>2
    <2> SUFFICES ASSUME NEW v \in Users, NEW d \in Communities, pref'[v][d].mode = "pinned"
                 PROVE  /\ <<d, pref'[v][d].team>> \in Teams
                        /\ teamState'[<<d, pref'[v][d].team>>] # "none"
      BY Zenon DEF PinsExist
    <2>3. v # u \/ d # c
      BY <1>3, <2>2, Zenon
    <2>4. pref'[v][d] = pref[v][d]
      BY <1>3, <2>3, Zenon
    <2>5. /\ <<d, pref'[v][d].team>> \in Teams
          /\ teamState[<<d, pref'[v][d].team>>] # "none"
      BY <2>4, Zenon DEF SubsInv, PinsExist
    <2>6. QED
      BY <2>1, <2>5, Zenon
  <1>5. \A v \in Users : CanCurate(v)' <=> CanCurate(v)
    BY <1>1, Zenon DEF CanCurate
  <1>6. \A t \in Live : t \in PinnedTeam(pref[u][c], c) <=> t[1] = c /\ Reads(u, t)
    <2> SUFFICES ASSUME NEW t \in Live
                 PROVE  t \in PinnedTeam(pref[u][c], c) <=> t[1] = c /\ Reads(u, t)
      BY Zenon
    <2>1. t \in Teams
      BY DEF Live
    <2>2. t \in PinnedTeam(pref[u][c], c) <=> PinNames(pref[u][c], c, t)
      BY <2>1, PinnedTeamIs
    <2>3. QED
      BY <2>2, Zenon DEF Reads, PinNames
  <1>7. S \in SUBSET Curates(u) /\ minus \subseteq Live
    BY DEF PinnedTeam
  <1>8. ASSUME ~miscounted', NEW t \in Live \ Gone(u, S)
        PROVE  /\ t \in minus <=> u \in Subscribers(t) /\ ~(CanCurate(u)' /\ Reads(u, t)')
               /\ CanCurate(u)' /\ Reads(u, t)' => u \in Subscribers(t)
    <2>1. t \in Teams
      BY DEF Live
    <2>2. u \in Subscribers(t) <=> CanCurate(u) /\ Reads(u, t)
      BY <2>1, SubscribersOf
    <2>3. t \in minus <=> u \in paid /\ t[1] = c /\ Reads(u, t)
      BY <1>6, Zenon
    <2>4. CanCurate(u) /\ t[1] = c /\ Reads(u, t) => u \in paid
      BY <1>1, <1>6, <1>8, Zenon
    <2>5. u \in paid => CanCurate(u)
      BY DEF CanCurate
    <2>6. Reads(u, t)' <=> Reads(u, t) /\ t[1] # c
      BY <1>3, <2>1, Zenon
    <2> HIDE DEF minus
    <2>7. QED
      BY <1>5, <2>2, <2>3, <2>4, <2>5, <2>6, Zenon
  <1> HIDE DEF S, minus
  <1>9. SubsExact'
    BY <1>1, <1>3, <1>5, <1>7, <1>8, DepartCounts DEF SubsInv
  <1>10. QED
    BY <1>4, <1>9, Zenon DEF SubsInv

\* A new team starts with its founder as only subscriber: nobody pinned it before.
LEMMA CreateCounts ==
  ASSUME CurInv, SubsInv, NEW t \in Teams, NEW u \in Users, NEW n \in Names,
         CreateCurationTeam(u, t, n)
  PROVE  SubsInv'
  <1> DEFINE c == t[1]
             old == PinnedTeam(pref[u][c], c)
             p == Pinned(t[2])
  <1>1. /\ teamState[t] = "none" /\ CanCurate(u)
        /\ teamState' = [teamState EXCEPT ![t] = "live"]
        /\ pref' = [pref EXCEPT ![u][c] = p] /\ subs' = Moved(old, {t})
        /\ UNCHANGED <<paid, admins, miscounted, forgotten>>
    BY DEF CreateCurationTeam, eligibility, history
  <1>2. TypeOK /\ c \in Communities /\ t = <<t[1], t[2]>>
        /\ \A s \in Teams : s = <<s[1], s[2]>> /\ s[1] \in Communities
    BY DEF CurInv, Teams
  <1>3. p.mode = "pinned" /\ p.team = t[2]
    BY DEF Pinned
  <1>4. PrefMoves(u, c, p)
    BY <1>1, <1>2, PrefChange
  <1> HIDE DEF p, c
  <1>5. /\ teamState'[t] = "live"
        /\ \A s \in Teams : s # t => teamState'[s] = teamState[s]
    BY <1>1, <1>2 DEF TypeOK
  <1>6. PinsExist'
    <2> SUFFICES ASSUME NEW v \in Users, NEW d \in Communities, pref'[v][d].mode = "pinned"
                 PROVE  /\ <<d, pref'[v][d].team>> \in Teams
                        /\ teamState'[<<d, pref'[v][d].team>>] # "none"
      BY Zenon DEF PinsExist
    <2>1. CASE v = u /\ d = c
      <3>1. <<d, pref'[v][d].team>> = t
        BY <1>2, <1>3, <1>4, <2>1 DEF PrefMoves, c
      <3>2. QED
        BY <1>5, <3>1
    <2>2. CASE v # u \/ d # c
      <3>1. pref'[v][d] = pref[v][d]
        BY <1>4, <2>2, Zenon DEF PrefMoves
      <3>2. /\ <<d, pref'[v][d].team>> \in Teams
            /\ teamState[<<d, pref'[v][d].team>>] # "none"
        BY <3>1, Zenon DEF SubsInv, PinsExist
      <3>3. QED
        BY <1>1, <1>5, <3>2, Zenon
    <2>3. QED
      BY <2>1, <2>2, Zenon
  <1>7. \A v \in Users : CanCurate(v)' <=> CanCurate(v)
    BY <1>1, Zenon DEF CanCurate
  <1>8. /\ t \notin Live /\ t \in Live'
        /\ \A s \in Teams : s # t => (s \in Live' <=> s \in Live)
    BY <1>1, <1>5, Zenon DEF Live
  <1>9. ASSUME NEW s \in Teams
        PROVE  s \in old <=> s \in Live /\ s[1] = c /\ Reads(u, s)
    <2>1. s \in old <=> s \in Live /\ s[1] = c /\ pref[u][c].mode = "pinned"
                                      /\ pref[u][c].team = s[2]
      BY <1>2, PinnedTeamOf
    <2>2. QED
      BY <2>1, Zenon DEF Reads
  <1> HIDE DEF old
  <1>10. ASSUME NEW v \in Users \ {u}
         PROVE  ~Reads(v, t)'
    <2>1. Reads(v, t)' <=> Reads(v, t)
      BY <1>4, Zenon DEF PrefMoves
    <2>2. Reads(v, t) => teamState[<<t[1], t[2]>>] # "none"
      BY <1>2, Zenon DEF SubsInv, PinsExist, Reads, c
    <2>3. QED
      BY <1>1, <1>2, <2>1, <2>2, Zenon
  <1>11. /\ Reads(u, t)'
         /\ \A s \in Teams : s # t => (Reads(u, s)' <=> Reads(u, s) /\ s[1] # c)
    <2>1. Reads(u, t)'
      BY <1>3, <1>4, Zenon DEF PrefMoves, c
    <2>2. ASSUME NEW s \in Teams, s # t, s[1] = c
          PROVE  ~Reads(u, s)'
      <3>1. s[2] # t[2]
        BY <1>2, <2>2, Zenon DEF c
      <3>2. QED
        BY <1>3, <1>4, <2>2, <3>1, Zenon DEF PrefMoves
    <2>3. ASSUME NEW s \in Teams, s[1] # c
          PROVE  Reads(u, s)' <=> Reads(u, s)
      BY <1>4, <2>3, Zenon DEF PrefMoves
    <2>4. QED
      BY <2>1, <2>2, <2>3, Zenon
  <1>12. ASSUME NEW s \in Teams, teamState'[s] # "deleted"
         PROVE  /\ teamState[s] # "deleted"
                /\ \A v \in Users \ {u} : v \in Subscribers(s)' <=> v \in Subscribers(s)
                /\ subs'[s] = (subs[s] - Weight(u, s)) + Weight(u, s)'
    <2>1. /\ subs'[s] = (subs[s] - (IF s \in old THEN 1 ELSE 0)) + (IF s \in {t} THEN 1 ELSE 0)
          /\ subs[s] \in Nat
      BY <1>1, <1>2, Zenon DEF Moved, TypeOK
    <2>2. CASE s = t
      <3>1. \A v \in Users \ {u} : v \notin Subscribers(s)' /\ v \notin Subscribers(s)
        BY <1>8, <1>10, <2>2, SubscribersOf, SubscribersNext
      <3>2. Weight(u, s) = 0 /\ Weight(u, s)' = 1
        BY <1>1, <1>7, <1>8, <1>11, <2>2, SubscribersOf, SubscribersNext DEF Weight
      <3>3. s \notin old /\ s \in {t}
        BY <1>8, <1>9, <2>2
      <3>4. subs'[s] = (subs[s] - 0) + 1
        BY <2>1, <3>3, Zenon
      <3>5. teamState[s] # "deleted"
        BY <1>1, <2>2
      <3>6. QED
        BY <3>1, <3>2, <3>4, <3>5, Zenon
    <2>3. CASE s # t
      <3>1. \A v \in Users \ {u} : v \in Subscribers(s)' <=> v \in Subscribers(s)
        <4>1. \A v \in Users \ {u} : Reads(v, s)' <=> Reads(v, s)
          BY <1>4, Zenon DEF PrefMoves
        <4>2. QED
          BY <1>7, <1>8, <2>3, <4>1, SubscribersOf, SubscribersNext
      <3>2. /\ u \in Subscribers(s) <=> s \in Live /\ Reads(u, s)
            /\ u \in Subscribers(s)' <=> s \in Live /\ Reads(u, s) /\ s[1] # c
        BY <1>1, <1>7, <1>8, <1>11, <2>3, SubscribersOf, SubscribersNext
      <3>3. s \in old <=> u \in Subscribers(s) /\ u \notin Subscribers(s)'
        BY <1>9, <3>2, Zenon
      <3>4. u \in Subscribers(s)' => u \in Subscribers(s)
        BY <3>2, Zenon
      <3>5. s \notin {t}
        BY <2>3
      <3>6. subs'[s] = (subs[s] - Weight(u, s)) + Weight(u, s)'
        BY <2>1, <3>3, <3>4, <3>5, OneOffOn, Zenon DEF Weight
      <3>7. QED
        BY <1>5, <1>12, <2>3, <3>1, <3>6, Zenon
    <2>4. QED
      BY <2>2, <2>3, Zenon
  <1>13. SubsExact'
    BY <1>1, <1>12, CountFollows DEF SubsInv
  <1>14. QED
    BY <1>6, <1>13, Zenon DEF SubsInv

\* Enrolling a curator moves no pin: the lens of a new join is the default.
LEMMA EnrollCounts ==
  ASSUME CurInv, SubsInv, NEW t \in Teams, NEW u \in Users, Enroll(t, u),
         UNCHANGED <<eligibility, teamState, subs, history>>
  PROVE  SubsInv'
  <1> DEFINE c == t[1]
             p == IF Joined(u, c) THEN pref[u][c] ELSE LiveDefault
  <1>1. c \in Communities /\ TypeOK
    BY DEF Teams, CurInv
  <1>2. PrefMoves(u, c, p)
    <2>1. pref' = [pref EXCEPT ![u][c] = p]
      BY <1>1 DEF Enroll, TypeOK
    <2> HIDE DEF p, c
    <2>2. QED
      BY <1>1, <2>1, PrefChange
  <1>3. pref[u][c] # p => pref[u][c].mode = "none" /\ p.mode = "default"
    BY DEF Joined, LiveDefault
  <1> HIDE DEF p, c
  <1>4. \A v \in Users, d \in Communities : pref'[v][d].mode = "pinned" => pref'[v][d] = pref[v][d]
    <2> SUFFICES ASSUME NEW v \in Users, NEW d \in Communities, pref'[v][d].mode = "pinned"
                 PROVE  pref'[v][d] = pref[v][d]
      BY Zenon
    <2>1. CASE v = u /\ d = c
      BY <1>2, <1>3, <2>1 DEF PrefMoves
    <2>2. CASE v # u \/ d # c
      BY <1>2, <2>2, Zenon DEF PrefMoves
    <2>3. QED
      BY <2>1, <2>2, Zenon
  <1>5. \A v \in Users, s \in Teams : Reads(v, s)' <=> Reads(v, s)
    <2> SUFFICES ASSUME NEW v \in Users, NEW s \in Teams PROVE Reads(v, s)' <=> Reads(v, s)
      BY Zenon
    <2>1. CASE v = u /\ s[1] = c
      BY <1>2, <1>3, <2>1 DEF PrefMoves, Reads
    <2>2. CASE v # u \/ s[1] # c
      BY <1>2, <2>2, Zenon DEF PrefMoves
    <2>3. QED
      BY <2>1, <2>2, Zenon
  <1>6. UNCHANGED <<teamState, subs, paid, admins, miscounted, forgotten>>
    BY DEF eligibility, history
  <1>7. SubsExact'
    <2>1. \A v \in Users : CanCurate(v)' <=> CanCurate(v)
      BY <1>6, Zenon DEF CanCurate
    <2>3. (miscounted => miscounted') /\ forgotten \subseteq forgotten'
      BY <1>6, Zenon
    <2>2. QED
      BY <1>5, <1>6, <2>1, <2>3, SubsFrame, Zenon DEF SubsInv
  <1>8. PinsExist'
    <2> SUFFICES ASSUME NEW v \in Users, NEW d \in Communities, pref'[v][d].mode = "pinned"
                 PROVE  /\ <<d, pref'[v][d].team>> \in Teams
                        /\ teamState[<<d, pref'[v][d].team>>] # "none"
      BY <1>6, Zenon DEF PinsExist
    <2>1. pref'[v][d] = pref[v][d]
      BY <1>4, Zenon
    <2>2. QED
      BY <2>1, Zenon DEF SubsInv, PinsExist
  <1>9. QED
    BY <1>7, <1>8, Zenon DEF SubsInv

\* DeleteCurationTeam takes the count with the team.
LEMMA DeleteTeamCounts ==
  ASSUME CurInv, SubsInv, NEW t \in Teams, DeleteCurationTeam(t)
  PROVE  SubsInv'
  <1>1. /\ teamState' = [s \in Teams |-> IF s \in {t} THEN "deleted" ELSE teamState[s]]
        /\ subs' = [subs EXCEPT ![t] = 0]
        /\ UNCHANGED <<pref, paid, admins, miscounted, forgotten>>
    BY DEF DeleteCurationTeam, Dissolve, eligibility, joinVars, history
  <1>2. PinsExist'
    <2>1. \A s \in Teams : teamState'[s] = "none" => teamState[s] = "none"
      BY <1>1
    <2>2. QED
      BY <1>1, <2>1, PinsFrame, Zenon DEF SubsInv
  <1>3. SubsExact'
    <2> SUFFICES ASSUME ~miscounted', forgotten' = {}, NEW s \in Teams, teamState'[s] # "deleted"
                 PROVE  subs'[s] = Cardinality(Subscribers(s)')
      BY Zenon DEF SubsExact
    <2>1. s # t /\ teamState'[s] = teamState[s]
      BY <1>1, Zenon
    <2>2. subs'[s] = subs[s]
      BY <1>1, <2>1 DEF CurInv, TypeOK
    <2>3. subs[s] = Cardinality(Subscribers(s))
      BY <1>1, <2>1, Zenon DEF SubsInv, SubsExact
    <2>4. /\ s \in Live' <=> s \in Live
          /\ \A v \in Users : (CanCurate(v)' <=> CanCurate(v)) /\ (Reads(v, s)' <=> Reads(v, s))
      BY <1>1, <2>1, Zenon DEF Live, CanCurate, Reads
    <2>5. \A v \in Users : v \in Subscribers(s)' <=> v \in Subscribers(s)
      BY <2>4, SubscribersOf, SubscribersNext
    <2>6. Subscribers(s)' = Subscribers(s)
      BY <2>5, Zenon DEF Subscribers
    <2>7. QED
      BY <2>2, <2>3, <2>6, Zenon
  <1>4. QED
    BY <1>2, <1>3, Zenon DEF SubsInv

\* Changes of profiles, subscriptions and levels.
LEMMA AccountCounts ==
  ASSUME CurInv, SubsInv, AccountStep
  PROVE  SubsInv'
  <1> PICK u \in Users :
        \/ SetUsername(u) \/ Activate(u) \/ \E inBlock \in BOOLEAN : Deactivate(u, inBlock)
        \/ MakeAdmin(u) \/ DismissAdmin(u) \/ DeleteUser(u)
    BY Zenon DEF AccountStep
  <1>1. ASSUME KeepEligibility, \A v \in Users : CanCurate(v)' <=> CanCurate(v)
        PROVE  SubsInv'
    <2>1. UNCHANGED <<teamState, subs, pref, miscounted, forgotten>>
      BY <1>1 DEF KeepEligibility, teamVars, joinVars, history
    <2>2. QED
      BY <1>1, <2>1, CountsUntouched
  <1>2. CASE SetUsername(u)
    <2>1. KeepEligibility /\ \A v \in Users : CanCurate(v)' <=> CanCurate(v)
      BY <1>2 DEF SetUsername, CanCurate
    <2>2. QED
      BY <1>1, <2>1, Zenon
  <1>3. CASE Activate(u)
    <2>1. u \notin paid /\ paid' = paid \cup {u} /\ admins' = admins
      BY <1>3, Zenon DEF Activate
    <2>2. CASE u \in admins
      <3>1. KeepEligibility /\ \A v \in Users : CanCurate(v)' <=> CanCurate(v)
        BY <1>3, <2>1, <2>2 DEF Activate, CanCurate
      <3>2. QED
        BY <1>1, <3>1, Zenon
    <2>3. CASE u \notin admins
      <3>1. /\ GainEligibility(u) /\ ~CanCurate(u) /\ CanCurate(u)'
            /\ \A v \in Users \ {u} : CanCurate(v)' <=> CanCurate(v)
        BY <1>3, <2>1, <2>3 DEF Activate, CanCurate
      <3>2. QED
        BY <3>1, GainCounts
    <2>4. QED
      BY <2>2, <2>3, Zenon
  <1>4. ASSUME NEW inBlock \in BOOLEAN, Deactivate(u, inBlock)
        PROVE  SubsInv'
    <2>1. CASE paid' = paid \ {u} /\ admins' = admins
               /\ IF u \in admins THEN KeepEligibility ELSE LoseEligibility(u)
      <3>1. CASE u \in admins
        <4>1. KeepEligibility /\ \A v \in Users : CanCurate(v)' <=> CanCurate(v)
          BY <2>1, <3>1 DEF CanCurate
        <4>2. QED
          BY <1>1, <4>1, Zenon
      <3>2. CASE u \notin admins
        <4>1. /\ LoseEligibility(u) /\ CanCurate(u) /\ ~CanCurate(u)'
              /\ \A v \in Users \ {u} : CanCurate(v)' <=> CanCurate(v)
          BY <1>4, <2>1, <3>2 DEF Deactivate, CanCurate
        <4>2. QED
          BY <4>1, LoseCounts
      <3>3. QED
        BY <3>1, <3>2, Zenon
    <2>2. CASE UNCHANGED <<eligibility, teamVars, subs, roster, inviteVars, joinVars,
                           banned, maxCurators, history>>
      <3>1. UNCHANGED <<teamState, subs, pref, miscounted, forgotten, paid, admins>>
        BY <2>2 DEF teamVars, joinVars, history, eligibility
      <3>2. \A v \in Users : CanCurate(v)' <=> CanCurate(v)
        BY <3>1, Zenon DEF CanCurate
      <3>3. QED
        BY <3>1, <3>2, CountsUntouched
    <2>3. QED
      BY <1>4, <2>1, <2>2, Zenon DEF Deactivate
  <1>5. CASE MakeAdmin(u)
    <2>1. u \notin admins /\ admins' = admins \cup {u} /\ paid' = paid
      BY <1>5 DEF MakeAdmin
    <2>2. CASE u \in paid
      <3>1. KeepEligibility /\ \A v \in Users : CanCurate(v)' <=> CanCurate(v)
        BY <1>5, <2>1, <2>2 DEF MakeAdmin, CanCurate
      <3>2. QED
        BY <1>1, <3>1, Zenon
    <2>3. CASE u \notin paid
      <3>1. /\ GainEligibility(u) /\ ~CanCurate(u) /\ CanCurate(u)'
            /\ \A v \in Users \ {u} : CanCurate(v)' <=> CanCurate(v)
        BY <1>5, <2>1, <2>3 DEF MakeAdmin, CanCurate
      <3>2. QED
        BY <3>1, GainCounts
    <2>4. QED
      BY <2>2, <2>3, Zenon
  <1>6. CASE DismissAdmin(u)
    <2>1. u \in admins /\ admins' = admins \ {u} /\ paid' = paid
      BY <1>6 DEF DismissAdmin
    <2>2. CASE u \in paid
      <3>1. KeepEligibility /\ \A v \in Users : CanCurate(v)' <=> CanCurate(v)
        BY <1>6, <2>1, <2>2 DEF DismissAdmin, CanCurate
      <3>2. QED
        BY <1>1, <3>1, Zenon
    <2>3. CASE u \notin paid
      <3>1. /\ LoseEligibility(u) /\ CanCurate(u) /\ ~CanCurate(u)'
            /\ \A v \in Users \ {u} : CanCurate(v)' <=> CanCurate(v)
        BY <1>6, <2>1, <2>3 DEF DismissAdmin, CanCurate
      <3>2. QED
        BY <3>1, LoseCounts
    <2>4. QED
      BY <2>2, <2>3, Zenon
  <1>7. CASE DeleteUser(u)
    <2>1. /\ UNCHANGED <<teamState, subs, pref, miscounted>> /\ forgotten \subseteq forgotten'
          /\ forgotten' # {}
      BY <1>7 DEF DeleteUser, teamVars, joinVars
    <2>2. QED
      BY <2>1, CountsUntouched
  <1>8. QED
    BY <1>2, <1>3, <1>4, <1>5, <1>6, <1>7, Zenon

\* The lens the chain chooses pins a live team or nothing.
LEMMA BestLensLive ==
  ASSUME NEW c \in Communities, NEW u \in Users, NEW bans
  PROVE  BestLens(c, u, bans).mode = "pinned" => <<c, BestLens(c, u, bans).team>> \in Live
  <1> DEFINE best == BestTeam(c, u, bans, <<c, 0>>)
  <1>1. \A t \in best : t \in Live /\ t[1] = c
    BY DEF BestTeam
  <1>2. CASE best = {}
    BY <1>2 DEF BestLens, Raw
  <1>3. CASE best # {}
    <2> DEFINE b == CHOOSE t \in best : TRUE
    <2>1. b \in best
      BY <1>3
    <2>2. BestLens(c, u, bans) = Pinned(b[2])
      BY <1>3 DEF BestLens
    <2> HIDE DEF b, best
    <2>3. b \in Live /\ b \in Teams /\ b[1] = c
      BY <1>1, <2>1 DEF Live
    <2>4. b = <<c, b[2]>>
      BY <2>3 DEF Teams
    <2>5. Pinned(b[2]).team = b[2]
      BY DEF Pinned
    <2>6. QED
      BY <2>2, <2>3, <2>4, <2>5
  <1>4. QED
    BY <1>2, <1>3

\* Joining, leaving and choosing a lens.
LEMMA LensCounts ==
  ASSUME CurInv, SubsInv, LensStep
  PROVE  SubsInv'
  <1>1. PICK u \in Users, c \in Communities :
            \/ LeaveCommunity(u, c)
            \/ \E p \in Lenses : \/ JoinCommunity(u, c, p)
                                 \/ SetCurationPreference(u, c, p)
                                 \/ GovSetCommunityPreference(u, c, p)
    BY DEF LensStep
  <1>2. CASE LeaveCommunity(u, c)
    BY <1>2, LeaveCounts
  <1>3. CanCurate(u) \in BOOLEAN /\ (u \in paid) \in BOOLEAN
    BY DEF CanCurate
  <1>4. ASSUME NEW p \in Lenses, JoinCommunity(u, c, p)
        PROVE  SubsInv'
    <2> DEFINE lens == JoinLens(u, c, p)
    <2>1. lens \in Pref
      BY LensType, BestLensSafe DEF JoinLens
    <2>2. lens.mode = "pinned" => <<c, lens.team>> \in Live
      BY <1>4, BestLensLive DEF JoinLens, JoinCommunity, MaySelect
    <2>3. MovePin(u, c, lens, CanCurate(u)) /\ UNCHANGED <<teamState, forgotten, paid, admins>>
      BY <1>4 DEF JoinCommunity, teamVars, eligibility
    <2> HIDE DEF lens
    <2>4. QED
      BY <1>3, <2>1, <2>2, <2>3, MovePinCounts
  <1>5. ASSUME NEW p \in Lenses, SetCurationPreference(u, c, p)
        PROVE  SubsInv'
    <2>1. /\ MovePin(u, c, p, CanCurate(u)) /\ UNCHANGED <<teamState, forgotten, paid, admins>>
          /\ p.mode = "pinned" => <<c, p.team>> \in Live
      BY <1>5 DEF SetCurationPreference, teamVars, eligibility, MaySelect
    <2>2. QED
      BY <1>3, <2>1, LensType, MovePinCounts
  <1>6. ASSUME NEW p \in Lenses, GovSetCommunityPreference(u, c, p)
        PROVE  SubsInv'
    <2> DEFINE counted == u \in paid
    <2>1. /\ MovePin(u, c, p, counted) /\ UNCHANGED <<teamState, forgotten, paid, admins>>
          /\ p.mode = "pinned" => <<c, p.team>> \in Live
      BY <1>6 DEF GovSetCommunityPreference, teamVars, eligibility, MaySelect
    <2>2. counted \in BOOLEAN
      OBVIOUS
    <2> HIDE DEF counted
    <2>3. QED
      BY <2>1, <2>2, LensType, MovePinCounts
  <1>7. QED
    BY <1>1, <1>2, <1>4, <1>5, <1>6

\* A ban that moves the banned user moves the count.
LEMMA BanCounts ==
  ASSUME CurInv, SubsInv, NEW t \in Teams, NEW u \in Users, NEW a \in Users, BanUser(a, t, u)
  PROVE  SubsInv'
  <1> DEFINE c == t[1]
  <1> DEFINE bans == banned \cup {<<t, u>>}
  <1>1. /\ \/ MovePin(u, c, BestLens(c, u, bans), CanCurate(u))
           \/ UNCHANGED <<pref, subs, miscounted>>
        /\ UNCHANGED <<teamState, forgotten, paid, admins>>
    BY DEF BanUser, teamVars, eligibility
  <1>2. c \in Communities
    BY DEF Teams
  <1> HIDE DEF c, bans
  <1>3. CASE MovePin(u, c, BestLens(c, u, bans), CanCurate(u))
    <2> DEFINE p == BestLens(c, u, bans)
    <2> DEFINE counted == CanCurate(u)
    <2>1. p \in Pref /\ (p.mode = "pinned" => <<c, p.team>> \in Live)
      BY <1>2, BestLensSafe, BestLensLive
    <2>2. counted \in BOOLEAN /\ MovePin(u, c, p, counted)
      BY <1>3 DEF CanCurate
    <2> HIDE DEF p, counted
    <2>3. QED
      BY <1>1, <1>2, <2>1, <2>2, MovePinCounts
  <1>4. CASE UNCHANGED <<pref, subs, miscounted>>
    <2>1. \A v \in Users : CanCurate(v)' <=> CanCurate(v)
      BY <1>1 DEF CanCurate
    <2>2. QED
      BY <1>1, <1>4, <2>1, CountsUntouched
  <1>5. QED
    BY <1>1, <1>3, <1>4

\* Steps on teams.
LEMMA TeamCounts ==
  ASSUME CurInv, SubsInv, TeamStep
  PROVE  SubsInv'
  <1>1. PICK t \in Teams :
            \/ DeleteCurationTeam(t)
            \/ \E n \in Names : SetCurationTeamProfile(t, n)
            \/ \E u \in Users :
                  \/ \E n \in Names : CreateCurationTeam(u, t, n)
                  \/ InviteCurator(t, u) \/ ClearInvite(t, u)
                  \/ AcceptCuratorInvite(t, u) \/ GovAddCurator(t, u)
                  \/ GovRemoveCurator(t, u) \/ LeaveCurationTeam(t, u) \/ RemoveCurator(t, u)
                  \/ SetCurationTeamOwner(t, u)
                  \/ \E a \in Users : BanUser(a, t, u) \/ UnbanUser(a, t, u)
    BY Zenon DEF TeamStep
  <1>2. ASSUME UNCHANGED <<teamState, subs, pref, miscounted, forgotten, paid, admins>>
        PROVE  SubsInv'
    <2>1. \A v \in Users : CanCurate(v)' <=> CanCurate(v)
      BY <1>2 DEF CanCurate
    <2>2. QED
      BY <1>2, <2>1, CountsUntouched
  <1>3. CASE DeleteCurationTeam(t)
    BY <1>3, DeleteTeamCounts
  <1>4. ASSUME NEW n \in Names, SetCurationTeamProfile(t, n)
        PROVE  SubsInv'
    BY <1>2, <1>4 DEF SetCurationTeamProfile, eligibility, joinVars, history
  <1>5. ASSUME NEW u \in Users, NEW n \in Names, CreateCurationTeam(u, t, n)
        PROVE  SubsInv'
    BY <1>5, CreateCounts
  <1>6. ASSUME NEW u \in Users, InviteCurator(t, u) \/ ClearInvite(t, u)
        PROVE  SubsInv'
    BY <1>2, <1>6 DEF InviteCurator, ClearInvite, eligibility, teamVars, joinVars, history
  <1>7. ASSUME NEW u \in Users, AcceptCuratorInvite(t, u) \/ GovAddCurator(t, u)
        PROVE  SubsInv'
    <2>1. Enroll(t, u) /\ UNCHANGED <<eligibility, teamState, subs, history>>
      BY <1>7 DEF AcceptCuratorInvite, GovAddCurator
    <2>2. QED
      BY <2>1, EnrollCounts
  <1>8. ASSUME NEW u \in Users,
               GovRemoveCurator(t, u) \/ LeaveCurationTeam(t, u) \/ RemoveCurator(t, u)
        PROVE  SubsInv'
    <2>1. RemoveCuratorFromTeam(t, u)
      BY <1>8 DEF GovRemoveCurator, LeaveCurationTeam, RemoveCurator
    <2>2. QED
      BY <1>2, <2>1 DEF RemoveCuratorFromTeam, eligibility, teamVars, joinVars
  <1>9. ASSUME NEW u \in Users, SetCurationTeamOwner(t, u)
        PROVE  SubsInv'
    BY <1>2, <1>9 DEF SetCurationTeamOwner, eligibility, joinVars
  <1>10. ASSUME NEW u \in Users, NEW a \in Users, BanUser(a, t, u)
        PROVE  SubsInv'
    BY <1>10, BanCounts
  <1>11. ASSUME NEW u \in Users, NEW a \in Users, UnbanUser(a, t, u)
        PROVE  SubsInv'
    BY <1>2, <1>11 DEF UnbanUser, eligibility, teamVars, joinVars, history
  <1>12. QED
    BY <1>1, <1>3, <1>4, <1>5, <1>6, <1>7, <1>8, <1>9, <1>10, <1>11

\* At the start nothing is pinned and nothing is counted.
LEMMA SubsInit == Init => SubsInv /\ HaltHasKnownCause
  <1> SUFFICES ASSUME Init PROVE SubsInv /\ HaltHasKnownCause
    OBVIOUS
  <1>1. PinsExist
    BY DEF PinsExist, Init, NotJoined
  <1>2. ASSUME NEW t \in Teams
        PROVE  subs[t] = Cardinality(Subscribers(t))
    <2>1. subs[t] = 0 /\ \A u \in Users : ~CanCurate(u)
      BY DEF Init, CanCurate
    <2>2. Subscribers(t) = {}
      BY <2>1, Zenon DEF Subscribers
    <2>3. Cardinality({}) = 0
      BY FS_EmptySet
    <2>4. QED
      BY <2>1, <2>2, <2>3
  <1>3. ~halted
    BY DEF Init
  <1>4. QED
    BY <1>1, <1>2, <1>3 DEF SubsInv, SubsExact, HaltHasKnownCause

\* Expiry that removes what an account holds fails only if a count drifted, an
\* account was deleted, or a roster is above the cap.
LEMMA DepartFails ==
  ASSUME CurInv, SubsInv, NEW u \in Users, u \in paid, ~CanDepart(u, Curates(u), Pins(u))
  PROVE  miscounted \/ forgotten # {} \/ \E t \in Live : ~RosterFits(t)
  <1> SUFFICES ASSUME ~miscounted, forgotten = {}
               PROVE  \E t \in Live : ~RosterFits(t)
    OBVIOUS
  <1> DEFINE S == Curates(u)
  <1>1. CanTake(Pins(u))
    <2> SUFFICES ASSUME NEW t \in Pins(u) PROVE subs[t] > 0
      BY DEF CanTake
    <2>1. t \in Live /\ t \in Teams
      BY Zenon DEF Pins, PinnedTeam, Live
    <2>2. teamState[t] # "deleted"
      BY <2>1 DEF Live
    <2>3. subs[t] = Cardinality(Subscribers(t))
      BY <2>1, <2>2 DEF SubsInv, SubsExact
    <2>4. u \in Subscribers(t)
      BY Zenon DEF Subscribers, CanCurate
    <2>5. IsFiniteSet(Subscribers(t))
      <3>1. Subscribers(t) \subseteq Users
        BY DEF Subscribers
      <3>2. QED
        BY <3>1, CurationAssumption, FS_Subset
    <2>6. Cardinality(Subscribers(t)) \in Nat /\ Cardinality(Subscribers(t)) # 0
      BY <2>4, <2>5, FS_CardinalityType, FS_EmptySet
    <2>7. QED
      BY <2>3, <2>6
  <1>2. ~CanDrop(Departures(u, S))
    BY <1>1 DEF CanDepart
  <1>3. PICK r \in Departures(u, S) : ~(order[r[1]][r[2]] > 0 /\ RosterFits(r[1]))
    BY <1>2 DEF CanDrop
  <1>4. r[1] \in Live /\ order[r[1]][r[2]] > 0
    <2>1. \A t \in S : t \in Live /\ t \in Teams /\ memberOf[u][t[1]] = t[2]
      BY DEF Curates, Live
    <2> HIDE DEF S
    <2>2. CASE r \in Rosters(Gone(u, S))
      BY <2>1, <2>2 DEF Rosters, Gone
    <2>3. CASE r \in (S \ Gone(u, S)) \X {u}
      <3>1. r[1] \in S /\ r[2] = u
        BY <2>3
      <3>2. MembershipAgrees
        BY DEF CurInv, RosterInv
      <3>3. QED
        BY <2>1, <3>1, <3>2 DEF MembershipAgrees
    <2>4. QED
      BY <2>2, <2>3 DEF Departures
  <1>5. QED
    BY <1>3, <1>4

\* An account step stops the node only where expiry cannot remove the membership.
LEMMA AccountHalts ==
  ASSUME CurInv, SubsInv, ~halted, AccountStep
  PROVE  HaltHasKnownCause'
  <1>1. PICK u \in Users : \/ SetUsername(u) \/ Activate(u)
                           \/ \E inBlock \in BOOLEAN : Deactivate(u, inBlock)
                           \/ MakeAdmin(u) \/ DismissAdmin(u) \/ DeleteUser(u)
    BY DEF AccountStep
  <1>2. ASSUME NEW v \in Users, KeepEligibility \/ GainEligibility(v) \/ LoseEligibility(v)
        PROVE  halted' = halted
    BY <1>2 DEF KeepEligibility, GainEligibility, LoseEligibility
  <1>3. CASE halted' = halted
    BY <1>3 DEF HaltHasKnownCause
  <1>4. CASE SetUsername(u) \/ Activate(u) \/ MakeAdmin(u) \/ DismissAdmin(u) \/ DeleteUser(u)
    BY <1>2, <1>3, <1>4 DEF SetUsername, Activate, MakeAdmin, DismissAdmin, DeleteUser
  <1>5. ASSUME NEW inBlock \in BOOLEAN, Deactivate(u, inBlock)
        PROVE  HaltHasKnownCause'
    <2>1. CASE IF u \in admins THEN KeepEligibility ELSE LoseEligibility(u)
      BY <1>2, <1>3, <2>1
    <2>2. CASE /\ u \in paid /\ ~CanDepart(u, Curates(u), Pins(u))
               /\ UNCHANGED <<eligibility, teamVars, subs, roster, inviteVars, joinVars,
                              banned, maxCurators, history>>
      <3>1. miscounted \/ forgotten # {} \/ \E t \in Live : ~RosterFits(t)
        BY <2>2, DepartFails
      <3>2. UNCHANGED <<teamState, order, maxCurators, miscounted, forgotten>>
        BY <2>2 DEF teamVars, roster, history
      <3>3. Live' = Live
        BY <3>2 DEF Live
      <3>4. \A t \in Live : RosterFits(t)' <=> RosterFits(t)
        BY <3>2 DEF RosterFits, Members
      <3>5. QED
        BY <3>1, <3>2, <3>3, <3>4 DEF HaltHasKnownCause
    <2>3. QED
      BY <1>5, <2>1, <2>2 DEF Deactivate
  <1>6. QED
    BY <1>1, <1>4, <1>5

\* No other step stops the node.
LEMMA OthersRun ==
  ASSUME LensStep \/ TeamStep \/ \E cap \in TeamCaps : UpdateParams(cap)
  PROVE  halted' = halted
  <1>1. CASE LensStep
    <2>1. ASSUME NEW u \in Users, NEW c \in Communities, LeaveCommunity(u, c)
          PROVE  halted' = halted
      BY <2>1, Zenon DEF LeaveCommunity
    <2>2. ASSUME NEW u \in Users, NEW c \in Communities, NEW p \in Lenses,
                 \/ JoinCommunity(u, c, p) \/ SetCurationPreference(u, c, p)
                 \/ GovSetCommunityPreference(u, c, p)
          PROVE  halted' = halted
      BY <2>2, Zenon DEF JoinCommunity, SetCurationPreference, GovSetCommunityPreference
    <2>3. QED
      BY <1>1, <2>1, <2>2, Zenon DEF LensStep
  <1>2. CASE TeamStep
    <2>1. ASSUME NEW t \in Teams, NEW u \in Users, RemoveCuratorFromTeam(t, u)
          PROVE  halted' = halted
      BY <2>1 DEF RemoveCuratorFromTeam
    <2>2. ASSUME NEW t \in Teams, NEW u \in Users,
                 \/ GovRemoveCurator(t, u) \/ LeaveCurationTeam(t, u) \/ RemoveCurator(t, u)
          PROVE  halted' = halted
      BY <2>1, <2>2 DEF GovRemoveCurator, LeaveCurationTeam, RemoveCurator
    <2>3. ASSUME NEW t \in Teams, NEW u \in Users,
                 \/ InviteCurator(t, u) \/ ClearInvite(t, u) \/ AcceptCuratorInvite(t, u)
                 \/ GovAddCurator(t, u) \/ SetCurationTeamOwner(t, u)
                 \/ \E a \in Users : BanUser(a, t, u) \/ UnbanUser(a, t, u)
                 \/ \E n \in Names : CreateCurationTeam(u, t, n)
          PROVE  halted' = halted
      BY <2>3, Zenon DEF InviteCurator, ClearInvite, AcceptCuratorInvite, GovAddCurator,
                         SetCurationTeamOwner, BanUser, UnbanUser, CreateCurationTeam
    <2>4. ASSUME NEW t \in Teams,
                 DeleteCurationTeam(t) \/ \E n \in Names : SetCurationTeamProfile(t, n)
          PROVE  halted' = halted
      BY <2>4, Zenon DEF DeleteCurationTeam, SetCurationTeamProfile
    <2>5. QED
      BY <1>2, <2>2, <2>3, <2>4, Zenon DEF TeamStep
  <1>3. CASE \E cap \in TeamCaps : UpdateParams(cap)
    BY <1>3 DEF UpdateParams
  <1>4. QED
    BY <1>1, <1>2, <1>3

\* The subscriber counts are exact as long as no pin moved without them, and the
\* node stops for no reason but the known ones.
THEOREM CountsInvariant == Spec => [](SubsInv /\ HaltHasKnownCause)
  <1>1. CurInv /\ SubsInv /\ HaltHasKnownCause /\ [Next]_vars => SubsInv' /\ HaltHasKnownCause'
    <2> SUFFICES ASSUME CurInv, SubsInv, HaltHasKnownCause, [Next]_vars
                 PROVE  SubsInv' /\ HaltHasKnownCause'
      OBVIOUS
    <2>1. CASE Next /\ AccountStep
      BY <2>1, AccountCounts, AccountHalts DEF Next
    <2>2. CASE Next /\ (LensStep \/ TeamStep \/ \E cap \in TeamCaps : UpdateParams(cap))
      <3>1. SubsInv'
        <4>1. CASE \E cap \in TeamCaps : UpdateParams(cap)
          <5>1. UNCHANGED <<teamState, subs, pref, miscounted, forgotten, paid, admins>>
            BY <4>1 DEF UpdateParams, eligibility, teamVars, joinVars, history
          <5>2. \A v \in Users : CanCurate(v)' <=> CanCurate(v)
            BY <5>1 DEF CanCurate
          <5>3. QED
            BY <5>1, <5>2, CountsUntouched
        <4>2. QED
          BY <2>2, <4>1, LensCounts, TeamCounts
      <3>2. ~halted'
        BY <2>2, OthersRun DEF Next
      <3>3. QED
        BY <3>1, <3>2 DEF HaltHasKnownCause
    <2>3. CASE UNCHANGED vars
      <3>1. /\ UNCHANGED <<teamState, order, subs, pref, miscounted, forgotten, paid, admins>>
            /\ UNCHANGED <<halted, maxCurators>>
        BY <2>3 DEF vars, eligibility, teamVars, roster, joinVars, history
      <3>2. \A v \in Users : CanCurate(v)' <=> CanCurate(v)
        BY <3>1 DEF CanCurate
      <3>3. SubsInv'
        BY <3>1, <3>2, CountsUntouched
      <3>4. Live' = Live /\ \A t \in Live : RosterFits(t)' <=> RosterFits(t)
        BY <3>1 DEF Live, RosterFits, Members
      <3>5. QED
        BY <3>1, <3>3, <3>4 DEF HaltHasKnownCause
    <2>4. QED
      BY <2>1, <2>2, <2>3 DEF Next
  <1>2. QED
    BY <1>1, SubsInit, CurationInvariant, PTL DEF Spec

\* The subscriber count of a live team is the number of subscribers and admins
\* that pin it, unless a pin was moved for an unpaid admin or an account deleted.
THEOREM SubscribersAreCounted == Spec => []CountExact
  <1>1. SubsInv => CountExact
    BY DEF SubsInv, SubsExact, CountExact, Live
  <1>2. QED
    BY <1>1, CountsInvariant, PTL

\* Expiry stops the node only after a count drifted, after an account was deleted
\* or while a roster is above a lowered cap.
THEOREM HaltsAreExplained == Spec => []HaltHasKnownCause
  BY CountsInvariant, PTL

-----------------------------------------------------------------------------
(***************************************************************************)
(* What a step may never do to a team.  Only a few kinds of steps change   *)
(* the teams, their owners, rosters and invitations.                       *)
(***************************************************************************)
\* u leaves the teams S, and at most u loses the right to curate.
Departs(u, S) ==
    /\ \E minus, lost : Depart(u, S, minus, lost)
    /\ \A v \in Users : (CanCurate(v)' => CanCurate(v)) /\ (CanCurate(v) => CanCurate(v)' \/ v = u)

\* What a departure leaves of the rosters.
OrdersLeft(u, S) ==
    \A t \in Teams, v \in Users :
        order'[t][v] = IF t \in Gone(u, S) \/ (t \in S /\ v = u) THEN 0 ELSE order[t][v]

\* A departure takes u off the teams S and everybody off those it deletes.
LEMMA DepartOrders ==
  ASSUME CurInv, NEW u \in Users, NEW S \in SUBSET Curates(u), NEW minus, NEW lost,
         Depart(u, S, minus, lost)
  PROVE  OrdersLeft(u, S)
  BY DepartRosters DEF OrdersLeft

\* Every step is a stutter of the rosters or one of these.
LEMMA RosterSteps ==
  ASSUME CurInv, [Next]_vars
  PROVE  \/ UNCHANGED <<teamState, owner, order, invites>>
         \/ \E u \in Users : \E S \in SUBSET Curates(u) : Departs(u, S)
         \/ \E t \in Teams : DeleteCurationTeam(t)
         \/ \E t \in Teams, u \in Users :
               \/ \E n \in Names : CreateCurationTeam(u, t, n)
               \/ InviteCurator(t, u) \/ ClearInvite(t, u)
               \/ AcceptCuratorInvite(t, u) \/ GovAddCurator(t, u)
               \/ RemoveCuratorFromTeam(t, u)
               \/ SetCurationTeamOwner(t, u)
  <1> DEFINE Still == UNCHANGED <<teamState, owner, order, invites>>
  <1> DEFINE Leaves == \E u \in Users : \E S \in SUBSET Curates(u) : Departs(u, S)
  <1>1. CASE UNCHANGED vars
    BY <1>1 DEF vars, teamVars, roster, inviteVars
  <1>2. CASE AccountStep
    <2>1. PICK u \in Users : \/ SetUsername(u) \/ Activate(u)
                             \/ \E inBlock \in BOOLEAN : Deactivate(u, inBlock)
                             \/ MakeAdmin(u) \/ DismissAdmin(u) \/ DeleteUser(u)
      BY <1>2 DEF AccountStep
    <2>2. (KeepEligibility \/ GainEligibility(u)) => Still
      BY DEF KeepEligibility, GainEligibility, teamVars, roster, inviteVars
    <2>3. ASSUME LoseEligibility(u), paid' \subseteq paid, admins' \subseteq admins,
                 paid \subseteq paid' \cup {u}, admins \subseteq admins' \cup {u}
          PROVE  Leaves
      <3>1. Depart(u, Curates(u), Pins(u), InvitesTo(u))
        BY <2>3 DEF LoseEligibility
      <3>2. \A v \in Users : /\ CanCurate(v)' => CanCurate(v)
                             /\ CanCurate(v) => CanCurate(v)' \/ v = u
        BY <2>3, Zenon DEF CanCurate
      <3>3. Departs(u, Curates(u)) /\ Curates(u) \in SUBSET Curates(u)
        BY <3>1, <3>2, Zenon DEF Departs
      <3>4. QED
        BY <3>3
    <2>4. ASSUME SetUsername(u) \/ Activate(u) \/ MakeAdmin(u) \/ DeleteUser(u)
          PROVE  Still
      BY <2>2, <2>4 DEF SetUsername, Activate, MakeAdmin, DeleteUser, teamVars, roster, inviteVars
    <2>5. ASSUME DismissAdmin(u)
          PROVE  Still \/ Leaves
      BY <2>2, <2>3, <2>5 DEF DismissAdmin
    <2>6. ASSUME NEW inBlock \in BOOLEAN, Deactivate(u, inBlock)
          PROVE  Still \/ Leaves
      <3>1. CASE /\ paid' = paid \ {u}
                 /\ UNCHANGED <<profiles, admins>>
                 /\ IF u \in admins THEN KeepEligibility ELSE LoseEligibility(u)
        BY <2>2, <2>3, <3>1
      <3>2. CASE UNCHANGED <<eligibility, teamVars, subs, roster, inviteVars, joinVars,
                             banned, maxCurators, history>>
        BY <3>2 DEF teamVars, roster, inviteVars
      <3> HIDE DEF Still, Leaves
      <3>3. QED
        BY <2>6, <3>1, <3>2, Zenon DEF Deactivate
    <2> HIDE DEF Still, Leaves
    <2>7. Still \/ Leaves
      BY <2>1, <2>4, <2>5, <2>6
    <2>8. QED
      BY <2>7 DEF Still, Leaves
  <1>3. CASE LensStep
    <2>1. PICK u \in Users, c \in Communities :
              \/ LeaveCommunity(u, c)
              \/ \E p \in Lenses : \/ JoinCommunity(u, c, p)
                                   \/ SetCurationPreference(u, c, p)
                                   \/ GovSetCommunityPreference(u, c, p)
      BY <1>3 DEF LensStep
    <2>2. CASE LeaveCommunity(u, c)
      <3> DEFINE S == {t \in Curates(u) : t[1] = c}
      <3>1. (\E minus, lost : Depart(u, S, minus, lost)) /\ UNCHANGED eligibility
        BY <2>2, Zenon DEF LeaveCommunity
      <3>2. \A v \in Users : CanCurate(v)' <=> CanCurate(v)
        BY <3>1 DEF CanCurate, eligibility
      <3>3. S \in SUBSET Curates(u)
        OBVIOUS
      <3> HIDE DEF S
      <3>4. Departs(u, S)
        BY <3>1, <3>2 DEF Departs
      <3>5. QED
        BY <3>3, <3>4
    <2>3. ASSUME NEW p \in Lenses,
                 \/ JoinCommunity(u, c, p) \/ SetCurationPreference(u, c, p)
                 \/ GovSetCommunityPreference(u, c, p)
          PROVE  Still
      BY <2>3 DEF JoinCommunity, SetCurationPreference, GovSetCommunityPreference,
                  teamVars, roster, inviteVars
    <2>4. QED
      BY <2>1, <2>2, <2>3
  <1>4. CASE TeamStep
    <2>1. ASSUME NEW t \in Teams, NEW n \in Names, SetCurationTeamProfile(t, n)
          PROVE  Still
      BY <2>1 DEF SetCurationTeamProfile, roster, inviteVars
    <2>2. ASSUME NEW t \in Teams, NEW u \in Users, NEW a \in Users,
                 BanUser(a, t, u) \/ UnbanUser(a, t, u)
          PROVE  Still
      BY <2>2 DEF BanUser, UnbanUser, teamVars, roster, inviteVars
    <2>3. ASSUME NEW t \in Teams, NEW u \in Users,
                 \/ GovRemoveCurator(t, u) \/ LeaveCurationTeam(t, u) \/ RemoveCurator(t, u)
          PROVE  RemoveCuratorFromTeam(t, u)
      BY <2>3 DEF GovRemoveCurator, LeaveCurationTeam, RemoveCurator
    <2> HIDE DEF Still
    <2>4. QED
      BY <1>4, <2>1, <2>2, <2>3, Zenon DEF TeamStep, Still
  <1>5. CASE \E cap \in TeamCaps : UpdateParams(cap)
    BY <1>5 DEF UpdateParams, teamVars, roster, inviteVars
  <1>6. QED
    BY <1>1, <1>2, <1>3, <1>4, <1>5 DEF Next

\* A lapse or a departure deletes a team only if no other eligible curator is on it.
LEMMA OutlivesStep ==
  ASSUME CurInv, [Next]_vars, NEW t \in Live, teamState'[t] # "live",
         <<eligibility, pref>>' # <<eligibility, pref>>
  PROVE  Successors(t, owner[t]) = {}
  <1>1. t \in Teams /\ teamState[t] = "live" /\ teamState \in [Teams -> {"none", "live", "deleted"}]
    BY DEF Live, CurInv, TypeOK
  <1>2. CASE \E u \in Users : \E S \in SUBSET Curates(u) : Departs(u, S)
    <2>1. PICK u \in Users : \E S \in SUBSET Curates(u) : Departs(u, S)
      BY <1>2
    <2> PICK S \in SUBSET Curates(u) : Departs(u, S)
      BY <2>1
    <2>2. Dissolve(Gone(u, S))
      BY Zenon DEF Departs, Depart
    <2>3. t \in Gone(u, S)
      BY <1>1, <2>2 DEF Dissolve
    <2>4. QED
      BY <2>3 DEF Gone
  <1>3. CASE \E s \in Teams : DeleteCurationTeam(s)
    BY <1>3 DEF DeleteCurationTeam, joinVars
  <1>4. CASE UNCHANGED teamState
    BY <1>1, <1>4
  <1>5. CASE \E s \in Teams, u \in Users : \E n \in Names : CreateCurationTeam(u, s, n)
    <2>1. PICK s \in Teams, u \in Users : \E n \in Names : CreateCurationTeam(u, s, n)
      BY <1>5, Zenon
    <2>2. PICK n \in Names : CreateCurationTeam(u, s, n)
      BY <2>1, Zenon
    <2>3. teamState' = [teamState EXCEPT ![s] = "live"]
      BY <2>2, Zenon DEF CreateCurationTeam
    <2>4. QED
      BY <1>1, <2>3
  <1>6. ASSUME NEW s \in Teams, NEW u \in Users,
               \/ InviteCurator(s, u) \/ ClearInvite(s, u)
               \/ AcceptCuratorInvite(s, u) \/ GovAddCurator(s, u)
               \/ RemoveCuratorFromTeam(s, u) \/ SetCurationTeamOwner(s, u)
        PROVE  UNCHANGED teamState
    BY <1>6 DEF InviteCurator, ClearInvite, AcceptCuratorInvite, GovAddCurator,
                RemoveCuratorFromTeam, SetCurationTeamOwner, teamVars
  <1>7. QED
    BY <1>2, <1>3, <1>4, <1>5, <1>6, RosterSteps

\* When the owner of a team leaves it, the team passes to the eligible curator
\* that accepted first.
LEMMA SuccessionStep ==
  ASSUME CurInv, CurInv', [Next]_vars, NEW t \in Live \ ousted,
         owner'[t] # owner[t], order'[t][owner[t]] = 0
  PROVE  /\ order'[t][owner'[t]] > 0
         /\ owner'[t] \in paid' \cup admins'
         /\ \A v \in paid' \cup admins' : order'[t][v] > 0 => order'[t][owner'[t]] <= order'[t][v]
  <1>1. /\ t \in Teams /\ teamState[t] = "live"
        /\ owner \in [Teams -> Users \cup {Nobody}]
        /\ order \in [Teams -> [Users -> Nat]]
    BY DEF Live, CurInv, TypeOK
  <1>2. owner[t] \in Users /\ order[t][owner[t]] > 0
    BY <1>1, Zenon DEF CurInv, OwnerIsCurator, Members
  <1>3. CASE \E u \in Users : \E S \in SUBSET Curates(u) : Departs(u, S)
    <2>1. PICK u \in Users : \E S \in SUBSET Curates(u) : Departs(u, S)
      BY <1>3
    <2> PICK S \in SUBSET Curates(u) : Departs(u, S)
      BY <2>1
    <2>2. PICK minus, lost : Depart(u, S, minus, lost)
      BY Zenon DEF Departs
    <2> DEFINE gone == Gone(u, S)
    <2>3. owner' = [s \in Teams |-> IF s \in S \ gone /\ owner[s] = u THEN Heir(s, u) ELSE owner[s]]
      BY <2>2 DEF Depart
    <2>4. t \in S \ gone /\ owner[t] = u /\ owner'[t] = Heir(t, u)
      BY <1>1, <2>3
    <2>5. Successors(t, u) # {}
      BY <2>4 DEF Gone
    <2>6. TypeOK
      BY DEF CurInv
    <2>7. /\ Heir(t, u) \in Successors(t, u)
          /\ \A w \in Successors(t, u) : order[t][Heir(t, u)] <= order[t][w]
      BY <1>1, <2>5, <2>6, HeirExists
    <2>8. \A s \in Teams, v \in Users :
             order'[s][v] = IF s \in gone \/ (s \in S /\ v = u) THEN 0 ELSE order[s][v]
      <3>1. OrdersLeft(u, S)
        BY <2>2, DepartOrders
      <3>2. QED
        BY <3>1, Zenon DEF OrdersLeft
    <2> HIDE DEF gone
    <2>9. \A v \in Users : v # u => order'[t][v] = order[t][v]
      BY <1>1, <2>4, <2>8, Zenon
    <2>10. order'[t][u] = 0
      BY <1>1, <2>4, <2>8, Zenon
    <2>11. \A v \in Users : /\ CanCurate(v)' => CanCurate(v)
                            /\ CanCurate(v) => CanCurate(v)' \/ v = u
      BY Zenon DEF Departs
    <2> PICK h : h = Heir(t, u)
      OBVIOUS
    <2>12. h \in Users /\ h # u /\ CanCurate(h) /\ order[t][h] > 0
      BY <2>7 DEF Successors, Members
    <2>13. owner'[t] = h /\ \A w \in Successors(t, u) : order[t][h] <= order[t][w]
      BY <2>4, <2>7
    <2>14. order'[t][h] > 0 /\ CanCurate(h)'
      BY <2>9, <2>11, <2>12
    <2>15. ASSUME NEW v \in paid' \cup admins', order'[t][v] > 0
           PROVE  order'[t][h] <= order'[t][v]
      <3>1. v \in Users
        <4>1. TypeOK'
          BY DEF CurInv
        <4>2. QED
          BY <4>1, Zenon DEF TypeOK
      <3>2. v # u
        <4> SUFFICES ASSUME v = u PROVE FALSE
          OBVIOUS
        <4>1. 0 > 0
          BY <2>10, <2>15, Zenon
        <4>2. QED
          BY <4>1, NoneAbove, Zenon
      <3>3. CanCurate(v)
        BY <2>11, <3>1 DEF CanCurate
      <3>4. order'[t][v] = order[t][v] /\ order'[t][h] = order[t][h]
        BY <2>9, <2>12, <3>1, <3>2
      <3>5. v \in Successors(t, u)
        BY <2>15, <3>1, <3>2, <3>3, <3>4 DEF Successors, Members
      <3>6. QED
        BY <2>13, <3>4, <3>5
    <2>16. QED
      BY <2>13, <2>14, <2>15 DEF CanCurate
  <1>4. CASE UNCHANGED owner
    BY <1>4
  <1>5. CASE \E s \in Teams, u \in Users : \E n \in Names : CreateCurationTeam(u, s, n)
    <2>1. PICK s \in Teams, u \in Users, n \in Names : CreateCurationTeam(u, s, n)
      BY <1>5
    <2>2. teamState[s] = "none" /\ owner' = [owner EXCEPT ![s] = u]
      BY <2>1 DEF CreateCurationTeam
    <2>3. QED
      BY <1>1, <2>2
  <1>6. ASSUME NEW s \in Teams, NEW u \in Users, SetCurationTeamOwner(s, u)
        PROVE  order' = order
    BY <1>6 DEF SetCurationTeamOwner, roster
  <1>7. CASE order' = order
    BY <1>2, <1>7, NoneAbove, Zenon
  <1>8. ASSUME NEW s \in Teams, NEW u \in Users,
               \/ InviteCurator(s, u) \/ ClearInvite(s, u)
               \/ AcceptCuratorInvite(s, u) \/ GovAddCurator(s, u)
               \/ RemoveCuratorFromTeam(s, u)
        PROVE  UNCHANGED owner
    BY <1>8 DEF InviteCurator, ClearInvite, AcceptCuratorInvite, GovAddCurator,
                RemoveCuratorFromTeam, teamVars
  <1>9. ASSUME NEW s \in Teams, DeleteCurationTeam(s)
        PROVE  UNCHANGED owner
    BY <1>9 DEF DeleteCurationTeam
  <1>10. QED
    BY <1>3, <1>4, <1>5, <1>6, <1>7, <1>8, <1>9, RosterSteps

\* The places of a team that are taken by nobody new.
LEMMA PlacesShrink ==
  ASSUME NEW t \in Teams, Members(t)' \subseteq Members(t), Pending(t)' \subseteq Pending(t)
  PROVE  Taken(t)' <= Taken(t)
  <1> DEFINE M == Members(t)
  <1> DEFINE P == Pending(t)
  <1>1. IsFiniteSet(M) /\ IsFiniteSet(P)
    <2>1. M \subseteq Users /\ P \subseteq Users
      BY DEF Members, Pending
    <2>2. QED
      BY <2>1, CurationAssumption, FS_Subset
  <1>2. /\ Cardinality(M') \in Nat /\ Cardinality(M) \in Nat /\ Cardinality(M') <= Cardinality(M)
        /\ Cardinality(P') \in Nat /\ Cardinality(P) \in Nat /\ Cardinality(P') <= Cardinality(P)
    BY <1>1, FS_Subset, FS_CardinalityType
  <1>3. Taken(t) = Cardinality(M) + Cardinality(P)
    BY DEF Taken
  <1>4. Taken(t)' = Cardinality(M') + Cardinality(P')
    BY DEF Taken
  <1> HIDE DEF M, P
  <1>5. QED
    BY <1>2, <1>3, <1>4

\* At most one place is taken by a set that gains at most one element.
LEMMA OneJoins ==
  ASSUME NEW A, IsFiniteSet(A), NEW x, NEW B, B \subseteq A \cup {x}
  PROVE  /\ Cardinality(A) \in Nat /\ Cardinality(B) \in Nat
         /\ Cardinality(B) <= Cardinality(A) + 1
  <1>1. /\ IsFiniteSet(A \cup {x})
        /\ Cardinality(A \cup {x}) = IF x \in A THEN Cardinality(A) ELSE Cardinality(A) + 1
    BY FS_AddElement
  <1>2. IsFiniteSet(B) /\ Cardinality(B) <= Cardinality(A \cup {x})
    BY <1>1, FS_Subset
  <1>3. Cardinality(A) \in Nat /\ Cardinality(B) \in Nat
    BY <1>2, FS_CardinalityType
  <1>4. QED
    BY <1>1, <1>2, <1>3

\* What the rosters and invitations of a step gain.
GainsNothing(t) == Members(t)' \subseteq Members(t) /\ Pending(t)' \subseteq Pending(t)
\* u takes a place of team t as a curator or as an invitee.
TakesPlace(t, u) ==
    /\ HasPlace(t)
    /\ \/ Members(t)' \subseteq Members(t) \cup {u} /\ Pending(t)' = Pending(t)
       \/ Members(t)' = Members(t) /\ Pending(t)' \subseteq Pending(t) \cup {u}

\* A place is taken only after the check that there is one.
LEMMA PlaceStep ==
  ASSUME TypeOK, NEW t \in Teams, NEW u \in Users, TakesPlace(t, u)
  PROVE  Taken(t)' <= maxCurators
  <1> DEFINE M == Members(t)
  <1> DEFINE P == Pending(t)
  <1>1. IsFiniteSet(M) /\ IsFiniteSet(P)
    <2>1. M \subseteq Users /\ P \subseteq Users
      BY DEF Members, Pending
    <2>2. QED
      BY <2>1, CurationAssumption, FS_Subset
  <1>2. Cardinality(M) + Cardinality(P) < maxCurators /\ maxCurators \in Nat
    BY CurationAssumption DEF TakesPlace, HasPlace, TypeOK
  <1>3. Taken(t)' = Cardinality(M') + Cardinality(P')
    BY DEF Taken
  <1>4. \/ M' \subseteq M \cup {u} /\ P' = P
        \/ M' = M /\ P' \subseteq P \cup {u}
    BY DEF TakesPlace
  <1>5. Cardinality(M) \in Nat /\ Cardinality(P) \in Nat
    BY <1>1, FS_CardinalityType
  <1> HIDE DEF M, P
  <1>6. CASE M' \subseteq M \cup {u} /\ P' = P
    <2>1. Cardinality(M') \in Nat /\ Cardinality(M') <= Cardinality(M) + 1
      BY <1>1, <1>6, OneJoins
    <2>2. QED
      BY <1>2, <1>3, <1>5, <1>6, <2>1
  <1>7. CASE M' = M /\ P' \subseteq P \cup {u}
    <2>1. Cardinality(P') \in Nat /\ Cardinality(P') <= Cardinality(P) + 1
      BY <1>1, <1>7, OneJoins
    <2>2. QED
      BY <1>2, <1>3, <1>5, <1>7, <2>1
  <1>8. QED
    BY <1>4, <1>6, <1>7

\* An invitee who accepts gives the reserved place back.
LEMMA AcceptPlaces ==
  ASSUME NEW t \in Teams, NEW u \in Users, u \in Pending(t),
         Members(t)' \subseteq Members(t) \cup {u}, Pending(t)' = Pending(t) \ {u}
  PROVE  Taken(t)' <= Taken(t)
  <1> DEFINE M == Members(t)
  <1> DEFINE P == Pending(t)
  <1>1. IsFiniteSet(M) /\ IsFiniteSet(P)
    <2>1. M \subseteq Users /\ P \subseteq Users
      BY DEF Members, Pending
    <2>2. QED
      BY <2>1, CurationAssumption, FS_Subset
  <1>2. /\ Taken(t) = Cardinality(M) + Cardinality(P)
        /\ Taken(t)' = Cardinality(M') + Cardinality(P')
    BY DEF Taken
  <1>3. u \in P /\ M' \subseteq M \cup {u} /\ P' = P \ {u}
    OBVIOUS
  <1> HIDE DEF M, P
  <1>4. /\ Cardinality(M) \in Nat /\ Cardinality(M') \in Nat
        /\ Cardinality(M') <= Cardinality(M) + 1
    BY <1>1, <1>3, OneJoins
  <1>5. Cardinality(P') = Cardinality(P) - 1
    BY <1>1, <1>3, FS_RemoveElement
  <1>6. Cardinality(P) \in Nat
    BY <1>1, FS_CardinalityType
  <1>7. QED
    BY <1>2, <1>4, <1>5, <1>6

\* Setting one entry of a roster adds at most that curator.
LEMMA EnlistMembers ==
  ASSUME TypeOK, NEW s \in Teams, NEW u \in Users, NEW k, order' = [order EXCEPT ![s][u] = k],
         NEW t \in Teams
  PROVE  /\ Members(t)' \subseteq Members(t) \cup {u}
         /\ t # s => Members(t)' = Members(t)
  <1>1. order \in [Teams -> [Users -> Nat]]
    BY DEF TypeOK
  <1>2. \A v \in Users : v # u \/ t # s => order'[t][v] = order[t][v]
    BY <1>1
  <1>3. QED
    BY <1>2, Zenon DEF Members

\* Invitations that stay, and rosters without new entries.
LEMMA NobodyNew ==
  ASSUME NEW t \in Teams, invites' \subseteq invites,
         \A v \in Users : order'[t][v] \in {0, order[t][v]}
  PROVE  GainsNothing(t)
  <1>1. Pending(t)' \subseteq Pending(t)
    BY DEF Pending
  <1>2. \A v \in Users : order'[t][v] > 0 => order[t][v] > 0
    <2> TAKE v \in Users
    <2>1. CASE order'[t][v] = 0
      BY <2>1, NoneAbove, Zenon
    <2>2. CASE order'[t][v] = order[t][v]
      BY <2>2, Zenon
    <2>3. QED
      BY <2>1, <2>2
  <1>3. Members(t)' \subseteq Members(t)
    BY <1>2, Zenon DEF Members
  <1>4. QED
    BY <1>1, <1>3 DEF GainsNothing

\* Inviting or enrolling a curator never takes curators and pending invitations
\* above the cap.
LEMMA ReservedStep ==
  ASSUME CurInv, [Next]_vars, NEW t \in Teams, Taken(t)' > Taken(t)
  PROVE  Taken(t)' <= maxCurators
  <1>1. TypeOK
    BY DEF CurInv
  <1>2. Taken(t) \in Nat /\ Taken(t)' \in Nat
    <2>1. \A A : A \subseteq Users => Cardinality(A) \in Nat
      BY CurationAssumption, FS_Subset, FS_CardinalityType
    <2>2. /\ Members(t) \subseteq Users /\ Pending(t) \subseteq Users
          /\ Members(t)' \subseteq Users /\ Pending(t)' \subseteq Users
      BY DEF Members, Pending
    <2>3. /\ Cardinality(Members(t)) \in Nat /\ Cardinality(Pending(t)) \in Nat
          /\ Cardinality(Members(t)') \in Nat /\ Cardinality(Pending(t)') \in Nat
      BY <2>1, <2>2
    <2>4. /\ Taken(t) = Cardinality(Members(t)) + Cardinality(Pending(t))
          /\ Taken(t)' = Cardinality(Members(t)') + Cardinality(Pending(t)')
      BY DEF Taken
    <2>5. QED
      BY <2>3, <2>4
  <1>3. ~(Taken(t)' <= Taken(t))
    BY <1>2
  <1>4. ~GainsNothing(t)
    BY <1>3, PlacesShrink DEF GainsNothing
  <1>5. ~UNCHANGED <<order, invites>>
    <2>1. UNCHANGED <<order, invites>> => Members(t)' = Members(t) /\ Pending(t)' = Pending(t)
      BY DEF Members, Pending
    <2>2. QED
      BY <1>4, <2>1 DEF GainsNothing
  <1>6. ASSUME NEW R, DropMembers(R), invites' \subseteq invites
        PROVE  FALSE
    <2>1. \A v \in Users : order'[t][v] \in {0, order[t][v]}
      BY <1>6 DEF DropMembers
    <2>2. QED
      BY <1>4, <1>6, <2>1, NobodyNew
  <1>7. CASE \E u \in Users : \E S \in SUBSET Curates(u) : Departs(u, S)
    <2> PICK u \in Users : \E S, minus, lost : Depart(u, S, minus, lost)
      BY <1>7, Zenon DEF Departs
    <2>1. PICK S, minus, lost : Depart(u, S, minus, lost)
      OBVIOUS
    <2>2. DropMembers(Departures(u, S)) /\ invites' \subseteq invites
      BY <2>1 DEF Depart, ClearInvites
    <2>3. QED
      BY <1>6, <2>2
  <1>8. ASSUME NEW s \in Teams, DeleteCurationTeam(s)
        PROVE  FALSE
    <2>1. DropMembers(Rosters({s})) /\ invites' \subseteq invites
      BY <1>8 DEF DeleteCurationTeam, ClearInvites
    <2>2. QED
      BY <1>6, <2>1
  <1>9. ASSUME NEW s \in Teams, NEW u \in Users, RemoveCuratorFromTeam(s, u)
        PROVE  FALSE
    <2>1. DropMembers({<<s, u>>}) /\ invites' \subseteq invites
      BY <1>9 DEF RemoveCuratorFromTeam, inviteVars
    <2>2. QED
      BY <1>6, <2>1
  <1>10. ASSUME NEW s \in Teams, NEW u \in Users, ClearInvite(s, u)
         PROVE  FALSE
    <2>1. UNCHANGED order /\ invites' \subseteq invites
      BY <1>10 DEF ClearInvite, ClearInvites, roster
    <2>2. QED
      BY <1>4, <2>1, NobodyNew
  <1>11. ASSUME NEW s \in Teams, NEW u \in Users, SetCurationTeamOwner(s, u)
         PROVE  FALSE
    BY <1>5, <1>11 DEF SetCurationTeamOwner, roster, inviteVars
  <1>12. ASSUME NEW s \in Teams, NEW u \in Users, NEW n \in Names, CreateCurationTeam(u, s, n)
         PROVE  Taken(t)' <= maxCurators
    <2>1. /\ teamState[s] = "none" /\ order' = [order EXCEPT ![s][u] = 1]
          /\ UNCHANGED invites
      BY <1>12 DEF CreateCurationTeam, inviteVars
    <2>2. Pending(t)' = Pending(t)
      BY <2>1 DEF Pending
    <2>3. CASE t # s
      BY <1>1, <1>4, <2>1, <2>2, <2>3, EnlistMembers DEF GainsNothing
    <2>4. CASE t = s
      <3>1. t \notin Live
        BY <2>1, <2>4 DEF Live
      <3>2. Members(t) = {}
        BY <3>1 DEF CurInv, RosterInv, MembersAreEligible
      <3>3. Pending(t) = {}
        <4>1. \A i \in invites : i[1] \in Live
          BY DEF CurInv, InviteInv, InvitesAreAnswerable
        <4>2. QED
          BY <3>1, <4>1 DEF Pending
      <3>4. Members(t)' \subseteq {u}
        BY <1>1, <2>1, <3>2, EnlistMembers
      <3>5. IsFiniteSet({}) /\ Cardinality({}) = 0
        BY FS_EmptySet
      <3>6. Cardinality(Members(t)') \in Nat /\ Cardinality(Members(t)') <= 0 + 1
        BY <3>4, <3>5, OneJoins
      <3>7. Taken(t)' = Cardinality(Members(t)') + 0
        BY <2>2, <3>3, <3>5 DEF Taken
      <3>8. maxCurators \in Nat \ {0}
        BY <1>1, CurationAssumption DEF TypeOK
      <3>9. QED
        BY <3>6, <3>7, <3>8
    <2>5. QED
      BY <2>3, <2>4
  <1>13. ASSUME NEW s \in Teams, NEW u \in Users, InviteCurator(s, u)
         PROVE  Taken(t)' <= maxCurators
    <2>1. /\ HasPlace(s) /\ UNCHANGED order /\ invites' = invites \cup {<<s, u>>}
      BY <1>13 DEF InviteCurator, MayInvite, roster
    <2>2. Members(t)' = Members(t)
      BY <2>1 DEF Members
    <2>3. Pending(t)' \subseteq Pending(t) \cup {u} /\ (t # s => Pending(t)' = Pending(t))
      BY <2>1 DEF Pending
    <2>4. t = s
      BY <1>4, <2>2, <2>3 DEF GainsNothing
    <2>5. TakesPlace(t, u)
      BY <2>1, <2>2, <2>3, <2>4 DEF TakesPlace
    <2>6. QED
      BY <1>1, <2>5, PlaceStep
  <1>14. ASSUME NEW s \in Teams, NEW u \in Users, GovAddCurator(s, u)
         PROVE  Taken(t)' <= maxCurators
    <2>1. /\ HasPlace(s) /\ UNCHANGED invites
          /\ order' = [order EXCEPT ![s][u] = AcceptedOrder(s)]
      BY <1>14 DEF GovAddCurator, MayInvite, Enroll, inviteVars
    <2>2. /\ Members(t)' \subseteq Members(t) \cup {u}
          /\ t # s => Members(t)' = Members(t)
      BY <1>1, <2>1, EnlistMembers
    <2>3. Pending(t)' = Pending(t)
      BY <2>1 DEF Pending
    <2>4. t = s
      BY <1>4, <2>2, <2>3 DEF GainsNothing
    <2>5. TakesPlace(t, u)
      BY <2>1, <2>2, <2>3, <2>4 DEF TakesPlace
    <2>6. QED
      BY <1>1, <2>5, PlaceStep
  <1>15. ASSUME NEW s \in Teams, NEW u \in Users, AcceptCuratorInvite(s, u)
         PROVE  FALSE
    <2>1. /\ <<s, u>> \in invites /\ invites' = invites \ {<<s, u>>}
          /\ order' = [order EXCEPT ![s][u] = AcceptedOrder(s)]
      BY <1>15 DEF AcceptCuratorInvite, ClearInvites, Enroll
    <2>2. /\ Members(t)' \subseteq Members(t) \cup {u}
          /\ t # s => Members(t)' = Members(t)
      BY <1>1, <2>1, EnlistMembers
    <2>3. /\ Pending(t)' \subseteq Pending(t)
          /\ t = s => u \in Pending(t) /\ Pending(t)' = Pending(t) \ {u}
      BY <2>1 DEF Pending
    <2>4. t = s
      BY <1>4, <2>2, <2>3 DEF GainsNothing
    <2>5. QED
      BY <1>3, <2>2, <2>3, <2>4, AcceptPlaces
  <1>16. QED
    BY <1>5, <1>7, <1>8, <1>9, <1>10, <1>11, <1>12, <1>13, <1>14, <1>15, RosterSteps, Zenon

\* Invitations reserve a place: no step takes curators and invitations together
\* above the cap.
THEOREM PlacesAreReserved == Spec => PlacesReserved
  <1>1. CurInv /\ [Next]_vars =>
            [\A t \in Teams : Taken(t)' > Taken(t) => Taken(t)' <= maxCurators]_vars
    BY ReservedStep
  <1>2. QED
    BY <1>1, CurationInvariant, PTL DEF Spec, PlacesReserved

\* A team passes to the eligible curator that accepted first when its owner leaves.
THEOREM OldestSucceeds == Spec => SuccessionIsOldest
  <1>1. CurInv /\ CurInv' /\ [Next]_vars =>
            [\A t \in Live \ ousted :
                (owner'[t] # owner[t] /\ order'[t][owner[t]] = 0) =>
                    /\ order'[t][owner'[t]] > 0
                    /\ owner'[t] \in paid' \cup admins'
                    /\ \A v \in paid' \cup admins' :
                          order'[t][v] > 0 => order'[t][owner'[t]] <= order'[t][v]]_vars
    BY SuccessionStep
  <1>2. QED
    BY <1>1, CurationInvariant, PTL DEF Spec, SuccessionIsOldest

\* A lapse or a departure deletes a team only if no other eligible curator is on it.
THEOREM TeamsOutliveOwners == Spec => TeamOutlivesOwner
  <1>1. CurInv /\ [Next]_vars =>
            [\A t \in Live :
                (teamState'[t] # "live" /\ <<eligibility, pref>>' # <<eligibility, pref>>) =>
                    Successors(t, owner[t]) = {}]_vars
    BY OutlivesStep
  <1>2. QED
    BY <1>1, CurationInvariant, PTL DEF Spec, TeamOutlivesOwner
=============================================================================
