---------------------------- MODULE CurationInv -----------------------------
(***************************************************************************)
(* The inductive invariant of Curation: what the keeper helpers do to the  *)
(* counters and rosters it is about, the steps that leave it alone, and    *)
(* the steps that change a roster, a lens or a ban.                        *)
(***************************************************************************)
EXTENDS Curation, FiniteSetTheorems, WellFoundedInduction, TLAPS

\* Teams are finitely many, so that the counters count finite sets.
LEMMA TeamsFinite == IsFiniteSet(Teams)
  <1>1. IsFiniteSet(1..MaxTeams)
    BY FS_Interval, CurationAssumption
  <1>2. QED
    BY <1>1, FS_Product, CurationAssumption DEF Teams

\* A non-empty set of natural numbers has a least element.
LEMMA LeastNatural ==
  ASSUME NEW T, T \subseteq Nat, T # {}
  PROVE  \E x \in T : \A y \in T : x <= y
  <1> DEFINE Less == {ss \in Nat \X Nat : ss[1] < ss[2]}
  <1>1. OpToRel(<, Nat) = Less
    BY Zenon DEF OpToRel
  <1>2. IsWellFoundedOn(Less, Nat)
    BY <1>1, NatLessThanWellFounded, Zenon
  <1> HIDE DEF Less
  <1>3. PICK x \in T : \A y \in T : <<y, x>> \notin Less
    BY <1>2, WFMin, Zenon
  <1>4. ASSUME NEW y \in T
        PROVE  x <= y
    <2>1. x \in Nat /\ y \in Nat /\ <<y, x>> \notin Less
      BY <1>3
    <2>2. ~(y < x)
      BY <2>1 DEF Less
    <2>3. QED
      BY <2>1, <2>2
  <1>5. QED
    BY <1>4

-----------------------------------------------------------------------------
(***************************************************************************)
(* The inductive invariant.  The three counters are taken apart, because   *)
(* they change in different handlers; BansExist is what PinNotBanned needs *)
(* when a team is created.                                                 *)
(***************************************************************************)
MemberTeams(u) == {t \in Teams : u \in Members(t)}
InvitingTeams(u) == {t \in Teams : u \in Pending(t)}
JoinedIn(u) == {c \in Communities : Joined(u, c)}

MemberCounts == \A u \in Users : memberCount[u] = Cardinality(MemberTeams(u))
InviteCounts == \A u \in Users : inviteCount[u] = Cardinality(InvitingTeams(u))
JoinCounts == \A u \in Users : joinCount[u] = Cardinality(JoinedIn(u))

\* Only teams that were created have banned anybody.
BansExist == \A b \in banned : teamState[b[1]] # "none"

RosterInv == MembershipAgrees /\ MemberCounts /\ OrdersDistinct /\ MembersAreEligible
InviteInv == InviteCounts /\ InvitesAreAnswerable
LensInv == JoinCounts /\ PinNotBanned /\ BansExist
CurInv == TypeOK /\ RosterInv /\ OwnerIsCurator /\ InviteInv /\ NamesAgree /\ LensInv

\* RemoveCuratorFromTeam deletes both keys of every membership it is called for
\* and takes each of them off the counter of its account.
LEMMA DropEffect ==
  ASSUME TypeOK, MembershipAgrees, MemberCounts,
         NEW R \in SUBSET (Teams \X Users), CanDrop(R), DropMembers(R)
  PROVE  /\ order' \in [Teams -> [Users -> Nat]]
         /\ memberOf' \in [Users -> [Communities -> 0..MaxTeams]]
         /\ memberCount' \in [Users -> Nat]
         /\ \A t \in Teams, u \in Users :
               order'[t][u] = IF <<t, u>> \in R THEN 0 ELSE order[t][u]
         /\ MembershipAgrees'
         /\ MemberCounts'
  <1>1. order' \in [Teams -> [Users -> Nat]]
    BY DEF TypeOK, DropMembers
  <1>2. \A t \in Teams, u \in Users :
           order'[t][u] = IF <<t, u>> \in R THEN 0 ELSE order[t][u]
    BY DEF DropMembers
  <1>3. memberOf' \in [Users -> [Communities -> 0..MaxTeams]]
    <2>1. 0 \in 0..MaxTeams
      BY CurationAssumption
    <2>2. ASSUME NEW u \in Users, NEW c \in Communities
          PROVE  (IF \E t \in Teams : t[1] = c /\ <<t, u>> \in R
                  THEN 0 ELSE memberOf[u][c]) \in 0..MaxTeams
      <3>1. memberOf[u][c] \in 0..MaxTeams
        BY DEF TypeOK
      <3>2. QED
        BY <2>1, <3>1, Zenon
    <2>3. QED
      BY <2>2, Zenon DEF DropMembers
  <1>4. MembershipAgrees'
    <2> SUFFICES ASSUME NEW t \in Teams, NEW u \in Users
                 PROVE  order'[t][u] > 0 <=> memberOf'[u][t[1]] = t[2]
      BY DEF MembershipAgrees
    <2>1. t[1] \in Communities /\ t[2] \in 1..MaxTeams /\ t = <<t[1], t[2]>>
      BY DEF Teams
    <2>2. memberOf'[u][t[1]] = IF \E s \in Teams : s[1] = t[1] /\ <<s, u>> \in R
                               THEN 0 ELSE memberOf[u][t[1]]
      BY <2>1 DEF DropMembers
    <2>3. \A s \in Teams : <<s, u>> \in R => memberOf[u][s[1]] = s[2]
      BY DEF CanDrop, MembershipAgrees
    <2>4. \A s \in Teams : s[1] = t[1] /\ s[2] = t[2] => s = t
      BY DEF Teams
    <2>5. order[t][u] > 0 <=> memberOf[u][t[1]] = t[2]
      BY DEF MembershipAgrees
    <2>6. CASE <<t, u>> \in R
      <3>1. order'[t][u] = 0 /\ memberOf'[u][t[1]] = 0
        BY <1>2, <2>2, <2>6, Zenon
      <3>2. QED
        BY <3>1, <2>1
    <2>7. CASE <<t, u>> \notin R
      <3>1. order'[t][u] = order[t][u]
        BY <1>2, <2>7
      <3>2. CASE \E s \in Teams : s[1] = t[1] /\ <<s, u>> \in R
        <4>1. memberOf[u][t[1]] # t[2]
          BY <3>2, <2>3, <2>4, <2>7
        <4>2. memberOf'[u][t[1]] = 0
          BY <3>2, <2>2, Zenon
        <4>3. t[2] # 0
          BY <2>1
        <4>4. QED
          BY <3>1, <4>1, <4>2, <4>3, <2>5
      <3>3. CASE ~\E s \in Teams : s[1] = t[1] /\ <<s, u>> \in R
        BY <3>1, <3>3, <2>2, <2>5
      <3>4. QED
        BY <3>2, <3>3
    <2>8. QED
      BY <2>6, <2>7
  <1>5. ASSUME NEW u \in Users
        PROVE  memberCount'[u] = Cardinality(MemberTeams(u)') /\ memberCount'[u] \in Nat
    <2> DEFINE D == {t \in Teams : <<t, u>> \in R}
    <2>1. IsFiniteSet(MemberTeams(u))
      BY TeamsFinite, FS_Subset DEF MemberTeams
    <2>2. MemberTeams(u)' = MemberTeams(u) \ D
      BY <1>2 DEF MemberTeams, Members
    <2>3. MemberTeams(u) \cap D = D
      BY DEF MemberTeams, Members, CanDrop
    <2>4. memberCount'[u] = Cardinality(MemberTeams(u)) - Cardinality(D)
      BY DEF DropMembers, MemberCounts
    <2> HIDE DEF D
    <2>5. /\ IsFiniteSet(MemberTeams(u) \ D)
          /\ Cardinality(MemberTeams(u) \ D) = Cardinality(MemberTeams(u)) - Cardinality(D)
      BY <2>1, <2>3, FS_Difference, Zenon
    <2>6. QED
      BY <2>2, <2>4, <2>5, FS_CardinalityType
  <1>6. memberCount' \in [Users -> Nat]
    BY <1>5 DEF DropMembers
  <1>7. MemberCounts'
    BY <1>5 DEF MemberCounts
  <1>8. QED
    BY <1>1, <1>2, <1>3, <1>4, <1>6, <1>7

\* clearInvite takes every invitation it deletes off the counter of its account.
LEMMA ClearEffect ==
  ASSUME TypeOK, InviteCounts, NEW I, ClearInvites(I)
  PROVE  /\ invites' = invites \ I
         /\ inviteCount' \in [Users -> Nat]
         /\ InviteCounts'
  <1>1. ASSUME NEW u \in Users
        PROVE  inviteCount'[u] = Cardinality(InvitingTeams(u)') /\ inviteCount'[u] \in Nat
    <2> DEFINE D == {t \in Teams : <<t, u>> \in I \cap invites}
    <2>1. IsFiniteSet(InvitingTeams(u))
      BY TeamsFinite, FS_Subset DEF InvitingTeams
    <2>2. InvitingTeams(u)' = InvitingTeams(u) \ D
      BY DEF InvitingTeams, Pending, ClearInvites
    <2>3. InvitingTeams(u) \cap D = D
      BY DEF InvitingTeams, Pending
    <2>4. inviteCount'[u] = Cardinality(InvitingTeams(u)) - Cardinality(D)
      BY DEF ClearInvites, InviteCounts
    <2> HIDE DEF D
    <2>5. /\ IsFiniteSet(InvitingTeams(u) \ D)
          /\ Cardinality(InvitingTeams(u) \ D) = Cardinality(InvitingTeams(u)) - Cardinality(D)
      BY <2>1, <2>3, FS_Difference
    <2>6. QED
      BY <2>2, <2>4, <2>5, FS_CardinalityType
  <1>2. QED
    BY <1>1 DEF InviteCounts, ClearInvites

\* adjustTeamSubscriberCount never takes a count below zero.
LEMMA MovedType ==
  ASSUME TypeOK, NEW minus, NEW plus, CanTake(minus)
  PROVE  Moved(minus, plus) \in [Teams -> Nat]
  <1>1. ASSUME NEW t \in Teams
        PROVE  (subs[t] - (IF t \in minus THEN 1 ELSE 0))
               + (IF t \in plus THEN 1 ELSE 0) \in Nat
    <2>1. subs[t] \in Nat /\ (t \in minus => subs[t] > 0)
      BY DEF TypeOK, CanTake
    <2>2. QED
      BY <2>1
  <1>2. QED
    BY <1>1 DEF Moved

\* Storing a preference counts a community once, when the user was not in it.
LEMMA JoinEffect ==
  ASSUME TypeOK, JoinCounts, NEW u \in Users, NEW c \in Communities,
         NEW p \in Pref, p.mode # "none",
         pref' = [pref EXCEPT ![u][c] = p], Joins(u, c)
  PROVE  /\ pref' \in [Users -> [Communities -> Pref]]
         /\ joinCount' \in [Users -> Nat]
         /\ JoinCounts'
  <1>1. pref' \in [Users -> [Communities -> Pref]]
    BY DEF TypeOK
  <1>2. ASSUME NEW v \in Users
        PROVE  IsFiniteSet(JoinedIn(v))
    BY FS_Subset, CurationAssumption DEF JoinedIn
  <1>3. ASSUME NEW v \in Users, v # u
        PROVE  joinCount'[v] = Cardinality(JoinedIn(v)') /\ joinCount'[v] \in Nat
    <2>1. JoinedIn(v)' = JoinedIn(v)
      BY <1>3 DEF JoinedIn, Joined, TypeOK
    <2>2. joinCount'[v] = joinCount[v] /\ joinCount[v] \in Nat
      BY <1>3 DEF Joins, TypeOK
    <2>3. QED
      BY <2>1, <2>2 DEF JoinCounts
  <1>4. joinCount'[u] = Cardinality(JoinedIn(u)') /\ joinCount'[u] \in Nat
    <2>1. JoinedIn(u)' = JoinedIn(u) \cup {c}
      <3>1. \A d \in Communities : pref'[u][d] = IF d = c THEN p ELSE pref[u][d]
        BY DEF TypeOK
      <3>2. \A d \in Communities : pref'[u][d].mode # "none" <=> d = c \/ pref[u][d].mode # "none"
        BY <3>1
      <3>3. QED
        BY <3>2 DEF JoinedIn, Joined
    <2>2. joinCount'[u] = (IF Joined(u, c) THEN joinCount[u] ELSE joinCount[u] + 1)
      BY DEF Joins, TypeOK
    <2>3. joinCount[u] = Cardinality(JoinedIn(u)) /\ joinCount[u] \in Nat
      BY DEF JoinCounts, TypeOK
    <2>4. Joined(u, c) <=> c \in JoinedIn(u)
      BY DEF JoinedIn
    <2>5. Cardinality(JoinedIn(u) \cup {c}) =
             IF c \in JoinedIn(u) THEN Cardinality(JoinedIn(u))
                                  ELSE Cardinality(JoinedIn(u)) + 1
      BY <1>2, FS_AddElement, Zenon
    <2>6. QED
      BY <2>1, <2>2, <2>3, <2>4, <2>5
  <1>5. joinCount' \in [Users -> Nat]
    BY <1>3, <1>4 DEF Joins, TypeOK
  <1>6. QED
    BY <1>1, <1>3, <1>4, <1>5 DEF JoinCounts

\* Leaving a joined community takes it off the counter.
LEMMA LeaveEffect ==
  ASSUME TypeOK, JoinCounts, NEW u \in Users, NEW c \in Communities, Joined(u, c),
         pref' = [pref EXCEPT ![u][c] = NotJoined],
         joinCount' = [joinCount EXCEPT ![u] = @ - 1]
  PROVE  /\ pref' \in [Users -> [Communities -> Pref]]
         /\ joinCount' \in [Users -> Nat]
         /\ JoinCounts'
  <1>1. NotJoined \in Pref /\ NotJoined.mode = "none"
    BY CurationAssumption DEF NotJoined, Pref
  <1>2. pref' \in [Users -> [Communities -> Pref]]
    BY <1>1 DEF TypeOK
  <1>3. ASSUME NEW v \in Users, v # u
        PROVE  joinCount'[v] = Cardinality(JoinedIn(v)') /\ joinCount'[v] \in Nat
    <2>1. JoinedIn(v)' = JoinedIn(v)
      BY <1>3 DEF JoinedIn, Joined, TypeOK
    <2>2. joinCount'[v] = joinCount[v] /\ joinCount[v] \in Nat
      BY <1>3 DEF TypeOK
    <2>3. QED
      BY <2>1, <2>2 DEF JoinCounts
  <1>4. joinCount'[u] = Cardinality(JoinedIn(u)') /\ joinCount'[u] \in Nat
    <2>1. JoinedIn(u)' = JoinedIn(u) \ {c}
      BY <1>1 DEF JoinedIn, Joined, TypeOK
    <2>2. joinCount'[u] = Cardinality(JoinedIn(u)) - 1
      BY DEF JoinCounts, TypeOK
    <2>3. c \in JoinedIn(u)
      BY DEF JoinedIn
    <2>4. IsFiniteSet(JoinedIn(u))
      BY FS_Subset, CurationAssumption DEF JoinedIn
    <2>5. /\ IsFiniteSet(JoinedIn(u) \ {c})
          /\ Cardinality(JoinedIn(u) \ {c}) = Cardinality(JoinedIn(u)) - 1
      BY <2>3, <2>4, FS_RemoveElement
    <2>6. QED
      BY <2>1, <2>2, <2>5, FS_CardinalityType
  <1>5. joinCount' \in [Users -> Nat]
    BY <1>3, <1>4 DEF TypeOK
  <1>6. QED
    BY <1>2, <1>3, <1>4, <1>5 DEF JoinCounts

\* A new member gets both keys and is counted once: nobody is enlisted who
\* curates in the community already.
LEMMA EnlistEffect ==
  ASSUME TypeOK, MembershipAgrees, MemberCounts,
         NEW t \in Teams, NEW u \in Users, NEW k \in Nat \ {0},
         memberOf[u][t[1]] = 0,
         order' = [order EXCEPT ![t][u] = k],
         memberOf' = [memberOf EXCEPT ![u][t[1]] = t[2]],
         memberCount' = [memberCount EXCEPT ![u] = @ + 1]
  PROVE  /\ order' \in [Teams -> [Users -> Nat]]
         /\ memberOf' \in [Users -> [Communities -> 0..MaxTeams]]
         /\ memberCount' \in [Users -> Nat]
         /\ \A s \in Teams, v \in Users :
               order'[s][v] = IF s = t /\ v = u THEN k ELSE order[s][v]
         /\ MembershipAgrees'
         /\ MemberCounts'
  <1>1. order' \in [Teams -> [Users -> Nat]]
    BY DEF TypeOK
  <1>2. \A s \in Teams, v \in Users :
           order'[s][v] = IF s = t /\ v = u THEN k ELSE order[s][v]
    BY DEF TypeOK
  <1>3. t[1] \in Communities /\ t[2] \in 1..MaxTeams /\ t[2] \in 0..MaxTeams
    BY CurationAssumption DEF Teams
  <1>4. memberOf' \in [Users -> [Communities -> 0..MaxTeams]]
    BY <1>3 DEF TypeOK
  <1>5. MembershipAgrees'
    <2> SUFFICES ASSUME NEW s \in Teams, NEW v \in Users
                 PROVE  order'[s][v] > 0 <=> memberOf'[v][s[1]] = s[2]
      BY DEF MembershipAgrees
    <2>1. s[1] \in Communities /\ s[2] \in 1..MaxTeams
      BY DEF Teams
    <2>2. memberOf'[v][s[1]] = IF v = u /\ s[1] = t[1] THEN t[2] ELSE memberOf[v][s[1]]
      BY <1>3, <2>1 DEF TypeOK
    <2>3. order[s][v] > 0 <=> memberOf[v][s[1]] = s[2]
      BY DEF MembershipAgrees
    <2>4. CASE s = t /\ v = u
      BY <1>2, <2>2, <2>4
    <2>5. CASE s # t /\ v = u /\ s[1] = t[1]
      <3>1. s[2] # t[2]
        BY <2>5 DEF Teams
      <3>2. ~(order[s][v] > 0)
        BY <2>1, <2>3, <2>5
      <3>3. order'[s][v] = order[s][v] /\ memberOf'[v][s[1]] = t[2]
        BY <1>2, <2>2, <2>5
      <3>4. QED
        BY <3>1, <3>2, <3>3
    <2>6. CASE v # u \/ s[1] # t[1]
      <3>1. order'[s][v] = order[s][v] /\ memberOf'[v][s[1]] = memberOf[v][s[1]]
        BY <1>2, <2>2, <2>6
      <3>2. QED
        BY <3>1, <2>3
    <2>7. QED
      BY <2>4, <2>5, <2>6
  <1>6. ASSUME NEW v \in Users
        PROVE  memberCount'[v] = Cardinality(MemberTeams(v)') /\ memberCount'[v] \in Nat
    <2>1. memberCount[v] = Cardinality(MemberTeams(v)) /\ memberCount[v] \in Nat
      BY DEF MemberCounts, TypeOK
    <2>2. CASE v # u
      <3>1. MemberTeams(v)' = MemberTeams(v)
        BY <1>2, <2>2 DEF MemberTeams, Members
      <3>2. memberCount'[v] = memberCount[v]
        BY <2>2 DEF TypeOK
      <3>3. QED
        BY <2>1, <3>1, <3>2
    <2>3. CASE v = u
      <3>1. MemberTeams(u)' = MemberTeams(u) \cup {t}
        BY <1>2 DEF MemberTeams, Members
      <3>2. ~(order[t][u] > 0)
        BY <1>3 DEF MembershipAgrees
      <3>3. t \notin MemberTeams(u)
        BY <3>2 DEF MemberTeams, Members
      <3>4. IsFiniteSet(MemberTeams(u))
        BY TeamsFinite, FS_Subset DEF MemberTeams
      <3>5. Cardinality(MemberTeams(u) \cup {t}) = Cardinality(MemberTeams(u)) + 1
        BY <3>3, <3>4, FS_AddElement, Zenon
      <3>6. memberCount'[u] = memberCount[u] + 1
        BY DEF TypeOK
      <3>7. QED
        BY <2>1, <2>3, <3>1, <3>5, <3>6
    <2>4. QED
      BY <2>2, <2>3
  <1>7. memberCount' \in [Users -> Nat]
    BY <1>6 DEF TypeOK
  <1>8. MemberCounts'
    BY <1>6 DEF MemberCounts
  <1>9. QED
    BY <1>1, <1>2, <1>4, <1>5, <1>7, <1>8
-----------------------------------------------------------------------------
(***************************************************************************)
(* Steps that leave teams, rosters and invitations alone.                  *)
(***************************************************************************)
Entitled(u) == CanCurate(u) \/ u \in forgotten

\* If nobody loses the right to curate but by deletion, teams that are not
\* touched stay in order.
LEMMA TeamsFrame ==
  ASSUME CurInv, UNCHANGED <<teamVars, roster, inviteVars, ousted>>,
         \A u \in Users : Entitled(u) => Entitled(u)'
  PROVE  RosterInv' /\ OwnerIsCurator' /\ InviteInv' /\ NamesAgree'
  <1> USE DEF CurInv, RosterInv, InviteInv, teamVars, roster, inviteVars
  <1>1. MembershipAgrees' /\ MemberCounts' /\ OrdersDistinct'
    BY DEF MembershipAgrees, MemberCounts, MemberTeams, OrdersDistinct, Members
  <1>2. MembersAreEligible'
    BY DEF MembersAreEligible, Members, Live, Entitled
  <1>3. OwnerIsCurator'
    BY DEF OwnerIsCurator, Members, Live
  <1>4. InviteCounts'
    BY DEF InviteCounts, InvitingTeams, Pending
  <1>5. InvitesAreAnswerable'
    BY DEF InvitesAreAnswerable, Members, Live, Entitled, TypeOK
  <1>6. NamesAgree'
    BY DEF NamesAgree, Live
  <1>7. QED
    BY <1>1, <1>2, <1>3, <1>4, <1>5, <1>6

\* Lenses that are not touched stay in order while teams are only deleted.
LEMMA LensFrame ==
  ASSUME TypeOK, LensInv, UNCHANGED <<joinVars, banned>>,
         \A t \in Teams : /\ teamState'[t] = "live" => teamState[t] = "live"
                          /\ teamState'[t] = "none" => teamState[t] = "none"
  PROVE  LensInv'
  <1> USE DEF LensInv, joinVars
  <1>1. JoinCounts'
    BY DEF JoinCounts, JoinedIn, Joined
  <1>2. PinNotBanned'
    BY DEF PinNotBanned, PinnedTeam, Live
  <1>3. BansExist'
    BY DEF BansExist, TypeOK
  <1>4. QED
    BY <1>1, <1>2, <1>3

\* What TypeOK says of the accounts.
EligibilityOK == profiles \subseteq Users /\ paid \subseteq profiles /\ admins \subseteq profiles

\* TransitionCurationEligibility of an account that keeps its right to curate.
LEMMA KeepStep ==
  ASSUME CurInv, KeepEligibility, EligibilityOK',
         \A u \in Users : Entitled(u) => Entitled(u)'
  PROVE  CurInv'
  <1>1. TypeOK'
    BY DEF CurInv, KeepEligibility, EligibilityOK, TypeOK, teamVars, roster, inviteVars,
           joinVars, history
  <1>2. RosterInv' /\ OwnerIsCurator' /\ InviteInv' /\ NamesAgree'
    BY TeamsFrame DEF KeepEligibility, history
  <1>3. LensInv'
    BY LensFrame DEF CurInv, KeepEligibility, teamVars
  <1>4. QED
    BY <1>1, <1>2, <1>3 DEF CurInv

\* TransitionCurationEligibility of an account that may curate now: its pins are
\* added to the counts of the teams.
LEMMA GainStep ==
  ASSUME CurInv, NEW u \in Users, GainEligibility(u), EligibilityOK',
         \A v \in Users : Entitled(v) => Entitled(v)'
  PROVE  CurInv'
  <1>1. subs' \in [Teams -> Nat]
    BY MovedType DEF CurInv, GainEligibility, CanTake
  <1>2. TypeOK'
    BY <1>1 DEF CurInv, GainEligibility, EligibilityOK, TypeOK, teamVars, roster, inviteVars,
                joinVars, history
  <1>3. RosterInv' /\ OwnerIsCurator' /\ InviteInv' /\ NamesAgree'
    BY TeamsFrame DEF GainEligibility, history
  <1>4. LensInv'
    BY LensFrame DEF CurInv, GainEligibility, teamVars
  <1>5. QED
    BY <1>2, <1>3, <1>4 DEF CurInv
\* Nobody's right to curate changes in a step that leaves the accounts alone.
LEMMA EntitledFrame ==
  ASSUME UNCHANGED <<eligibility, forgotten>>
  PROVE  \A v \in Users : Entitled(v)' <=> Entitled(v)
  BY DEF Entitled, CanCurate, eligibility

\* Rosters whose keys and curators do not change stay as they are.
LEMMA RosterFrame ==
  ASSUME RosterInv,
         UNCHANGED <<teamState, nextOrder, order, memberOf, memberCount, paid, admins, forgotten>>
  PROVE  RosterInv'
  <1> USE DEF RosterInv
  <1>1. MembershipAgrees'
    BY DEF MembershipAgrees
  <1>2. MemberCounts'
    BY DEF MemberCounts, MemberTeams, Members
  <1>3. OrdersDistinct'
    BY DEF OrdersDistinct, Members
  <1>4. MembersAreEligible'
    BY DEF MembersAreEligible, Members, Live, CanCurate
  <1>5. QED
    BY <1>1, <1>2, <1>3, <1>4

\* Taking members off keeps the accepted orders of the others distinct.
LEMMA OrdersShrink ==
  ASSUME TypeOK, OrdersDistinct, UNCHANGED nextOrder,
         \A t \in Teams, v \in Users : order'[t][v] \in {0, order[t][v]}
  PROVE  OrdersDistinct'
  <1> SUFFICES ASSUME NEW t \in Teams, NEW v \in Users, NEW w \in Users,
                      order'[t][v] > 0, order'[t][w] > 0
               PROVE  /\ order'[t][v] < nextOrder'[t]
                      /\ order'[t][v] = order'[t][w] => v = w
    BY DEF OrdersDistinct, Members
  <1>1. order'[t][v] = order[t][v] /\ order'[t][w] = order[t][w]
    OBVIOUS
  <1>2. v \in Members(t) /\ w \in Members(t)
    BY <1>1 DEF Members
  <1>3. QED
    BY <1>1, <1>2 DEF OrdersDistinct

\* The name keys follow the deletion of live teams.
LEMMA NamesShrink ==
  ASSUME NamesAgree, NEW gone \in SUBSET Live, UNCHANGED name,
         nameKeys' = nameKeys \ {<<t[1], name[t]>> : t \in gone},
         \A t \in Teams : t \in Live' <=> t \in Live /\ t \notin gone
  PROVE  NamesAgree'
  <1>1. Live' = Live \ gone
    BY DEF Live
  <1>2. nameKeys = {<<t[1], name[t]>> : t \in Live}
    BY DEF NamesAgree
  <1>3. \A s, t \in Live : <<s[1], name[s]>> = <<t[1], name[t]>> => s = t
    BY DEF NamesAgree
  <1>4. nameKeys' = {<<t[1], name[t]>> : t \in Live \ gone}
    BY <1>2, <1>3
  <1>5. QED
    BY <1>1, <1>3, <1>4 DEF NamesAgree

-----------------------------------------------------------------------------
(***************************************************************************)
(* Accounts: an account that loses its eligibility leaves every team, and  *)
(* a team it owned passes to an heir or is deleted.                        *)
(***************************************************************************)
\* A team that has an eligible curator besides its owner has an oldest one.
LEMMA HeirExists ==
  ASSUME TypeOK, NEW t \in Teams, NEW u \in Users, Successors(t, u) # {}
  PROVE  /\ Heir(t, u) \in Successors(t, u)
         /\ \A w \in Successors(t, u) : order[t][Heir(t, u)] <= order[t][w]
  <1> DEFINE Orders == {order[t][v] : v \in Successors(t, u)}
  <1>1. Successors(t, u) \subseteq Users
    BY DEF Successors, Members
  <1>2. Orders \subseteq Nat /\ Orders # {}
    <2>1. \A v \in Successors(t, u) : order[t][v] \in Nat
      BY <1>1 DEF TypeOK
    <2>2. PICK v \in Successors(t, u) : TRUE
      OBVIOUS
    <2>3. order[t][v] \in Orders
      BY <2>2
    <2>4. QED
      BY <2>1, <2>3
  <1>3. PICK k \in Orders : \A m \in Orders : k <= m
    BY <1>2, LeastNatural, Zenon
  <1>4. \E v \in Successors(t, u) :
           \A w \in Successors(t, u) : order[t][v] <= order[t][w]
    BY <1>3
  <1>5. QED
    BY <1>4, Zenon DEF Heir

\* Who is on which roster after u has left the teams S: a team that is deleted
\* has nobody, and u is on none of S.
LEMMA DepartRosters ==
  ASSUME CurInv, NEW u \in Users, NEW S \in SUBSET Curates(u), NEW minus, NEW lost,
         Depart(u, S, minus, lost)
  PROVE  /\ order' \in [Teams -> [Users -> Nat]]
         /\ memberOf' \in [Users -> [Communities -> 0..MaxTeams]]
         /\ memberCount' \in [Users -> Nat]
         /\ \A t \in Teams, v \in Users :
               order'[t][v] = IF t \in Gone(u, S) \/ (t \in S /\ v = u)
                              THEN 0 ELSE order[t][v]
         /\ MembershipAgrees'
         /\ MemberCounts'
  <1> DEFINE R == Departures(u, S)
  <1>1. S \subseteq Teams /\ Gone(u, S) \subseteq S
    BY DEF Curates, Live, Gone
  <1>2. R \in SUBSET (Teams \X Users)
    BY <1>1 DEF Departures, Rosters
  <1>3. CanDrop(R) /\ DropMembers(R)
    BY DEF Depart, CanDepart
  <1>4. \A t \in Teams, v \in Users :
           <<t, v>> \in R <=> \/ t \in Gone(u, S) /\ order[t][v] > 0
                              \/ t \in S \ Gone(u, S) /\ v = u
    BY <1>1 DEF Departures, Rosters
  <1> HIDE DEF R
  <1>5. /\ order' \in [Teams -> [Users -> Nat]]
        /\ memberOf' \in [Users -> [Communities -> 0..MaxTeams]]
        /\ memberCount' \in [Users -> Nat]
        /\ \A t \in Teams, v \in Users :
              order'[t][v] = IF <<t, v>> \in R THEN 0 ELSE order[t][v]
        /\ MembershipAgrees'
        /\ MemberCounts'
    BY <1>2, <1>3, DropEffect DEF CurInv, RosterInv
  <1>6. ASSUME NEW t \in Teams, NEW v \in Users
        PROVE  order'[t][v] = IF t \in Gone(u, S) \/ (t \in S /\ v = u)
                              THEN 0 ELSE order[t][v]
    <2>1. order[t][v] \in Nat
      BY DEF CurInv, TypeOK
    <2>2. order'[t][v] = IF <<t, v>> \in R THEN 0 ELSE order[t][v]
      BY <1>5
    <2>3. <<t, v>> \in R <=> \/ t \in Gone(u, S) /\ order[t][v] > 0
                             \/ t \in S \ Gone(u, S) /\ v = u
      BY <1>4
    <2>4. QED
      BY <1>1, <2>1, <2>2, <2>3
  <1>7. QED
    BY <1>5, <1>6

\* The departure keeps teams, names, rosters and invitations in order: a team of
\* the departing user has passed to its heir or is deleted with all its keys.
LEMMA DepartStep ==
  ASSUME CurInv, NEW u \in Users, NEW S \in SUBSET Curates(u), NEW minus, NEW lost,
         Depart(u, S, minus, lost), UNCHANGED ousted,
         \A v \in Users : Entitled(v) =>
             Entitled(v)' \/ (v = u /\ S = Curates(u) /\ lost = InvitesTo(u))
  PROVE  /\ RosterInv' /\ OwnerIsCurator' /\ InviteInv' /\ NamesAgree'
         /\ teamState' \in [Teams -> {"none", "live", "deleted"}]
         /\ owner' \in [Teams -> Users \cup {Nobody}]
         /\ subs' \in [Teams -> Nat]
         /\ nameKeys' \subseteq Communities \X Names
         /\ order' \in [Teams -> [Users -> Nat]]
         /\ memberOf' \in [Users -> [Communities -> 0..MaxTeams]]
         /\ memberCount' \in [Users -> Nat]
         /\ invites' \subseteq Teams \X Users
         /\ inviteCount' \in [Users -> Nat]
         /\ \A t \in Teams : /\ teamState'[t] = "live" => teamState[t] = "live"
                             /\ teamState'[t] = "none" => teamState[t] = "none"
  <1> DEFINE gone == Gone(u, S)
  <1>1. S \subseteq Live /\ gone \subseteq S /\ Live \subseteq Teams
    BY DEF Curates, Live, Gone
  <1>2. TypeOK
    BY DEF CurInv
  <1>3. /\ teamState' = [t \in Teams |-> IF t \in gone THEN "deleted" ELSE teamState[t]]
        /\ nameKeys' = nameKeys \ {<<t[1], name[t]>> : t \in gone}
        /\ name' = name /\ nextOrder' = nextOrder
    BY DEF Depart, Dissolve
  <1>4. \A t \in Teams : t \in Live' <=> t \in Live /\ t \notin gone
    BY <1>3 DEF Live
  <1>5. /\ order' \in [Teams -> [Users -> Nat]]
        /\ memberOf' \in [Users -> [Communities -> 0..MaxTeams]]
        /\ memberCount' \in [Users -> Nat]
        /\ \A t \in Teams, v \in Users :
              order'[t][v] = IF t \in gone \/ (t \in S /\ v = u) THEN 0 ELSE order[t][v]
        /\ MembershipAgrees'
        /\ MemberCounts'
    BY DepartRosters
  <1>6. ClearInvites(lost \cup InvitesOf(gone))
    BY DEF Depart
  <1>7. /\ invites' = invites \ (lost \cup InvitesOf(gone))
        /\ inviteCount' \in [Users -> Nat]
        /\ InviteCounts'
    BY <1>2, <1>6, ClearEffect DEF CurInv, InviteInv
  <1>8. owner' = [t \in Teams |-> IF t \in S \ gone /\ owner[t] = u
                                  THEN Heir(t, u) ELSE owner[t]]
    BY DEF Depart
  <1>9. \A t \in S \ gone : owner[t] = u => Heir(t, u) \in Successors(t, u)
    BY <1>1, <1>2, HeirExists DEF Gone
  <1>10. subs' \in [Teams -> Nat]
    <2>1. subs' = [t \in Teams |-> IF t \in gone THEN 0 ELSE Moved(minus, {})[t]]
      BY DEF Depart
    <2>2. Moved(minus, {}) \in [Teams -> Nat]
      BY <1>2, MovedType DEF Depart, CanDepart
    <2>3. QED
      BY <2>1, <2>2
  <1> HIDE DEF gone
  <1>11. OrdersDistinct'
    BY <1>2, <1>3, <1>5, OrdersShrink DEF CurInv, RosterInv
  <1>12. MembersAreEligible'
    <2> SUFFICES ASSUME NEW t \in Teams, NEW v \in Users, order'[t][v] > 0
                 PROVE  t \in Live' /\ Entitled(v)'
      BY DEF MembersAreEligible, Members, Entitled
    <2>1. t \notin gone /\ ~(t \in S /\ v = u) /\ order[t][v] > 0
      BY <1>5
    <2>2. t \in Live /\ Entitled(v)
      BY <2>1 DEF CurInv, RosterInv, MembersAreEligible, Members, Entitled
    <2>3. v = u => t \in Curates(u)
      BY <2>1, <2>2 DEF CurInv, RosterInv, MembershipAgrees, Curates
    <2>4. QED
      BY <1>4, <2>1, <2>2, <2>3
  <1>13. OwnerIsCurator'
    <2> SUFFICES ASSUME NEW t \in Teams, t \in Live', t \notin ousted
                 PROVE  owner'[t] \in Users /\ order'[t][owner'[t]] > 0
      BY DEF OwnerIsCurator, Members, Live
    <2>1. t \in Live /\ t \notin gone
      BY <1>4
    <2>2. owner[t] \in Users /\ order[t][owner[t]] > 0
      BY <2>1 DEF CurInv, OwnerIsCurator, Members
    <2>3. CASE t \in S /\ owner[t] = u
      <3>1. owner'[t] = Heir(t, u) /\ Heir(t, u) \in Successors(t, u)
        BY <1>8, <1>9, <2>1, <2>3
      <3>2. owner'[t] \in Users /\ owner'[t] # u /\ order[t][owner'[t]] > 0
        BY <3>1 DEF Successors, Members
      <3>3. QED
        BY <1>5, <2>1, <3>2
    <2>4. CASE ~(t \in S /\ owner[t] = u)
      <3>1. owner'[t] = owner[t]
        BY <1>8, <2>4
      <3>2. order'[t][owner[t]] = order[t][owner[t]]
        BY <1>5, <2>1, <2>2, <2>4
      <3>3. QED
        BY <2>2, <3>1, <3>2
    <2>5. QED
      BY <2>3, <2>4
  <1>14. InvitesAreAnswerable'
    <2> SUFFICES ASSUME NEW i \in invites'
                 PROVE  i[1] \in Live' /\ i[2] \notin Members(i[1])' /\ Entitled(i[2])'
      BY DEF InvitesAreAnswerable, Entitled
    <2>1. i \in invites /\ i \notin lost /\ i[1] \notin gone
      BY <1>7 DEF InvitesOf
    <2>2. i[1] \in Teams /\ i[2] \in Users
      BY <1>2, <2>1 DEF TypeOK
    <2>3. i[1] \in Live /\ ~(order[i[1]][i[2]] > 0) /\ Entitled(i[2])
      BY <2>1, <2>2 DEF CurInv, InviteInv, InvitesAreAnswerable, Members, Entitled
    <2>4. ~(order'[i[1]][i[2]] > 0)
      BY <1>5, <2>2, <2>3
    <2>5. Entitled(i[2])'
      BY <2>1, <2>2, <2>3 DEF InvitesTo
    <2>6. QED
      BY <1>4, <2>1, <2>2, <2>3, <2>4, <2>5 DEF Members
  <1>15. NamesAgree'
    BY <1>1, <1>3, <1>4, NamesShrink DEF CurInv
  <1>16. owner' \in [Teams -> Users \cup {Nobody}]
    BY <1>2, <1>8, <1>9 DEF TypeOK, Successors, Members
  <1>17. /\ teamState' \in [Teams -> {"none", "live", "deleted"}]
         /\ nameKeys' \subseteq Communities \X Names
         /\ invites' \subseteq Teams \X Users
         /\ \A t \in Teams : /\ teamState'[t] = "live" => teamState[t] = "live"
                             /\ teamState'[t] = "none" => teamState[t] = "none"
    BY <1>2, <1>3, <1>7 DEF TypeOK
  <1>18. QED
    BY <1>5, <1>7, <1>10, <1>11, <1>12, <1>13, <1>14, <1>15, <1>16, <1>17
       DEF RosterInv, InviteInv

\* TransitionCurationEligibility of an account that may no longer curate.
LEMMA LoseStep ==
  ASSUME CurInv, NEW u \in Users, LoseEligibility(u), EligibilityOK',
         \A v \in Users : Entitled(v) => Entitled(v)' \/ v = u
  PROVE  CurInv'
  <1>1. /\ Depart(u, Curates(u), Pins(u), InvitesTo(u))
        /\ UNCHANGED <<pref, joinCount, banned, maxCurators, halted>>
        /\ UNCHANGED <<miscounted, forgotten, ousted>>
    BY DEF LoseEligibility, joinVars, history
  <1>2. name' = name /\ nextOrder' = nextOrder
    BY <1>1 DEF Depart, Dissolve
  <1>3. /\ RosterInv' /\ OwnerIsCurator' /\ InviteInv' /\ NamesAgree'
        /\ teamState' \in [Teams -> {"none", "live", "deleted"}]
        /\ owner' \in [Teams -> Users \cup {Nobody}]
        /\ subs' \in [Teams -> Nat]
        /\ nameKeys' \subseteq Communities \X Names
        /\ order' \in [Teams -> [Users -> Nat]]
        /\ memberOf' \in [Users -> [Communities -> 0..MaxTeams]]
        /\ memberCount' \in [Users -> Nat]
        /\ invites' \subseteq Teams \X Users
        /\ inviteCount' \in [Users -> Nat]
        /\ \A t \in Teams : /\ teamState'[t] = "live" => teamState[t] = "live"
                            /\ teamState'[t] = "none" => teamState[t] = "none"
    BY <1>1, DepartStep, Zenon
  <1>4. TypeOK'
    BY <1>1, <1>2, <1>3 DEF CurInv, TypeOK, EligibilityOK
  <1>5. LensInv'
    BY <1>1, <1>3, LensFrame DEF CurInv, joinVars
  <1>6. QED
    BY <1>3, <1>4, <1>5 DEF CurInv

\* Changes of profiles, subscriptions and levels keep the invariant.
LEMMA AccountStepKeeps == CurInv /\ AccountStep => CurInv'
  <1> SUFFICES ASSUME CurInv, NEW u \in Users,
                      \/ SetUsername(u)
                      \/ Activate(u)
                      \/ \E inBlock \in BOOLEAN : Deactivate(u, inBlock)
                      \/ MakeAdmin(u)
                      \/ DismissAdmin(u)
                      \/ DeleteUser(u)
               PROVE  CurInv'
    BY DEF AccountStep
  <1>1. EligibilityOK
    BY DEF CurInv, TypeOK, EligibilityOK
  <1>2. CASE SetUsername(u)
    <2>1. EligibilityOK'
      BY <1>1, <1>2 DEF EligibilityOK, SetUsername
    <2>2. \A v \in Users : Entitled(v) => Entitled(v)'
      BY <1>2 DEF Entitled, CanCurate, SetUsername, KeepEligibility, history
    <2>3. QED
      BY <1>2, <2>1, <2>2, KeepStep DEF SetUsername
  <1>3. CASE Activate(u)
    <2>1. EligibilityOK'
      BY <1>1, <1>3 DEF EligibilityOK, Activate
    <2>2. KeepEligibility \/ GainEligibility(u)
      BY <1>3 DEF Activate
    <2>3. forgotten' = forgotten
      BY <2>2 DEF KeepEligibility, GainEligibility, history
    <2>4. \A v \in Users : Entitled(v) => Entitled(v)'
      BY <1>3, <2>3 DEF Entitled, CanCurate, Activate
    <2>5. QED
      BY <2>1, <2>2, <2>4, KeepStep, GainStep
  <1>4. CASE \E inBlock \in BOOLEAN : Deactivate(u, inBlock)
    <2>1. PICK inBlock \in BOOLEAN : Deactivate(u, inBlock)
      BY <1>4
    <2>2. CASE /\ paid' = paid \ {u}
               /\ UNCHANGED <<profiles, admins>>
               /\ IF u \in admins THEN KeepEligibility ELSE LoseEligibility(u)
      <3>1. EligibilityOK'
        BY <1>1, <2>2 DEF EligibilityOK
      <3>2. forgotten' = forgotten
        BY <2>2 DEF KeepEligibility, LoseEligibility, history
      <3>3. CASE u \in admins
        <4>1. \A v \in Users : Entitled(v) => Entitled(v)'
          BY <2>2, <3>2, <3>3 DEF Entitled, CanCurate
        <4>2. QED
          BY <2>2, <3>1, <3>3, <4>1, KeepStep
      <3>4. CASE u \notin admins
        <4>1. \A v \in Users : Entitled(v) => Entitled(v)' \/ v = u
          BY <2>2, <3>2 DEF Entitled, CanCurate
        <4>2. QED
          BY <2>2, <3>1, <3>4, <4>1, LoseStep
      <3>5. QED
        BY <3>3, <3>4
    <2>3. CASE /\ halted' = TRUE
               /\ UNCHANGED <<eligibility, teamVars, subs, roster, inviteVars, joinVars,
                              banned, maxCurators, history>>
      <3>1. TypeOK'
        BY <2>3 DEF CurInv, TypeOK, eligibility, teamVars, roster, inviteVars, joinVars, history
      <3>2. \A v \in Users : Entitled(v) => Entitled(v)'
        BY <2>3 DEF Entitled, CanCurate, eligibility, history
      <3>3. RosterInv' /\ OwnerIsCurator' /\ InviteInv' /\ NamesAgree'
        BY <2>3, <3>2, TeamsFrame DEF history
      <3>4. LensInv'
        BY <2>3, LensFrame DEF CurInv, teamVars
      <3>5. QED
        BY <3>1, <3>3, <3>4 DEF CurInv
    <2>4. QED
      BY <2>1, <2>2, <2>3, Zenon DEF Deactivate
  <1>5. CASE MakeAdmin(u)
    <2>1. EligibilityOK'
      BY <1>1, <1>5 DEF EligibilityOK, MakeAdmin
    <2>2. KeepEligibility \/ GainEligibility(u)
      BY <1>5 DEF MakeAdmin
    <2>3. forgotten' = forgotten
      BY <2>2 DEF KeepEligibility, GainEligibility, history
    <2>4. \A v \in Users : Entitled(v) => Entitled(v)'
      BY <1>5, <2>3 DEF Entitled, CanCurate, MakeAdmin
    <2>5. QED
      BY <2>1, <2>2, <2>4, KeepStep, GainStep
  <1>6. CASE DismissAdmin(u)
    <2>1. EligibilityOK'
      BY <1>1, <1>6 DEF EligibilityOK, DismissAdmin
    <2>2. forgotten' = forgotten
      BY <1>6 DEF DismissAdmin, KeepEligibility, LoseEligibility, history
    <2>3. CASE u \in paid
      <3>1. \A v \in Users : Entitled(v) => Entitled(v)'
        BY <1>6, <2>2, <2>3 DEF Entitled, CanCurate, DismissAdmin
      <3>2. QED
        BY <1>6, <2>1, <2>3, <3>1, KeepStep DEF DismissAdmin
    <2>4. CASE u \notin paid
      <3>1. \A v \in Users : Entitled(v) => Entitled(v)' \/ v = u
        BY <1>6, <2>2 DEF Entitled, CanCurate, DismissAdmin
      <3>2. QED
        BY <1>6, <2>1, <2>4, <3>1, LoseStep DEF DismissAdmin
    <2>5. QED
      BY <2>3, <2>4
  <1>7. CASE DeleteUser(u)
    <2>1. TypeOK'
      BY <1>7, CurationAssumption DEF CurInv, TypeOK, DeleteUser, teamVars, roster, inviteVars,
                                      joinVars
    <2>2. \A v \in Users : Entitled(v) => Entitled(v)'
      BY <1>7 DEF Entitled, CanCurate, DeleteUser
    <2>3. RosterInv' /\ OwnerIsCurator' /\ InviteInv' /\ NamesAgree'
      BY <1>7, <2>2, TeamsFrame DEF DeleteUser
    <2>4. LensInv'
      BY <1>7, LensFrame DEF CurInv, DeleteUser, teamVars
    <2>5. QED
      BY <2>1, <2>3, <2>4 DEF CurInv
  <1>8. QED
    BY <1>2, <1>3, <1>4, <1>5, <1>6, <1>7

-----------------------------------------------------------------------------
(***************************************************************************)
(* Rosters: curators that leave or are removed, deleted teams, enrolments. *)
(***************************************************************************)
\* RemoveCuratorFromTeam: the owner stays unless governance removes the owner.
LEMMA RemoveCuratorKeeps ==
  ASSUME CurInv, NEW t \in Teams, NEW u \in Users, RemoveCuratorFromTeam(t, u),
         ousted' \in {ousted, ousted \cup {t}}, owner[t] = u => t \in ousted'
  PROVE  CurInv'
  <1>1. /\ CanDrop({<<t, u>>}) /\ DropMembers({<<t, u>>})
        /\ UNCHANGED <<profiles, paid, admins, teamState, owner, name, nextOrder, nameKeys>>
        /\ UNCHANGED <<subs, invites, inviteCount, pref, joinCount, banned, maxCurators>>
        /\ UNCHANGED <<halted, miscounted, forgotten>>
    BY DEF RemoveCuratorFromTeam, eligibility, teamVars, inviteVars, joinVars
  <1>2. {<<t, u>>} \in SUBSET (Teams \X Users)
    OBVIOUS
  <1>3. TypeOK /\ MembershipAgrees /\ MemberCounts
    BY DEF CurInv, RosterInv
  <1>4. /\ order' \in [Teams -> [Users -> Nat]]
        /\ memberOf' \in [Users -> [Communities -> 0..MaxTeams]]
        /\ memberCount' \in [Users -> Nat]
        /\ \A s \in Teams, v \in Users :
              order'[s][v] = IF <<s, v>> \in {<<t, u>>} THEN 0 ELSE order[s][v]
        /\ MembershipAgrees'
        /\ MemberCounts'
    BY <1>1, <1>2, <1>3, DropEffect, Zenon
  <1>5. \A s \in Teams, v \in Users : order'[s][v] \in {0, order[s][v]}
    BY <1>4
  <1>6. \A v \in Users : Entitled(v)' <=> Entitled(v)
    BY <1>1, EntitledFrame DEF eligibility
  <1>7. TypeOK'
    BY <1>1, <1>3, <1>4 DEF TypeOK
  <1>8. OrdersDistinct'
    BY <1>1, <1>3, <1>5, OrdersShrink DEF CurInv, RosterInv
  <1>9. MembersAreEligible'
    <2> SUFFICES ASSUME NEW s \in Teams, NEW v \in Users, order'[s][v] > 0
                 PROVE  s \in Live' /\ Entitled(v)'
      BY DEF MembersAreEligible, Members, Entitled
    <2>1. order[s][v] > 0
      BY <1>5
    <2>2. s \in Live /\ Entitled(v)
      BY <2>1 DEF CurInv, RosterInv, MembersAreEligible, Members, Entitled
    <2>3. QED
      BY <1>1, <1>6, <2>2 DEF Live
  <1>10. OwnerIsCurator'
    <2> SUFFICES ASSUME NEW s \in Live, s \notin ousted'
                 PROVE  owner[s] \in Users /\ order'[s][owner[s]] > 0
      BY <1>1 DEF OwnerIsCurator, Members, Live
    <2>1. s \in Teams /\ owner[s] \in Users /\ order[s][owner[s]] > 0
      BY DEF CurInv, OwnerIsCurator, Members, Live
    <2>2. <<s, owner[s]>> # <<t, u>>
      OBVIOUS
    <2>3. QED
      BY <1>4, <2>1, <2>2
  <1>11. InvitesAreAnswerable'
    <2> SUFFICES ASSUME NEW i \in invites
                 PROVE  i[1] \in Live' /\ i[2] \notin Members(i[1])' /\ Entitled(i[2])'
      BY <1>1 DEF InvitesAreAnswerable, Entitled
    <2>1. i[1] \in Teams /\ i[2] \in Users
      BY <1>3 DEF TypeOK
    <2>2. i[1] \in Live /\ ~(order[i[1]][i[2]] > 0) /\ Entitled(i[2])
      BY <2>1 DEF CurInv, InviteInv, InvitesAreAnswerable, Members, Entitled
    <2>3. ~(order'[i[1]][i[2]] > 0)
      BY <1>5, <2>1, <2>2
    <2>4. QED
      BY <1>1, <1>6, <2>1, <2>2, <2>3 DEF Members, Live
  <1>12. InviteCounts' /\ NamesAgree'
    BY <1>1 DEF CurInv, InviteInv, InviteCounts, InvitingTeams, Pending, NamesAgree, Live
  <1>13. LensInv'
    BY <1>1, <1>3, LensFrame DEF CurInv, joinVars
  <1>14. QED
    BY <1>4, <1>7, <1>8, <1>9, <1>10, <1>11, <1>12, <1>13 DEF CurInv, RosterInv, InviteInv

\* DeleteCurationTeam takes the whole roster, the invitations and the name.
LEMMA DeleteTeamKeeps ==
  ASSUME CurInv, NEW t \in Teams, DeleteCurationTeam(t)
  PROVE  CurInv'
  <1>1. /\ CanDrop(Rosters({t})) /\ DropMembers(Rosters({t}))
        /\ ClearInvites(InvitesOf({t}))
        /\ teamState' = [s \in Teams |-> IF s \in {t} THEN "deleted" ELSE teamState[s]]
        /\ nameKeys' = nameKeys \ {<<s[1], name[s]>> : s \in {t}}
        /\ subs' = [subs EXCEPT ![t] = 0]
        /\ UNCHANGED <<name, nextOrder, profiles, paid, admins, owner, pref, joinCount>>
        /\ UNCHANGED <<banned, maxCurators, halted, miscounted, forgotten, ousted>>
    BY DEF DeleteCurationTeam, Dissolve, eligibility, joinVars, history
  <1>2. t \in Live
    BY DEF DeleteCurationTeam, OwnerMayAct
  <1>3. TypeOK /\ MembershipAgrees /\ MemberCounts /\ InviteCounts
    BY DEF CurInv, RosterInv, InviteInv
  <1>4. Rosters({t}) \in SUBSET (Teams \X Users)
    BY DEF Rosters
  <1>5. /\ order' \in [Teams -> [Users -> Nat]]
        /\ memberOf' \in [Users -> [Communities -> 0..MaxTeams]]
        /\ memberCount' \in [Users -> Nat]
        /\ \A s \in Teams, v \in Users :
              order'[s][v] = IF <<s, v>> \in Rosters({t}) THEN 0 ELSE order[s][v]
        /\ MembershipAgrees'
        /\ MemberCounts'
    BY <1>1, <1>3, <1>4, DropEffect, Zenon
  <1>6. ASSUME NEW s \in Teams, NEW v \in Users
        PROVE  order'[s][v] = IF s = t THEN 0 ELSE order[s][v]
    <2>1. order[s][v] \in Nat
      BY <1>3 DEF TypeOK
    <2>2. <<s, v>> \in Rosters({t}) <=> s = t /\ order[s][v] > 0
      BY DEF Rosters
    <2>3. QED
      BY <1>5, <2>1, <2>2
  <1>7. /\ invites' = invites \ InvitesOf({t})
        /\ inviteCount' \in [Users -> Nat]
        /\ InviteCounts'
    BY <1>1, <1>3, ClearEffect
  <1>8. \A s \in Teams : s \in Live' <=> s \in Live /\ s \notin {t}
    BY <1>1 DEF Live
  <1>9. \A v \in Users : Entitled(v)' <=> Entitled(v)
    BY <1>1, EntitledFrame DEF eligibility
  <1>10. TypeOK'
    BY <1>1, <1>3, <1>5, <1>7 DEF TypeOK
  <1>11. OrdersDistinct'
    BY <1>1, <1>3, <1>6, OrdersShrink DEF CurInv, RosterInv
  <1>12. MembersAreEligible'
    <2> SUFFICES ASSUME NEW s \in Teams, NEW v \in Users, order'[s][v] > 0
                 PROVE  s \in Live' /\ Entitled(v)'
      BY DEF MembersAreEligible, Members, Entitled
    <2>1. s # t /\ order[s][v] > 0
      BY <1>6
    <2>2. s \in Live /\ Entitled(v)
      BY <2>1 DEF CurInv, RosterInv, MembersAreEligible, Members, Entitled
    <2>3. QED
      BY <1>8, <1>9, <2>1, <2>2
  <1>13. OwnerIsCurator'
    <2> SUFFICES ASSUME NEW s \in Teams, s \in Live, s # t, s \notin ousted
                 PROVE  owner[s] \in Users /\ order'[s][owner[s]] > 0
      BY <1>1, <1>8 DEF OwnerIsCurator, Members, Live
    <2>1. owner[s] \in Users /\ order[s][owner[s]] > 0
      BY DEF CurInv, OwnerIsCurator, Members
    <2>2. QED
      BY <1>6, <2>1
  <1>14. InvitesAreAnswerable'
    <2> SUFFICES ASSUME NEW i \in invites'
                 PROVE  i[1] \in Live' /\ i[2] \notin Members(i[1])' /\ Entitled(i[2])'
      BY DEF InvitesAreAnswerable, Entitled
    <2>1. i \in invites /\ i[1] # t
      BY <1>7 DEF InvitesOf
    <2>2. i[1] \in Teams /\ i[2] \in Users
      BY <1>3, <2>1 DEF TypeOK
    <2>3. i[1] \in Live /\ ~(order[i[1]][i[2]] > 0) /\ Entitled(i[2])
      BY <2>1, <2>2 DEF CurInv, InviteInv, InvitesAreAnswerable, Members, Entitled
    <2>4. ~(order'[i[1]][i[2]] > 0)
      BY <1>6, <2>1, <2>2, <2>3
    <2>5. QED
      BY <1>8, <1>9, <2>1, <2>2, <2>3, <2>4 DEF Members
  <1>15. NamesAgree'
    BY <1>1, <1>2, <1>8, NamesShrink DEF CurInv
  <1>16. LensInv'
    BY <1>1, <1>3, LensFrame DEF CurInv, joinVars
  <1>17. QED
    BY <1>5, <1>7, <1>10, <1>11, <1>12, <1>13, <1>14, <1>15, <1>16
       DEF CurInv, RosterInv, InviteInv

\* Enrolling a curator, by acceptance or by governance, once no invitation of
\* that curator to that team is left.
LEMMA EnrollKeeps ==
  ASSUME CurInv, NEW t \in Teams, NEW u \in Users, MayEnroll(t, u), Enroll(t, u),
         invites' \subseteq invites, <<t, u>> \notin invites',
         inviteCount' \in [Users -> Nat], InviteCounts',
         UNCHANGED <<eligibility, teamState, owner, name, nameKeys, subs, banned,
                     maxCurators, halted, history>>
  PROVE  CurInv'
  <1>1. TypeOK /\ MembershipAgrees /\ MemberCounts /\ OrdersDistinct /\ JoinCounts
    BY DEF CurInv, RosterInv, LensInv
  <1>2. /\ UNCHANGED <<profiles, paid, admins, teamState, owner, name, nameKeys, subs>>
        /\ UNCHANGED <<banned, maxCurators, halted, miscounted, forgotten, ousted>>
    BY DEF eligibility, history
  <1>3. t \in Live /\ CanCurate(u) /\ memberOf[u][t[1]] = 0
    BY DEF MayEnroll
  <1>4. t[1] \in Communities /\ nextOrder[t] \in Nat \ {0}
    BY <1>1 DEF TypeOK, Teams
  <1>5. /\ order' \in [Teams -> [Users -> Nat]]
        /\ memberOf' \in [Users -> [Communities -> 0..MaxTeams]]
        /\ memberCount' \in [Users -> Nat]
        /\ \A s \in Teams, v \in Users :
              order'[s][v] = IF s = t /\ v = u THEN nextOrder[t] ELSE order[s][v]
        /\ MembershipAgrees'
        /\ MemberCounts'
    BY <1>1, <1>3, <1>4, EnlistEffect, Zenon DEF Enroll, AcceptedOrder
  <1>6. nextOrder' = [nextOrder EXCEPT ![t] = @ + 1]
    BY DEF Enroll
  <1>7. /\ pref' \in [Users -> [Communities -> Pref]]
        /\ joinCount' \in [Users -> Nat]
        /\ JoinCounts'
    <2> DEFINE p == IF Joined(u, t[1]) THEN pref[u][t[1]] ELSE LiveDefault
    <2>1. p \in Pref /\ p.mode # "none"
      <3>1. CASE Joined(u, t[1])
        <4>1. pref[u][t[1]] \in Pref /\ pref[u][t[1]].mode # "none"
          BY <1>1, <1>4, <3>1 DEF Joined, TypeOK
        <4>2. QED
          BY <3>1, <4>1
      <3>2. CASE ~Joined(u, t[1])
        <4>1. LiveDefault \in Pref /\ LiveDefault.mode # "none"
          BY CurationAssumption DEF LiveDefault, Pref
        <4>2. QED
          BY <3>2, <4>1
      <3>3. QED
        BY <3>1, <3>2
    <2>2. pref' = [pref EXCEPT ![u][t[1]] = p] /\ Joins(u, t[1])
      BY <1>1, <1>4 DEF Enroll, TypeOK
    <2> HIDE DEF p
    <2>3. QED
      BY <1>1, <1>4, <2>1, <2>2, JoinEffect, Zenon
  <1>8. \A v \in Users : Entitled(v)' <=> Entitled(v)
    BY <1>2, EntitledFrame DEF eligibility
  <1>9. TypeOK'
    <2>1. nextOrder' \in [Teams -> Nat \ {0}]
      <3>1. nextOrder \in [Teams -> Nat \ {0}]
        BY <1>1 DEF TypeOK
      <3>2. nextOrder[t] + 1 \in Nat \ {0}
        <4>1. nextOrder[t] \in Nat
          BY <1>4
        <4>2. QED
          BY <4>1
      <3>3. QED
        BY <1>6, <3>1, <3>2
    <2>2. invites' \subseteq Teams \X Users
      BY <1>1 DEF TypeOK
    <2>3. QED
      BY <1>1, <1>2, <1>5, <1>7, <2>1, <2>2 DEF TypeOK
  <1>10. OrdersDistinct'
    <2> SUFFICES ASSUME NEW s \in Teams, NEW v \in Users, NEW w \in Users,
                        order'[s][v] > 0, order'[s][w] > 0
                 PROVE  /\ order'[s][v] < nextOrder'[s]
                        /\ order'[s][v] = order'[s][w] => v = w
      BY DEF OrdersDistinct, Members
    <2>1. \A x \in Users : order[s][x] > 0 => order[s][x] < nextOrder[s]
      BY <1>1 DEF OrdersDistinct, Members
    <2>2. order[s][v] > 0 /\ order[s][w] > 0 /\ order[s][v] = order[s][w] => v = w
      BY <1>1 DEF OrdersDistinct, Members
    <2>3. nextOrder'[s] = IF s = t THEN nextOrder[s] + 1 ELSE nextOrder[s]
      BY <1>1, <1>6 DEF TypeOK
    <2>4. nextOrder[s] \in Nat /\ order[s][v] \in Nat /\ order[s][w] \in Nat
      BY <1>1 DEF TypeOK
    <2>5. /\ order'[s][v] = IF s = t /\ v = u THEN nextOrder[t] ELSE order[s][v]
          /\ order'[s][w] = IF s = t /\ w = u THEN nextOrder[t] ELSE order[s][w]
      BY <1>5
    <2>6. order'[s][v] < nextOrder'[s]
      <3>1. CASE s = t /\ v = u
        BY <2>3, <2>4, <2>5, <3>1
      <3>2. CASE ~(s = t /\ v = u)
        <4>1. order'[s][v] = order[s][v] /\ order[s][v] < nextOrder[s]
          BY <2>1, <2>5, <3>2
        <4>2. QED
          BY <2>3, <2>4, <4>1
      <3>3. QED
        BY <3>1, <3>2
    <2>7. order'[s][v] = order'[s][w] => v = w
      <3>1. CASE s = t
        <4>1. order[s][v] > 0 => order[s][v] < nextOrder[t]
          BY <2>1, <3>1
        <4>2. order[s][w] > 0 => order[s][w] < nextOrder[t]
          BY <2>1, <3>1
        <4>3. nextOrder[t] \in Nat
          BY <2>4, <3>1
        <4>4. CASE v = u /\ w # u
          <5>1. order'[s][v] = nextOrder[t] /\ order'[s][w] = order[s][w]
            BY <2>5, <3>1, <4>4, Zenon
          <5>2. QED
            BY <2>4, <4>2, <4>3, <5>1
        <4>5. CASE v # u /\ w = u
          <5>1. order'[s][v] = order[s][v] /\ order'[s][w] = nextOrder[t]
            BY <2>5, <3>1, <4>5, Zenon
          <5>2. QED
            BY <2>4, <4>1, <4>3, <5>1
        <4>6. CASE v # u /\ w # u
          BY <2>2, <2>5, <4>6, Zenon
        <4>7. QED
          BY <4>4, <4>5, <4>6, Zenon
      <3>2. CASE s # t
        BY <2>2, <2>5, <3>2
      <3>3. QED
        BY <3>1, <3>2
    <2>8. QED
      BY <2>6, <2>7
  <1>11. MembersAreEligible'
    <2> SUFFICES ASSUME NEW s \in Teams, NEW v \in Users, order'[s][v] > 0
                 PROVE  s \in Live /\ Entitled(v)
      BY <1>2, <1>8, Zenon DEF MembersAreEligible, Members, Entitled, Live
    <2>1. (s = t /\ v = u) \/ order[s][v] > 0
      BY <1>5
    <2>2. QED
      BY <1>3, <2>1 DEF CurInv, RosterInv, MembersAreEligible, Members, Entitled
  <1>12. OwnerIsCurator'
    <2> SUFFICES ASSUME NEW s \in Live, s \notin ousted
                 PROVE  owner[s] \in Users /\ order'[s][owner[s]] > 0
      BY <1>2 DEF OwnerIsCurator, Members, Live
    <2>1. s \in Teams /\ owner[s] \in Users /\ order[s][owner[s]] > 0
      BY DEF CurInv, OwnerIsCurator, Members, Live
    <2>2. order'[s][owner[s]] =
            IF s = t /\ owner[s] = u THEN nextOrder[t] ELSE order[s][owner[s]]
      BY <1>5, <2>1
    <2>3. QED
      BY <1>4, <2>1, <2>2
  <1>13. InvitesAreAnswerable'
    <2> SUFFICES ASSUME NEW i \in invites'
                 PROVE  /\ i[1] \in Live'
                        /\ i[2] \notin Members(i[1])'
                        /\ Entitled(i[2])'
      BY DEF InvitesAreAnswerable, Entitled
    <2>1. i \in invites /\ i[1] \in Teams /\ i[2] \in Users /\ i = <<i[1], i[2]>>
      <3>1. i \in invites /\ invites \subseteq Teams \X Users
        BY <1>1 DEF TypeOK
      <3>2. i \in Teams \X Users
        BY <3>1
      <3>3. QED
        BY <3>1, <3>2
    <2>2. i[1] \in Live /\ ~(order[i[1]][i[2]] > 0) /\ Entitled(i[2])
      BY <2>1 DEF CurInv, InviteInv, InvitesAreAnswerable, Members, Entitled
    <2>3. ~(i[1] = t /\ i[2] = u)
      BY <2>1
    <2>4. order'[i[1]][i[2]] = order[i[1]][i[2]]
      BY <1>5, <2>1, <2>3
    <2>5. i[1] \in Live' /\ Entitled(i[2])'
      BY <1>2, <1>8, <2>1, <2>2 DEF Live
    <2>6. QED
      BY <2>2, <2>4, <2>5 DEF Members
  <1>14. NamesAgree'
    BY <1>2 DEF CurInv, NamesAgree, Live
  <1>15. PinNotBanned'
    <2> SUFFICES ASSUME NEW v \in Users, NEW d \in Communities,
                        NEW s \in PinnedTeam(pref[v][d], d)'
                 PROVE  <<s, v>> \notin banned
      BY <1>2 DEF PinNotBanned
    <2>1. pref'[v][d] = pref[v][d] \/ pref'[v][d] = LiveDefault
      BY <1>1, <1>4, Zenon DEF Enroll, TypeOK
    <2>2. pref'[v][d].mode = "pinned"
      BY DEF PinnedTeam
    <2>3. pref'[v][d] = pref[v][d]
      <3>1. LiveDefault.mode # "pinned"
        BY DEF LiveDefault
      <3>2. QED
        BY <2>1, <2>2, <3>1, Zenon
    <2>4. s \in PinnedTeam(pref[v][d], d)
      BY <1>2, <2>3 DEF PinnedTeam, Live
    <2>5. QED
      BY <2>4 DEF CurInv, LensInv, PinNotBanned
  <1>16. BansExist'
    BY <1>2, Zenon DEF CurInv, LensInv, BansExist
  <1>17. QED
    BY <1>5, <1>7, <1>9, <1>10, <1>11, <1>12, <1>13, <1>14, <1>15, <1>16
       DEF CurInv, RosterInv, InviteInv, LensInv

-----------------------------------------------------------------------------
(***************************************************************************)
(* Lenses and bans.                                                        *)
(***************************************************************************)
\* Every lens a user can ask for is a preference of a joined community.
LEMMA LensType ==
  ASSUME NEW p \in Lenses
  PROVE  p \in Pref /\ p.mode # "none"
  BY CurationAssumption DEF Lenses, Pref, LiveDefault, Raw, Pinned

\* The lens the chain chooses for a user never is a team that banned the user.
LEMMA BestLensSafe ==
  ASSUME NEW c \in Communities, NEW u \in Users, NEW bans
  PROVE  /\ BestLens(c, u, bans) \in Pref
         /\ BestLens(c, u, bans).mode # "none"
         /\ \A t \in PinnedTeam(BestLens(c, u, bans), c) : <<t, u>> \notin bans
  <1> DEFINE best == BestTeam(c, u, bans, <<c, 0>>)
  <1>1. \A t \in best : t \in Teams /\ t[1] = c /\ <<t, u>> \notin bans
    BY DEF BestTeam, Live, Teams
  <1>2. CASE best = {}
    <2>1. BestLens(c, u, bans) = Raw
      BY <1>2 DEF BestLens
    <2>2. QED
      BY <2>1, CurationAssumption DEF Raw, Pref, PinnedTeam
  <1>3. CASE best # {}
    <2> DEFINE b == CHOOSE t \in best : TRUE
    <2>1. b \in best
      BY <1>3
    <2>2. BestLens(c, u, bans) = Pinned(b[2])
      BY <1>3 DEF BestLens
    <2> HIDE DEF b, best
    <2>3. b \in Teams /\ b[1] = c /\ <<b, u>> \notin bans
      BY <1>1, <2>1
    <2>4. b[2] \in 0..MaxTeams /\ b = <<c, b[2]>>
      BY <2>3, CurationAssumption DEF Teams
    <2>5. QED
      BY <2>2, <2>3, <2>4 DEF Pinned, Pref, PinnedTeam
  <1>4. QED
    BY <1>2, <1>3

\* A step that gives u the lens p in c, where p is not a team that has banned u
\* by then.
SafePin(u, c, p, counted) ==
    /\ p \in Pref /\ p.mode # "none" /\ counted \in BOOLEAN
    /\ MovePin(u, c, p, counted) /\ Joins(u, c)
    /\ UNCHANGED <<eligibility, teamVars, roster, inviteVars, maxCurators, halted,
                   forgotten, ousted>>
    /\ banned' \subseteq Teams \X Users /\ BansExist'
    /\ \A t \in PinnedTeam(p, c) : <<t, u>> \notin banned'
    /\ \A v \in Users, d \in Communities : (v # u \/ d # c) =>
          \A t \in PinnedTeam(pref[v][d], d) : <<t, v>> \notin banned'

\* SetCurationPreference of one user in one community keeps the invariant.
LEMMA PinStep ==
  ASSUME CurInv, NEW u \in Users, NEW c \in Communities, NEW p, NEW counted,
         SafePin(u, c, p, counted)
  PROVE  CurInv'
  <1> USE DEF SafePin
  <1>1. TypeOK /\ JoinCounts
    BY DEF CurInv, LensInv
  <1>2. pref' = [pref EXCEPT ![u][c] = p]
    BY DEF MovePin
  <1>3. /\ pref' \in [Users -> [Communities -> Pref]]
        /\ joinCount' \in [Users -> Nat]
        /\ JoinCounts'
    BY <1>1, <1>2, JoinEffect, Zenon
  <1>4. subs' \in [Teams -> Nat]
    <2>1. CASE counted
      BY <1>1, <2>1, MovedType DEF MovePin
    <2>2. CASE ~counted
      BY <1>1, <2>2 DEF MovePin, TypeOK
    <2>3. QED
      BY <2>1, <2>2
  <1>5. miscounted' \in BOOLEAN
    BY <1>1 DEF MovePin, TypeOK
  <1>6. TypeOK'
    BY <1>1, <1>3, <1>4, <1>5 DEF TypeOK, eligibility, teamVars, roster, inviteVars
  <1>7. RosterInv' /\ OwnerIsCurator' /\ InviteInv' /\ NamesAgree'
    <2>1. \A v \in Users : Entitled(v) => Entitled(v)'
      BY DEF Entitled, CanCurate, eligibility
    <2>2. QED
      BY <2>1, TeamsFrame
  <1>8. PinNotBanned'
    <2> SUFFICES ASSUME NEW v \in Users, NEW d \in Communities,
                        NEW t \in PinnedTeam(pref[v][d], d)'
                 PROVE  <<t, v>> \notin banned'
      BY DEF PinNotBanned
    <2>1. pref'[v][d] = IF v = u /\ d = c THEN p ELSE pref[v][d]
      BY <1>1, <1>2 DEF TypeOK
    <2>2. t \in PinnedTeam(IF v = u /\ d = c THEN p ELSE pref[v][d], d)
      BY <2>1 DEF PinnedTeam, Live, teamVars
    <2>3. QED
      BY <2>2
  <1>9. QED
    BY <1>3, <1>6, <1>7, <1>8 DEF CurInv, LensInv

\* Unless somebody is banned, a lens that may be selected is safe.
LEMMA SelectStep ==
  ASSUME CurInv, NEW u \in Users, NEW c \in Communities, NEW p \in Pref, p.mode # "none",
         NEW counted \in BOOLEAN, MovePin(u, c, p, counted), Joins(u, c),
         UNCHANGED <<eligibility, teamVars, roster, inviteVars, banned, maxCurators, halted,
                     forgotten, ousted>>,
         \A t \in PinnedTeam(p, c) : <<t, u>> \notin banned
  PROVE  CurInv'
  <1>1. banned' \subseteq Teams \X Users
    BY DEF CurInv, TypeOK
  <1>2. BansExist'
    BY DEF CurInv, LensInv, BansExist, teamVars
  <1>3. \A v \in Users, d \in Communities :
           \A t \in PinnedTeam(pref[v][d], d) : <<t, v>> \notin banned'
    BY DEF CurInv, LensInv, PinNotBanned
  <1>4. QED
    BY <1>1, <1>2, <1>3, PinStep DEF SafePin

\* LeaveCommunity keeps the invariant.
LEMMA LeaveCommunityKeeps ==
  ASSUME CurInv, NEW u \in Users, NEW c \in Communities, LeaveCommunity(u, c)
  PROVE  CurInv'
  <1> DEFINE S == {t \in Curates(u) : t[1] = c}
  <1>1. PICK minus : Depart(u, S, minus, {})
    BY Zenon DEF LeaveCommunity
  <1>2. /\ Joined(u, c)
        /\ pref' = [pref EXCEPT ![u][c] = NotJoined]
        /\ joinCount' = [joinCount EXCEPT ![u] = @ - 1]
        /\ miscounted' \in BOOLEAN
        /\ UNCHANGED <<profiles, paid, admins, banned, maxCurators, halted, forgotten, ousted>>
    BY DEF LeaveCommunity, eligibility, CurInv, TypeOK
  <1>3. \A v \in Users : Entitled(v) => Entitled(v)'
    BY <1>2 DEF Entitled, CanCurate
  <1>4. name' = name /\ nextOrder' = nextOrder
    BY <1>1 DEF Depart, Dissolve
  <1>5. S \in SUBSET Curates(u)
    OBVIOUS
  <1> HIDE DEF S
  <1>6. /\ RosterInv' /\ OwnerIsCurator' /\ InviteInv' /\ NamesAgree'
        /\ teamState' \in [Teams -> {"none", "live", "deleted"}]
        /\ owner' \in [Teams -> Users \cup {Nobody}]
        /\ subs' \in [Teams -> Nat]
        /\ nameKeys' \subseteq Communities \X Names
        /\ order' \in [Teams -> [Users -> Nat]]
        /\ memberOf' \in [Users -> [Communities -> 0..MaxTeams]]
        /\ memberCount' \in [Users -> Nat]
        /\ invites' \subseteq Teams \X Users
        /\ inviteCount' \in [Users -> Nat]
        /\ \A t \in Teams : /\ teamState'[t] = "live" => teamState[t] = "live"
                            /\ teamState'[t] = "none" => teamState[t] = "none"
    BY <1>1, <1>2, <1>3, <1>5, DepartStep, Zenon
  <1>7. /\ pref' \in [Users -> [Communities -> Pref]]
        /\ joinCount' \in [Users -> Nat]
        /\ JoinCounts'
    BY <1>2, LeaveEffect DEF CurInv, LensInv
  <1>8. TypeOK'
    BY <1>2, <1>4, <1>6, <1>7 DEF CurInv, TypeOK
  <1>9. PinNotBanned'
    <2> SUFFICES ASSUME NEW v \in Users, NEW d \in Communities,
                        NEW t \in PinnedTeam(pref[v][d], d)'
                 PROVE  <<t, v>> \notin banned
      BY <1>2 DEF PinNotBanned
    <2>1. pref'[v][d] = pref[v][d] \/ pref'[v][d] = NotJoined
      BY <1>2 DEF CurInv, TypeOK
    <2>2. pref'[v][d].mode = "pinned" /\ t = <<d, pref'[v][d].team>> /\ t \in Live'
      BY DEF PinnedTeam
    <2>3. pref'[v][d] = pref[v][d]
      <3>1. NotJoined.mode # "pinned"
        BY DEF NotJoined
      <3>2. QED
        BY <2>1, <2>2, <3>1
    <2>4. t \in Live
      BY <1>6, <2>2 DEF Live
    <2>5. t \in PinnedTeam(pref[v][d], d)
      BY <2>2, <2>3, <2>4 DEF PinnedTeam
    <2>6. QED
      BY <2>5 DEF CurInv, LensInv, PinNotBanned
  <1>10. BansExist'
    BY <1>2, <1>6 DEF CurInv, LensInv, BansExist, TypeOK
  <1>11. QED
    BY <1>6, <1>7, <1>8, <1>9, <1>10 DEF CurInv, LensInv

\* Joining, leaving and choosing a lens keep the invariant.
LEMMA LensStepKeeps == CurInv /\ LensStep => CurInv'
  <1> SUFFICES ASSUME CurInv, NEW u \in Users, NEW c \in Communities,
                      \/ LeaveCommunity(u, c)
                      \/ \E p \in Lenses : \/ JoinCommunity(u, c, p)
                                           \/ SetCurationPreference(u, c, p)
                                           \/ GovSetCommunityPreference(u, c, p)
               PROVE  CurInv'
    BY DEF LensStep
  <1>1. CASE LeaveCommunity(u, c)
    BY <1>1, LeaveCommunityKeeps
  <1>2. ASSUME NEW p \in Lenses, MaySelect(u, c, p)
        PROVE  \A t \in PinnedTeam(p, c) : <<t, u>> \notin banned
    BY <1>2 DEF MaySelect, PinnedTeam
  <1>3. ASSUME NEW p \in Lenses, JoinCommunity(u, c, p)
        PROVE  CurInv'
    <2> DEFINE lens == JoinLens(u, c, p)
    <2>1. /\ lens \in Pref /\ lens.mode # "none"
          /\ \A t \in PinnedTeam(lens, c) : <<t, u>> \notin banned
      BY <1>2, <1>3, LensType, BestLensSafe DEF JoinLens, JoinCommunity
    <2>2. CanCurate(u) \in BOOLEAN
      BY DEF CanCurate
    <2>3. /\ MovePin(u, c, lens, CanCurate(u)) /\ Joins(u, c)
          /\ UNCHANGED <<eligibility, teamVars, roster, inviteVars, banned, maxCurators,
                         halted, forgotten, ousted>>
      BY <1>3 DEF JoinCommunity
    <2> HIDE DEF lens
    <2>4. QED
      BY <2>1, <2>2, <2>3, SelectStep
  <1>4. ASSUME NEW p \in Lenses, SetCurationPreference(u, c, p)
        PROVE  CurInv'
    <2>1. CanCurate(u) \in BOOLEAN
      BY DEF CanCurate
    <2>2. Joins(u, c)
      BY <1>4 DEF Joins, SetCurationPreference, CurInv, TypeOK
    <2>3. /\ MovePin(u, c, p, CanCurate(u)) /\ MaySelect(u, c, p)
          /\ UNCHANGED <<eligibility, teamVars, roster, inviteVars, banned, maxCurators,
                         halted, forgotten, ousted>>
      BY <1>4 DEF SetCurationPreference
    <2>4. QED
      BY <1>2, <2>1, <2>2, <2>3, LensType, SelectStep
  <1>5. ASSUME NEW p \in Lenses, GovSetCommunityPreference(u, c, p)
        PROVE  CurInv'
    <2>1. (u \in paid) \in BOOLEAN
      OBVIOUS
    <2>2. /\ MovePin(u, c, p, u \in paid) /\ Joins(u, c) /\ MaySelect(u, c, p)
          /\ UNCHANGED <<eligibility, teamVars, roster, inviteVars, banned, maxCurators,
                         halted, forgotten, ousted>>
      BY <1>5 DEF GovSetCommunityPreference
    <2>3. QED
      BY <1>2, <2>1, <2>2, LensType, SelectStep, Zenon
  <1>6. QED
    BY <1>1, <1>3, <1>4, <1>5
\* A step that only changes the bans keeps everything but, perhaps, PinNotBanned.
LEMMA BansFrame ==
  ASSUME CurInv, banned' \subseteq Teams \X Users, BansExist', PinNotBanned',
         UNCHANGED <<eligibility, teamVars, subs, roster, inviteVars, joinVars,
                     maxCurators, halted, history>>
  PROVE  CurInv'
  <1>1. TypeOK'
    BY DEF CurInv, TypeOK, eligibility, teamVars, roster, inviteVars, joinVars, history
  <1>2. \A v \in Users : Entitled(v) => Entitled(v)'
    BY EntitledFrame DEF history
  <1>3. RosterInv' /\ OwnerIsCurator' /\ InviteInv' /\ NamesAgree'
    BY <1>2, TeamsFrame DEF history
  <1>4. JoinCounts'
    BY DEF CurInv, LensInv, JoinCounts, JoinedIn, Joined, joinVars
  <1>5. QED
    BY <1>1, <1>3, <1>4 DEF CurInv, LensInv

\* A ban moves the banned user off the team if it is the one the user reads
\* through; a user who pins the team always does.
LEMMA BanKeeps ==
  ASSUME CurInv, NEW t \in Teams, NEW u \in Users, NEW a \in Users, BanUser(a, t, u)
  PROVE  CurInv'
  <1> DEFINE c == t[1]
  <1> DEFINE bans == banned \cup {<<t, u>>}
  <1>1. /\ t \in Live
        /\ banned' = bans
        /\ \/ /\ t \in CurrentTeam(u, c, t)
              /\ MovePin(u, c, BestLens(c, u, bans), CanCurate(u))
           \/ /\ t \notin CurrentTeam(u, c, t)
              /\ UNCHANGED <<pref, subs, miscounted>>
        /\ UNCHANGED <<eligibility, teamVars, roster, inviteVars, joinCount,
                       maxCurators, halted, forgotten, ousted>>
    BY DEF BanUser
  <1>2. TypeOK /\ c \in Communities
    BY DEF CurInv, Teams
  <1>3. bans \subseteq Teams \X Users
    <2>1. banned \subseteq Teams \X Users /\ <<t, u>> \in Teams \X Users
      BY <1>2 DEF TypeOK
    <2>2. QED
      BY <2>1
  <1>4. BansExist'
    <2>1. \A b \in banned : teamState[b[1]] # "none"
      BY DEF CurInv, LensInv, BansExist
    <2>2. teamState[t] = "live" /\ teamState' = teamState
      BY <1>1 DEF Live, teamVars
    <2>3. ASSUME NEW b \in bans PROVE teamState[b[1]] # "none"
      <3>1. CASE b \in banned
        BY <2>1, <3>1
      <3>2. CASE b = <<t, u>>
        BY <2>2, <3>2
      <3>3. QED
        BY <3>1, <3>2
    <2> HIDE DEF bans
    <2>4. QED
      BY <1>1, <2>2, <2>3 DEF BansExist
  <1>5. ASSUME NEW v \in Users, NEW d \in Communities, NEW s \in PinnedTeam(pref[v][d], d),
               <<s, v>> \in bans
        PROVE  s = t /\ v = u /\ d = c
    <2>1. <<s, v>> \notin banned
      BY DEF CurInv, LensInv, PinNotBanned
    <2>2. s = t /\ v = u
      BY <1>5, <2>1
    <2>3. s = <<d, pref[v][d].team>>
      BY DEF PinnedTeam
    <2>4. QED
      BY <2>2, <2>3
  <1> HIDE DEF c, bans
  <1>6. CASE /\ t \in CurrentTeam(u, c, t)
             /\ MovePin(u, c, BestLens(c, u, bans), CanCurate(u))
    <2> DEFINE p == BestLens(c, u, bans)
    <2> DEFINE counted == CanCurate(u)
    <2>1. /\ p \in Pref
          /\ p.mode # "none"
          /\ \A s \in PinnedTeam(p, c) : <<s, u>> \notin bans
      BY <1>2, BestLensSafe
    <2>2. Joined(u, c)
      BY <1>6 DEF CurrentTeam, Joined
    <2>3. Joins(u, c)
      BY <1>1, <1>2, <2>2 DEF Joins, TypeOK
    <2>4. counted \in BOOLEAN
      BY DEF CanCurate
    <2>5. \A v \in Users, d \in Communities : (v # u \/ d # c) =>
             \A s \in PinnedTeam(pref[v][d], d) : <<s, v>> \notin bans
      BY <1>5
    <2>6. /\ MovePin(u, c, p, counted)
          /\ UNCHANGED <<eligibility, teamVars, roster, inviteVars, maxCurators, halted,
                         forgotten, ousted>>
          /\ banned' = bans
      BY <1>1, <1>6
    <2> HIDE DEF p, counted
    <2>7. /\ banned' \subseteq Teams \X Users
          /\ \A s \in PinnedTeam(p, c) : <<s, u>> \notin banned'
          /\ \A v \in Users, d \in Communities : (v # u \/ d # c) =>
                \A s \in PinnedTeam(pref[v][d], d) : <<s, v>> \notin banned'
      BY <1>3, <2>1, <2>5, <2>6, Zenon
    <2>8. SafePin(u, c, p, counted)
      BY <1>2, <1>4, <2>1, <2>3, <2>4, <2>6, <2>7, Zenon DEF SafePin
    <2>9. QED
      BY <1>2, <2>8, PinStep
  <1>7. CASE t \notin CurrentTeam(u, c, t) /\ UNCHANGED <<pref, subs, miscounted>>
    <2>1. PinNotBanned'
      <3> SUFFICES ASSUME NEW v \in Users, NEW d \in Communities,
                          NEW s \in PinnedTeam(pref[v][d], d)
                   PROVE  <<s, v>> \notin bans
        BY <1>1, <1>7 DEF PinNotBanned, PinnedTeam, Live, teamVars
      <3>1. pref[v][d].mode = "pinned"
        BY DEF PinnedTeam
      <3>2. v = u /\ d = c => s \in CurrentTeam(u, c, t)
        BY <3>1 DEF CurrentTeam
      <3>3. QED
        BY <1>5, <1>7, <3>2
    <2>2. QED
      BY <1>1, <1>3, <1>4, <1>7, <2>1, BansFrame DEF joinVars, history
  <1>8. QED
    BY <1>1, <1>6, <1>7
=============================================================================
