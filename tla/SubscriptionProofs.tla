------------------------- MODULE SubscriptionProofs -------------------------
(***************************************************************************)
(* Proofs about Subscription, for any number of accounts, any parameters   *)
(* that ValidateV139 accepts, and any bound on time.                       *)
(***************************************************************************)
EXTENDS Subscription, FiniteSetTheorems, TLAPS

\* A renewal is never scheduled before its early renewal window opens.
ScheduleInWindow ==
    \A u \in Users : renewal[u].expiry <= renewal[u].at + EarlyRenewal

\* Index entries carry a positive expiry.
IndexIsPositive == \A e \in index : e.at > 0

\* What BeginBlock has collected is still in the store, and its time has come.
CollectedIsCurrent ==
    /\ phase = "renew" => \A k \in due : k \in queue /\ k.at <= now
    /\ phase = "expire" => \A e \in expired : e \in index /\ e.at <= now

\* The inductive invariant.
Inv ==
    /\ TypeOK
    /\ PaidFieldsAgree
    /\ PaidIsIndexed
    /\ IndexIsCurrent
    /\ QueueMatchesState
    /\ ScheduleInWindow
    /\ IndexIsPositive
    /\ CollectedIsCurrent
-----------------------------------------------------------------------------
\* Initially nothing is indexed or scheduled.
LEMMA InitInv == Init => Inv
  BY ParamsAssumption
  DEF Init, Inv, TypeOK, PaidFieldsAgree, PaidIsIndexed, IndexIsCurrent, QueueMatchesState,
      ScheduleInWindow, IndexIsPositive, CollectedIsCurrent, NoProfile, Profile,
      NoRenewal, RenewalState, IndexEntries, LevelFree, LevelSubscriber, LevelAdminMin

\* A tranche ends after the block time and after the old expiry.
LEMMA TrancheEndLater ==
  ASSUME NEW n \in 1..MaxPeriods, NEW p \in Profile, now \in Nat \ {0}
  PROVE  TrancheEnd(p, n) \in Nat /\ TrancheEnd(p, n) > now /\ TrancheEnd(p, n) > p.expiry
<1>1. Period \in Nat /\ Period > 0 /\ n \in Nat /\ n > 0
  BY ParamsAssumption
<1>2. Period * n \in Nat /\ Period * n > 0
  BY <1>1
<1>3. p.expiry \in Nat
  BY DEF Profile
<1> QED
  BY <1>2, <1>3 DEF TrancheEnd, Later

\* The split of a fee gives back the whole fee, in natural numbers.
LEMMA SplitIsNat ==
  ASSUME NEW fee \in Nat
  PROVE  SplitCreatorFee(fee).creator \in Nat /\ SplitCreatorFee(fee).burn \in Int
         /\ SplitCreatorFee(fee).burn + SplitCreatorFee(fee).creator = fee
<1>1. CreatorBps \in Nat
  BY BpsAssumption
<1>2. fee * CreatorBps \in Nat
  BY <1>1
<1>3. (fee * CreatorBps) \div 10000 \in Nat
  BY <1>2
<1> QED
  BY <1>3 DEF SplitCreatorFee

\* PaidFieldsAgree of a single profile.
PaidAgrees(p) ==
    /\ p.paid <=> p.expiry > 0
    /\ p.auto => p.paid
    /\ p.level = LevelSubscriber => p.paid
    /\ p.paid => p.exists /\ p.level # LevelFree

\* Activation of a profile that was given an expiry.
LEMMA ActivateAgrees ==
  ASSUME NEW old \in Profile, PaidAgrees(old), old.exists,
         NEW e \in Nat, e > 0, NEW a \in BOOLEAN
  PROVE  /\ ActivatePaid(old, e, a) \in Profile /\ PaidAgrees(ActivatePaid(old, e, a))
         /\ ActivatePaid(old, e, a).expiry = e /\ ActivatePaid(old, e, a).exists
  BY DEF ActivatePaid, PaidAgrees, Profile, LevelFree, LevelSubscriber, LevelAdminMin

\* Deactivation of an existing profile.
LEMMA DeactivateAgrees ==
  ASSUME NEW old \in Profile, PaidAgrees(old)
  PROVE  /\ DeactivatePaid(old) \in Profile /\ PaidAgrees(DeactivatePaid(old))
         /\ DeactivatePaid(old).expiry = 0
         /\ DeactivatePaid(old).exists = old.exists
  BY DEF DeactivatePaid, PaidAgrees, Profile, LevelFree, LevelSubscriber, LevelAdminMin

\* Replacing the schedule of u keeps the queue in step with the renewal states,
\* and takes no other account's key away.
LEMMA ReplaceKeepsQueue ==
  ASSUME TypeOK, QueueMatchesState, ScheduleInWindow,
         NEW u \in Users, NEW p \in Profile, p.expiry > 0 => p.exists,
         NEW q \in SUBSET queue, \A k \in queue \ q : k.user = u,
         profile' = [profile EXCEPT ![u] = p],
         ReplaceSubscriptionRenewalSchedule(u, p, q)
  PROVE  /\ renewal' \in [Users -> RenewalState]
         /\ queue' \subseteq Key
         /\ QueueMatchesState'
         /\ ScheduleInWindow'
         /\ \A k \in queue : k.user # u => k \in queue'
<1> DEFINE st == NextRenewal(p)
<1>1. EarlyRenewal \in Nat /\ now \in Nat
  BY ParamsAssumption DEF TypeOK
<1>2. p.expiry \in Nat /\ p.exists \in BOOLEAN
  BY DEF Profile
<1>3. st \in RenewalState /\ st.expiry <= st.at + EarlyRenewal
  BY <1>1, <1>2 DEF NextRenewal, RenewalState, NoRenewal, Later
<1>4. st.expiry = p.expiry
  BY <1>2 DEF NextRenewal, NoRenewal
<1> HIDE DEF st
<1>5. renewal' = [renewal EXCEPT ![u] = st]
  BY DEF ReplaceSubscriptionRenewalSchedule, st
<1>6. queue' = (q \ RenewalKeys(u, renewal[u])) \cup RenewalKeys(u, st)
  BY DEF ReplaceSubscriptionRenewalSchedule, st
<1>7. renewal' \in [Users -> RenewalState]
  BY <1>3, <1>5 DEF TypeOK
<1>8. RenewalKeys(u, st) \subseteq Key
  BY <1>3 DEF RenewalKeys, Key, RenewalState
<1>9. queue' \subseteq Key
  BY <1>6, <1>8 DEF TypeOK
<1>10. \A v \in Users : renewal'[v] = IF v = u THEN st ELSE renewal[v]
  BY <1>5 DEF TypeOK
<1>11. \A v \in Users : profile'[v] = IF v = u THEN p ELSE profile[v]
  BY DEF TypeOK
<1>12. \A v, r : \A k \in RenewalKeys(v, r) : k.user = v
  BY DEF RenewalKeys
<1>13. \A k \in queue : k.user # u => k \in queue'
  BY <1>6, <1>12
<1>14. \A k \in queue' : k \in RenewalKeys(k.user, renewal'[k.user])
  <2> SUFFICES ASSUME NEW k \in queue'
               PROVE  k \in RenewalKeys(k.user, renewal'[k.user])
    OBVIOUS
  <2>1. CASE k \in RenewalKeys(u, st)
    BY <2>1, <1>10, <1>12
  <2>2. CASE k \in q /\ k \notin RenewalKeys(u, renewal[u])
    <3>1. k \in RenewalKeys(k.user, renewal[k.user])
      BY <2>2 DEF QueueMatchesState
    <3>2. k.user \in Users
      BY <2>2 DEF TypeOK, Key
    <3> QED
      BY <2>2, <3>1, <3>2, <1>10
  <2> QED
    BY <1>6, <2>1, <2>2
<1>15. ASSUME NEW v \in Users, profile'[v].expiry > 0
       PROVE  renewal'[v].expiry = profile'[v].expiry /\ RenewalKeys(v, renewal'[v]) \subseteq queue'
  <2>1. CASE v = u
    BY <2>1, <1>4, <1>6, <1>10, <1>11
  <2>2. CASE v # u
    <3>1. /\ renewal[v].expiry = profile[v].expiry
          /\ RenewalKeys(v, renewal[v]) \subseteq queue
      BY <2>2, <1>11, <1>15 DEF QueueMatchesState
    <3> QED
      BY <2>2, <3>1, <1>10, <1>11, <1>12, <1>13
  <2> QED
    BY <2>1, <2>2
<1>16. ScheduleInWindow'
  BY <1>3, <1>10 DEF ScheduleInWindow
<1> QED
  BY <1>7, <1>9, <1>13, <1>14, <1>15, <1>16 DEF QueueMatchesState

\* Moving u's index entry from its old to its new expiry.
LEMMA MoveKeepsIndex ==
  ASSUME TypeOK, PaidIsIndexed, IndexIsCurrent, IndexIsPositive,
         NEW u \in Users, NEW p \in Profile,
         profile' = [profile EXCEPT ![u] = p],
         index' = (index \ IndexEntries(u, profile[u].expiry)) \cup IndexEntries(u, p.expiry),
         overridden' = overridden
  PROVE  index' \subseteq Entry /\ PaidIsIndexed' /\ IndexIsCurrent' /\ IndexIsPositive'
<1>1. p.expiry \in Nat
  BY DEF Profile
<1>2. \A v \in Users : profile'[v] = IF v = u THEN p ELSE profile[v]
  BY DEF TypeOK
<1>3. IndexEntries(u, p.expiry) \subseteq Entry
  BY <1>1 DEF IndexEntries, Entry
<1>4. index' \subseteq Entry
  BY <1>3 DEF TypeOK
<1>5. PaidIsIndexed'
  BY <1>2 DEF PaidIsIndexed, IndexEntries
<1>6. IndexIsPositive'
  BY DEF IndexIsPositive, IndexEntries
<1>7. ASSUME NEW e \in index', e.user \notin overridden
      PROVE  profile'[e.user].expiry = e.at
  <2>0. e \in Entry
    BY <1>4
  <2>1. CASE e \in IndexEntries(u, p.expiry)
    BY <2>1, <1>2 DEF IndexEntries
  <2>2. CASE e \in index /\ e \notin IndexEntries(u, profile[u].expiry)
    <3>1. profile[e.user].expiry = e.at /\ e.at > 0
      BY <2>2, <1>7 DEF IndexIsCurrent, IndexIsPositive
    <3>2. e = [at |-> e.at, user |-> e.user] /\ e.user \in Users
      BY <2>0 DEF Entry
    <3>3. e.user # u
      BY <2>2, <3>1, <3>2 DEF IndexEntries
    <3> QED
      BY <3>1, <3>2, <3>3, <1>2
  <2> QED
    BY <2>1, <2>2
<1> QED
  BY <1>4, <1>5, <1>6, <1>7 DEF IndexIsCurrent
-----------------------------------------------------------------------------
\* PaidFieldsAgree is PaidAgrees of every profile, and survives the update of
\* one profile.
LEMMA UpdateKeepsFields ==
  ASSUME TypeOK, PaidFieldsAgree,
         NEW u \in Users, NEW p \in Profile, PaidAgrees(p),
         profile' = [profile EXCEPT ![u] = p]
  PROVE  PaidFieldsAgree' /\ profile' \in [Users -> Profile]
<1>1. profile' \in [Users -> Profile]
  BY DEF TypeOK
<1>2. \A v \in Users : profile'[v] = IF v = u THEN p ELSE profile[v]
  BY DEF TypeOK
<1> QED
  BY <1>1, <1>2 DEF PaidFieldsAgree, PaidAgrees

\* The effect of a tranche on everything but the collected keys and entries.
LEMMA TrancheKeepsInv ==
  ASSUME Inv,
         NEW payer \in Users, NEW u \in Users, NEW self \in BOOLEAN, NEW n,
         NEW q \in SUBSET queue, \A k \in queue \ q : k.user = u,
         CreateTranche(payer, u, self, n, q), overridden' = overridden
  PROVE  /\ profile' \in [Users -> Profile] /\ PaidFieldsAgree'
         /\ index' \subseteq Entry /\ PaidIsIndexed' /\ IndexIsCurrent' /\ IndexIsPositive'
         /\ renewal' \in [Users -> RenewalState] /\ queue' \subseteq Key
         /\ QueueMatchesState' /\ ScheduleInWindow'
         /\ \A k \in queue : k.user # u => k \in queue'
         /\ bal' \in [Users -> Nat] /\ creatorPool' \in Nat
<1> USE DEF Inv
<1> DEFINE old == profile[u]
           end == TrancheEnd(old, n)
           new == ActivatePaid(old, end, self \/ old.auto)
           fee == PeriodFee * n
<1>1. n \in 1..MaxPeriods /\ old.exists /\ CanPay(payer, fee)
  BY DEF CreateTranche
<1>2. old \in Profile /\ now \in Nat \ {0}
  BY DEF TypeOK
<1>3. end \in Nat /\ end > 0
  BY <1>1, <1>2, TrancheEndLater
<1>4. PaidAgrees(old)
  BY DEF PaidFieldsAgree, PaidAgrees
<1>5. (self \/ old.auto) \in BOOLEAN
  OBVIOUS
<1>6. new \in Profile /\ PaidAgrees(new) /\ new.expiry = end /\ new.exists
  BY <1>1, <1>2, <1>3, <1>4, <1>5, ActivateAgrees
<1>7. /\ profile' = [profile EXCEPT ![u] = new]
      /\ index' = (index \ IndexEntries(u, profile[u].expiry)) \cup IndexEntries(u, new.expiry)
      /\ ReplaceSubscriptionRenewalSchedule(u, new, q)
      /\ ChargeFee(payer, fee)
  BY DEF CreateTranche
<1>8. fee \in Nat
  <2>1. PeriodFee \in Nat /\ n \in Nat
    BY <1>1, ParamsAssumption
  <2> QED
    BY <2>1
<1> HIDE DEF new, end, old, fee
<1>9. profile' \in [Users -> Profile] /\ PaidFieldsAgree'
  BY <1>6, <1>7, UpdateKeepsFields
<1>10. index' \subseteq Entry /\ PaidIsIndexed' /\ IndexIsCurrent' /\ IndexIsPositive'
  BY <1>6, <1>7, MoveKeepsIndex
<1>11. /\ renewal' \in [Users -> RenewalState] /\ queue' \subseteq Key
       /\ QueueMatchesState' /\ ScheduleInWindow'
       /\ \A k \in queue : k.user # u => k \in queue'
  BY <1>6, <1>7, ReplaceKeepsQueue
<1>12. bal' \in [Users -> Nat] /\ creatorPool' \in Nat
  <2> DEFINE split == SplitCreatorFee(fee)
  <2>1. split.creator \in Nat /\ split.burn \in Int /\ split.burn + split.creator = fee
    BY <1>8, SplitIsNat
  <2>2. bal[payer] >= fee
    BY <1>1 DEF CanPay
  <2>3. /\ bal' = [bal EXCEPT ![payer] = (bal[payer] - split.burn) - split.creator]
        /\ creatorPool' = creatorPool + split.creator
    BY <1>7 DEF ChargeFee
  <2> HIDE DEF split
  <2>4. (bal[payer] - split.burn) - split.creator \in Nat
    BY <2>1, <2>2, <1>8 DEF TypeOK
  <2> QED
    BY <2>1, <2>3, <2>4 DEF TypeOK
<1> QED
  BY <1>9, <1>10, <1>11, <1>12

\* A renewal attempt keeps the invariant.
LEMMA AttemptRenewalInv ==
  ASSUME Inv, NEW k \in due, AttemptRenewal(k)
  PROVE  Inv'
<1> USE DEF Inv
<1> DEFINE u == k.user
           rest == queue \ {k}
<1>1. /\ phase = "renew" /\ now' = now /\ expired' = expired
      /\ attempted' = attempted /\ overridden' = overridden
  BY DEF AttemptRenewal
<1>2. k \in Key /\ k \in queue /\ u \in Users
  BY <1>1 DEF TypeOK, Key, CollectedIsCurrent
<1>3. k \in RenewalKeys(u, renewal[u])
  BY <1>2 DEF QueueMatchesState
<1>4. \A d \in due \ {k} : d \in queue /\ d # k /\ d.at <= now
  BY <1>1 DEF CollectedIsCurrent
<1>5. \A d \in due \ {k} : d.user # u
  <2> SUFFICES ASSUME NEW d \in due \ {k}, d.user = u
               PROVE  FALSE
    OBVIOUS
  <2>1. d \in RenewalKeys(u, renewal[u])
    BY <1>4 DEF QueueMatchesState
  <2> QED
    BY <2>1, <1>3, <1>4 DEF RenewalKeys
<1>6. rest \in SUBSET queue /\ \A j \in queue \ rest : j.user = u
  OBVIOUS
<1>7. CASE /\ ~profile[u].exists
           /\ due' = due \ {k} /\ queue' = rest
           /\ UNCHANGED <<phase, profile, index, renewal, bal, creatorPool>>
  <2>1. \A v \in Users : profile[v].expiry > 0 => v # u
    BY <1>7 DEF PaidFieldsAgree
  <2>2. QueueMatchesState'
    <3>1. \A j \in queue' : j \in RenewalKeys(j.user, renewal'[j.user])
      BY <1>7 DEF QueueMatchesState
    <3>2. \A v \in Users : v # u => k \notin RenewalKeys(v, renewal[v])
      BY DEF RenewalKeys
    <3> QED
      BY <1>7, <2>1, <3>1, <3>2 DEF QueueMatchesState
  <2>3. CollectedIsCurrent'
    BY <1>1, <1>4, <1>7 DEF CollectedIsCurrent
  <2>4. TypeOK'
    BY <1>1, <1>7 DEF TypeOK
  <2> QED
    BY <1>1, <1>7, <2>2, <2>3, <2>4
    DEF PaidFieldsAgree, PaidIsIndexed, IndexIsCurrent, ScheduleInWindow, IndexIsPositive
<1>8. CASE /\ profile[u].exists
           /\ due' = due \ {k}
           /\ ReplaceSubscriptionRenewalSchedule(u, profile[u], rest)
           /\ UNCHANGED <<phase, profile, index, bal, creatorPool>>
  <2>1. profile[u] \in Profile /\ profile' = [profile EXCEPT ![u] = profile[u]]
    BY <1>2, <1>8 DEF TypeOK
  <2>2. /\ renewal' \in [Users -> RenewalState] /\ queue' \subseteq Key
        /\ QueueMatchesState' /\ ScheduleInWindow'
        /\ \A j \in queue : j.user # u => j \in queue'
    BY <1>2, <1>6, <1>8, <2>1, ReplaceKeepsQueue
  <2>3. CollectedIsCurrent'
    BY <1>1, <1>4, <1>5, <1>8, <2>2 DEF CollectedIsCurrent
  <2>4. TypeOK'
    BY <1>1, <1>8, <2>2 DEF TypeOK
  <2> QED
    BY <1>1, <1>8, <2>2, <2>3, <2>4
    DEF PaidFieldsAgree, PaidIsIndexed, IndexIsCurrent, IndexIsPositive
<1>9. CASE due' = due \ {k} /\ CreateTranche(u, u, FALSE, 1, rest) /\ UNCHANGED phase
  <2>1. /\ profile' \in [Users -> Profile] /\ PaidFieldsAgree'
        /\ index' \subseteq Entry /\ PaidIsIndexed' /\ IndexIsCurrent' /\ IndexIsPositive'
        /\ renewal' \in [Users -> RenewalState] /\ queue' \subseteq Key
        /\ QueueMatchesState' /\ ScheduleInWindow'
        /\ \A j \in queue : j.user # u => j \in queue'
        /\ bal' \in [Users -> Nat] /\ creatorPool' \in Nat
    BY <1>1, <1>2, <1>6, <1>9, TrancheKeepsInv
  <2>2. CollectedIsCurrent'
    BY <1>1, <1>4, <1>5, <1>9, <2>1 DEF CollectedIsCurrent
  <2>3. TypeOK'
    BY <1>1, <1>9, <2>1 DEF TypeOK
  <2> QED
    BY <2>1, <2>2, <2>3
<1>10. CASE /\ phase' = "halted"
            /\ UNCHANGED <<due, profile, index, renewal, queue, bal, creatorPool>>
  BY <1>1, <1>10
  DEF TypeOK, PaidFieldsAgree, PaidIsIndexed, IndexIsCurrent, QueueMatchesState,
      ScheduleInWindow, IndexIsPositive, CollectedIsCurrent
<1> QED
  BY <1>7, <1>8, <1>9, <1>10 DEF AttemptRenewal

\* Ending an expired subscription keeps the invariant.
LEMMA ExpireSubscriptionInv ==
  ASSUME Inv, NEW e \in expired, ExpireSubscription(e)
  PROVE  Inv'
<1> USE DEF Inv
<1> DEFINE u == e.user
           p == DeactivatePaid(profile[u])
<1>1. /\ phase = "expire" /\ now' = now /\ due' = due /\ bal' = bal
      /\ creatorPool' = creatorPool /\ attempted' = attempted /\ overridden' = overridden
  BY DEF ExpireSubscription
<1>2. e \in Entry /\ e \in index /\ u \in Users /\ e = [at |-> e.at, user |-> u]
  BY <1>1 DEF TypeOK, Entry, CollectedIsCurrent
<1>3. CASE /\ expired' = expired \ {e} /\ index' = index \ {e}
           /\ profile' = [profile EXCEPT ![u] = p]
           /\ ReplaceSubscriptionRenewalSchedule(u, p, queue)
           /\ UNCHANGED phase
  <2>1. profile[u] \in Profile /\ PaidAgrees(profile[u])
    BY <1>2 DEF TypeOK, PaidFieldsAgree, PaidAgrees
  <2>2. p \in Profile /\ PaidAgrees(p) /\ p.expiry = 0
    BY <2>1, DeactivateAgrees
  <2>0. queue \in SUBSET queue /\ (\A k \in queue \ queue : k.user = u) /\ ~(p.expiry > 0)
    BY <2>2
  <2> HIDE DEF p
  <2>3. profile' \in [Users -> Profile] /\ PaidFieldsAgree'
    BY <1>2, <1>3, <2>2, UpdateKeepsFields
  <2>4. /\ renewal' \in [Users -> RenewalState] /\ queue' \subseteq Key
        /\ QueueMatchesState' /\ ScheduleInWindow'
    BY <1>2, <1>3, <2>0, <2>2, ReplaceKeepsQueue
  <2>5. \A v \in Users : profile'[v] = IF v = u THEN p ELSE profile[v]
    BY <1>3 DEF TypeOK
  <2>6. PaidIsIndexed'
    BY <1>2, <1>3, <2>2, <2>5 DEF PaidIsIndexed, IndexEntries
  <2>7. IndexIsCurrent'
    <3> SUFFICES ASSUME NEW d \in index', d.user \notin overridden
                 PROVE  profile'[d.user].expiry = d.at
      BY <1>1 DEF IndexIsCurrent
    <3>1. d \in index /\ d # e /\ profile[d.user].expiry = d.at
      BY <1>3 DEF IndexIsCurrent
    <3>2. d = [at |-> d.at, user |-> d.user] /\ d.user \in Users
      BY <3>1 DEF TypeOK, Entry
    <3>3. d.user # u
      BY <1>2, <3>1, <3>2 DEF IndexIsCurrent
    <3> QED
      BY <2>5, <3>1, <3>2, <3>3
  <2>8. IndexIsPositive'
    BY <1>3 DEF IndexIsPositive
  <2>9. CollectedIsCurrent'
    BY <1>1, <1>3 DEF CollectedIsCurrent
  <2>10. TypeOK'
    BY <1>1, <1>3, <2>3, <2>4 DEF TypeOK
  <2> QED
    BY <2>3, <2>4, <2>6, <2>7, <2>8, <2>9, <2>10
<1>4. CASE phase' = "halted" /\ UNCHANGED <<expired, profile, index, renewal, queue>>
  BY <1>1, <1>4
  DEF TypeOK, PaidFieldsAgree, PaidIsIndexed, IndexIsCurrent, QueueMatchesState,
      ScheduleInWindow, IndexIsPositive, CollectedIsCurrent
<1> QED
  BY <1>3, <1>4 DEF ExpireSubscription

\* The steps of BeginBlock between its two loops keep the invariant.
LEMMA BlockBoundaryInv ==
  ASSUME Inv, BeginBlock \/ StartExpiries \/ EndBeginBlock
  PROVE  Inv'
<1> USE DEF Inv
<1>1. CASE BeginBlock
  <2>1. PICK t \in now..Later(now, MaxTime) :
           now' = t /\ due' \in FirstByTime(DueKeys(t), AttemptsPerBlock)
    BY <1>1 DEF BeginBlock
  <2>2. now' \in Nat \ {0} /\ now' >= now
    BY <2>1, ParamsAssumption DEF TypeOK, Later
  <2>3. due' \subseteq queue /\ \A d \in due' : d.at <= now'
    BY <2>1 DEF FirstByTime, DueKeys
  <2> QED
    BY <1>1, <2>2, <2>3
    DEF BeginBlock, TypeOK, PaidFieldsAgree, PaidIsIndexed, IndexIsCurrent,
        QueueMatchesState, ScheduleInWindow, IndexIsPositive, CollectedIsCurrent
<1>2. CASE StartExpiries
  <2>1. expired' \subseteq index /\ \A d \in expired' : d.at <= now
    BY <1>2 DEF StartExpiries, FirstByTime, ExpiredSubscriptions
  <2> QED
    BY <1>2, <2>1
    DEF StartExpiries, TypeOK, PaidFieldsAgree, PaidIsIndexed, IndexIsCurrent,
        QueueMatchesState, ScheduleInWindow, IndexIsPositive, CollectedIsCurrent
<1>3. CASE EndBeginBlock
  BY <1>3
  DEF EndBeginBlock, TypeOK, PaidFieldsAgree, PaidIsIndexed, IndexIsCurrent,
      QueueMatchesState, ScheduleInWindow, IndexIsPositive, CollectedIsCurrent
<1> QED
  BY <1>1, <1>2, <1>3

\* Every transaction keeps the invariant.
LEMMA TransactionInv ==
  ASSUME Inv, Transaction
  PROVE  Inv'
<1> USE DEF Inv
<1>1. PICK u \in Users :
        \/ SetUsername(u)
        \/ \E payer \in Users, gov \in BOOLEAN, n \in 1..MaxPeriods :
              Subscribe(payer, u, gov, n)
        \/ \E auto \in BOOLEAN : SetAutoRenewal(u, auto)
        \/ \E level \in {LevelFree, LevelAdminMin} : SetLevel(u, level)
        \/ \E term \in GovTerms, auto \in BOOLEAN : GovSubscribe(u, now + term, auto)
        \/ GovUnsubscribe(u)
        \/ DeleteUser(u)
        \/ \E v \in Users, amount \in Amounts : SendTokens(u, v, amount)
  BY DEF Transaction
<1>2. profile[u] \in Profile /\ PaidAgrees(profile[u]) /\ now \in Nat \ {0}
  BY DEF TypeOK, PaidFieldsAgree, PaidAgrees
<1>3. queue \in SUBSET queue /\ \A k \in queue \ queue : k.user = u
  OBVIOUS
<1>4. CASE SetUsername(u)
  <2> DEFINE p == [profile[u] EXCEPT !.exists = TRUE]
  <2>1. p \in Profile /\ PaidAgrees(p) /\ p.expiry = profile[u].expiry
    BY <1>2 DEF Profile, PaidAgrees
  <2>2. profile' = [profile EXCEPT ![u] = p]
    BY <1>4 DEF SetUsername
  <2> HIDE DEF p
  <2>3. profile' \in [Users -> Profile] /\ PaidFieldsAgree'
    BY <2>1, <2>2, UpdateKeepsFields
  <2>4. \A v \in Users : profile'[v].expiry = profile[v].expiry
    BY <2>1, <2>2 DEF TypeOK
  <2> QED
    BY <1>4, <2>3, <2>4
    DEF SetUsername, TypeOK, PaidIsIndexed, IndexIsCurrent, QueueMatchesState,
        ScheduleInWindow, IndexIsPositive, CollectedIsCurrent, Entry
<1>5. ASSUME NEW payer \in Users, NEW gov \in BOOLEAN, NEW n \in 1..MaxPeriods,
             Subscribe(payer, u, gov, n)
      PROVE  Inv'
  <2>1. CreateTranche(payer, u, payer = u /\ ~gov, n, queue)
    BY <1>5 DEF Subscribe
  <2>2. /\ phase = "txs" /\ phase' = phase /\ now' = now /\ due' = due
        /\ expired' = expired /\ attempted' = attempted /\ overridden' = overridden
    BY <1>5 DEF Subscribe
  <2>3. /\ profile' \in [Users -> Profile] /\ PaidFieldsAgree'
        /\ index' \subseteq Entry /\ PaidIsIndexed' /\ IndexIsCurrent' /\ IndexIsPositive'
        /\ renewal' \in [Users -> RenewalState] /\ queue' \subseteq Key
        /\ QueueMatchesState' /\ ScheduleInWindow'
        /\ bal' \in [Users -> Nat] /\ creatorPool' \in Nat
    BY <1>3, <2>1, <2>2, TrancheKeepsInv
  <2> QED
    BY <2>2, <2>3 DEF TypeOK, CollectedIsCurrent
<1>6. ASSUME NEW auto \in BOOLEAN, SetAutoRenewal(u, auto)
      PROVE  Inv'
  <2> DEFINE p == [profile[u] EXCEPT !.auto = auto]
  <2>1. p \in Profile /\ PaidAgrees(p) /\ p.expiry = profile[u].expiry /\ p.exists
    BY <1>2, <1>6 DEF SetAutoRenewal, Profile, PaidAgrees
  <2>2. /\ profile' = [profile EXCEPT ![u] = p]
        /\ ReplaceSubscriptionRenewalSchedule(u, p, queue)
    BY <1>6 DEF SetAutoRenewal
  <2> HIDE DEF p
  <2>3. profile' \in [Users -> Profile] /\ PaidFieldsAgree'
    BY <2>1, <2>2, UpdateKeepsFields
  <2>4. /\ renewal' \in [Users -> RenewalState] /\ queue' \subseteq Key
        /\ QueueMatchesState' /\ ScheduleInWindow'
    BY <1>3, <2>1, <2>2, ReplaceKeepsQueue
  <2>5. \A v \in Users : profile'[v].expiry = profile[v].expiry
    BY <2>1, <2>2 DEF TypeOK
  <2> QED
    BY <1>6, <2>3, <2>4, <2>5
    DEF SetAutoRenewal, TypeOK, PaidIsIndexed, IndexIsCurrent, IndexIsPositive,
        CollectedIsCurrent, Entry
<1>7. ASSUME NEW level \in {LevelFree, LevelAdminMin}, SetLevel(u, level)
      PROVE  Inv'
  <2> DEFINE l == IF level = LevelFree /\ profile[u].paid THEN LevelSubscriber ELSE level
             p == [profile[u] EXCEPT !.level = l]
  <2>1. p \in Profile /\ PaidAgrees(p) /\ p.expiry = profile[u].expiry
    BY <1>2 DEF Profile, PaidAgrees, LevelFree, LevelSubscriber, LevelAdminMin
  <2>2. profile' = [profile EXCEPT ![u] = p]
    BY <1>7 DEF SetLevel
  <2> HIDE DEF p, l
  <2>3. profile' \in [Users -> Profile] /\ PaidFieldsAgree'
    BY <2>1, <2>2, UpdateKeepsFields
  <2>4. \A v \in Users : profile'[v].expiry = profile[v].expiry
    BY <2>1, <2>2 DEF TypeOK
  <2> QED
    BY <1>7, <2>3, <2>4
    DEF SetLevel, TypeOK, PaidIsIndexed, IndexIsCurrent, QueueMatchesState,
        ScheduleInWindow, IndexIsPositive, CollectedIsCurrent, Entry
<1>8. ASSUME NEW term \in GovTerms, NEW auto \in BOOLEAN, GovSubscribe(u, now + term, auto)
      PROVE  Inv'
  <2> DEFINE e == now + term
             p == ActivatePaid(profile[u], e, auto)
  <2>a. profile[u].exists /\ e > now
    BY <1>8 DEF GovSubscribe
  <2>b. now \in Nat /\ term \in Nat
    BY <1>2, ParamsAssumption
  <2>1. e \in Nat /\ e > 0 /\ profile[u].exists
    BY <2>a, <2>b
  <2>2. p \in Profile /\ PaidAgrees(p) /\ p.expiry = e /\ p.exists
    BY <1>2, <2>1, ActivateAgrees
  <2>3. /\ profile' = [profile EXCEPT ![u] = p]
        /\ index' = (index \ IndexEntries(u, profile[u].expiry)) \cup IndexEntries(u, e)
        /\ ReplaceSubscriptionRenewalSchedule(u, p, queue)
    BY <1>8 DEF GovSubscribe
  <2>4. /\ phase = "txs" /\ phase' = phase /\ now' = now /\ due' = due /\ bal' = bal
        /\ expired' = expired /\ creatorPool' = creatorPool
        /\ attempted' = attempted /\ overridden' = overridden
    BY <1>8 DEF GovSubscribe
  <2> HIDE DEF p, e
  <2>5. profile' \in [Users -> Profile] /\ PaidFieldsAgree'
    BY <2>2, <2>3, UpdateKeepsFields
  <2>6. /\ renewal' \in [Users -> RenewalState] /\ queue' \subseteq Key
        /\ QueueMatchesState' /\ ScheduleInWindow'
    BY <1>3, <2>2, <2>3, ReplaceKeepsQueue
  <2>7. index' \subseteq Entry /\ PaidIsIndexed' /\ IndexIsCurrent' /\ IndexIsPositive'
    BY <2>2, <2>3, <2>4, MoveKeepsIndex
  <2> QED
    BY <2>4, <2>5, <2>6, <2>7 DEF TypeOK, CollectedIsCurrent
<1>9. CASE GovUnsubscribe(u)
  <2> DEFINE p == DeactivatePaid(profile[u])
  <2>1. p \in Profile /\ PaidAgrees(p) /\ p.expiry = 0
    BY <1>2, DeactivateAgrees
  <2>0. ~(p.expiry > 0)
    BY <2>1
  <2>2. /\ profile' = [profile EXCEPT ![u] = p]
        /\ ReplaceSubscriptionRenewalSchedule(u, p, queue)
    BY <1>9 DEF GovUnsubscribe
  <2>3. /\ phase = "txs" /\ phase' = phase /\ now' = now /\ due' = due /\ bal' = bal
        /\ expired' = expired /\ creatorPool' = creatorPool /\ index' = index
        /\ attempted' = attempted /\ overridden' = overridden \cup {u}
    BY <1>9 DEF GovUnsubscribe
  <2> HIDE DEF p
  <2>4. profile' \in [Users -> Profile] /\ PaidFieldsAgree'
    BY <2>1, <2>2, UpdateKeepsFields
  <2>5. /\ renewal' \in [Users -> RenewalState] /\ queue' \subseteq Key
        /\ QueueMatchesState' /\ ScheduleInWindow'
    BY <1>3, <2>0, <2>1, <2>2, ReplaceKeepsQueue
  <2>6. \A v \in Users : profile'[v] = IF v = u THEN p ELSE profile[v]
    BY <2>2 DEF TypeOK
  <2>7. PaidIsIndexed'
    BY <2>1, <2>3, <2>6 DEF PaidIsIndexed, IndexEntries
  <2>8. IndexIsCurrent'
    BY <2>3, <2>6 DEF IndexIsCurrent, TypeOK, Entry
  <2> QED
    BY <2>3, <2>4, <2>5, <2>7, <2>8 DEF TypeOK, CollectedIsCurrent, IndexIsPositive
<1>10. CASE DeleteUser(u)
  <2>1. NoProfile \in Profile /\ PaidAgrees(NoProfile) /\ NoProfile.expiry = 0
    BY DEF NoProfile, Profile, PaidAgrees, LevelFree, LevelSubscriber, LevelAdminMin
  <2>a. /\ profile' = [profile EXCEPT ![u] = NoProfile]
        /\ index' = index \ IndexEntries(u, profile[u].expiry)
    BY <1>10 DEF DeleteUser
  <2>b. IndexEntries(u, NoProfile.expiry) = {}
    BY <2>1 DEF IndexEntries
  <2>2. /\ profile' = [profile EXCEPT ![u] = NoProfile]
        /\ index' = (index \ IndexEntries(u, profile[u].expiry)) \cup IndexEntries(u, NoProfile.expiry)
    BY <2>a, <2>b
  <2>3. /\ phase = "txs" /\ phase' = phase /\ now' = now /\ due' = due
        /\ expired' = expired /\ creatorPool' = creatorPool
        /\ attempted' = attempted /\ overridden' = overridden
        /\ renewal' = renewal /\ queue' = queue /\ bal' = [bal EXCEPT ![u] = 0]
    BY <1>10 DEF DeleteUser
  <2>4. profile' \in [Users -> Profile] /\ PaidFieldsAgree'
    BY <2>1, <2>2, UpdateKeepsFields
  <2>5. index' \subseteq Entry /\ PaidIsIndexed' /\ IndexIsCurrent' /\ IndexIsPositive'
    BY <2>1, <2>2, <2>3, MoveKeepsIndex
  <2>6. \A v \in Users : profile'[v].expiry > 0 => profile[v].expiry = profile'[v].expiry
    BY <2>1, <2>2 DEF TypeOK
  <2>7. QueueMatchesState' /\ ScheduleInWindow'
    BY <2>3, <2>6 DEF QueueMatchesState, ScheduleInWindow
  <2>8. bal' \in [Users -> Nat]
    BY <2>3 DEF TypeOK
  <2> QED
    BY <2>3, <2>4, <2>5, <2>7, <2>8 DEF TypeOK, CollectedIsCurrent
<1>11. ASSUME NEW v \in Users, NEW amount \in Amounts, SendTokens(u, v, amount)
       PROVE  Inv'
  <2>1. amount \in Nat /\ amount <= bal[u] /\ u # v
    BY <1>11, ParamsAssumption DEF SendTokens
  <2>2. bal' = [bal EXCEPT ![u] = bal[u] - amount, ![v] = bal[v] + amount]
    BY <1>11 DEF SendTokens
  <2>3. bal[u] - amount \in Nat /\ bal[v] + amount \in Nat
    BY <2>1 DEF TypeOK
  <2>4. bal' \in [Users -> Nat]
    BY <2>2, <2>3 DEF TypeOK
  <2> QED
    BY <1>11, <2>4
    DEF SendTokens, TypeOK, PaidFieldsAgree, PaidIsIndexed, IndexIsCurrent,
        QueueMatchesState, ScheduleInWindow, IndexIsPositive, CollectedIsCurrent
<1> QED
  BY <1>1, <1>4, <1>5, <1>6, <1>7, <1>8, <1>9, <1>10, <1>11

\* Every step keeps the invariant.
LEMMA NextInv == Inv /\ [Next]_vars => Inv'
<1> SUFFICES ASSUME Inv, [Next]_vars
             PROVE  Inv'
  OBVIOUS
<1>1. CASE UNCHANGED vars
  BY <1>1
  DEF vars, Inv, TypeOK, PaidFieldsAgree, PaidIsIndexed, IndexIsCurrent,
      QueueMatchesState, ScheduleInWindow, IndexIsPositive, CollectedIsCurrent
<1>2. CASE BeginBlockStep
  BY <1>2, AttemptRenewalInv, ExpireSubscriptionInv, BlockBoundaryInv DEF BeginBlockStep
<1>3. CASE Transaction
  BY <1>3, TransactionInv
<1> QED
  BY <1>1, <1>2, <1>3 DEF Next

\* The inductive invariant holds in every reachable state.
THEOREM Invariance == Spec => []Inv
  BY InitInv, NextInv, PTL DEF Spec

\* Type correctness: in particular no balance and no expiry is ever negative.
THEOREM TypeCorrect == Spec => []TypeOK
<1>1. Inv => TypeOK
  BY DEF Inv
<1> QED
  BY <1>1, Invariance, PTL

\* The paid fields of a profile, the expiry index and the renewal queue agree,
\* whatever sequence of purchases, gifts, renewals, expiries, governance
\* overrides and deletions led here; the only stale index entries are those of
\* accounts governance has overridden.
THEOREM StoresAgree ==
    Spec => [](PaidFieldsAgree /\ PaidIsIndexed /\ IndexIsCurrent /\ QueueMatchesState)
<1>1. Inv => PaidFieldsAgree /\ PaidIsIndexed /\ IndexIsCurrent /\ QueueMatchesState
  BY DEF Inv
<1> QED
  BY <1>1, Invariance, PTL

\* processSubscriptionExpiries never takes paid time from an account that
\* governance has not overridden.
THEOREM PaidTimeIsKept == Spec => KeepsPaidTime
<1>1. ASSUME Inv, [Next]_vars, NEW u \in Users \ overridden,
             phase = "expire", profile[u].paid, ~profile'[u].paid
      PROVE  profile[u].expiry <= now
  <2>1. profile' # profile
    BY <1>1
  <2>2. PICK e \in expired : ExpireSubscription(e)
    BY <1>1, <2>1
    DEF Next, vars, BeginBlockStep, Transaction, BeginBlock, AttemptRenewal, StartExpiries,
        EndBeginBlock, SetUsername, Subscribe, SetAutoRenewal, SetLevel, GovSubscribe,
        GovUnsubscribe, DeleteUser, SendTokens
  <2>3. e \in index /\ e.at <= now /\ e \in Entry
    BY <1>1 DEF Inv, TypeOK, CollectedIsCurrent
  <2>4. e.user = u
    <3>1. profile' = [profile EXCEPT ![e.user] = DeactivatePaid(profile[e.user])]
      BY <2>1, <2>2 DEF ExpireSubscription
    <3> QED
      BY <1>1, <3>1 DEF Inv, TypeOK
  <2>5. profile[u].expiry = e.at
    BY <1>1, <2>3, <2>4 DEF Inv, IndexIsCurrent
  <2> QED
    BY <2>3, <2>5
<1>2. Inv /\ [Next]_vars =>
        [\A u \in Users \ overridden :
           phase = "expire" /\ profile[u].paid /\ ~profile'[u].paid
           => profile[u].expiry <= now]_vars
  BY <1>1
<1> QED
  BY <1>2, Invariance, PTL DEF Spec, KeepsPaidTime

\* An automatic renewal never charges an account that has more than the early
\* renewal window left, however its expiry was moved before.
THEOREM RenewalIsNotEarly == Spec => NoEarlyCharge
<1>1. ASSUME Inv, [Next]_vars, NEW u \in Users,
             phase = "renew", profile'[u].expiry # profile[u].expiry
      PROVE  profile[u].expiry <= now + EarlyRenewal
  <2>1. profile' # profile
    BY <1>1
  <2>2. PICK k \in due : AttemptRenewal(k)
    BY <1>1, <2>1
    DEF Next, vars, BeginBlockStep, Transaction, BeginBlock, ExpireSubscription,
        StartExpiries, EndBeginBlock, SetUsername, Subscribe, SetAutoRenewal, SetLevel,
        GovSubscribe, GovUnsubscribe, DeleteUser, SendTokens
  <2>3. k \in queue /\ k.at <= now /\ k \in Key
    BY <1>1 DEF Inv, TypeOK, CollectedIsCurrent
  <2>4. CreateTranche(k.user, k.user, FALSE, 1, queue \ {k}) /\ profile[k.user].expiry > 0
    BY <2>1, <2>2 DEF AttemptRenewal
  <2>5. k.user = u
    <3>1. PICK p : profile' = [profile EXCEPT ![k.user] = p]
      BY <2>4 DEF CreateTranche
    <3> QED
      BY <1>1, <3>1 DEF Inv, TypeOK
  <2>6. k \in RenewalKeys(u, renewal[u]) /\ renewal[u].expiry = profile[u].expiry
    BY <1>1, <2>3, <2>4, <2>5 DEF Inv, QueueMatchesState
  <2>7. renewal[u].expiry <= renewal[u].at + EarlyRenewal /\ renewal[u].at = k.at
    BY <1>1, <2>6 DEF Inv, ScheduleInWindow, RenewalKeys
  <2>8. renewal[u].at \in Nat /\ now \in Nat /\ EarlyRenewal \in Nat /\ profile[u].expiry \in Nat
    BY <1>1, ParamsAssumption DEF Inv, TypeOK, RenewalState, Profile
  <2> QED
    BY <2>3, <2>6, <2>7, <2>8
<1>2. Inv /\ [Next]_vars =>
        [\A u \in Users :
           phase = "renew" /\ profile'[u].expiry # profile[u].expiry
           => profile[u].expiry <= now + EarlyRenewal]_vars
  BY <1>1
<1> QED
  BY <1>2, Invariance, PTL DEF Spec, NoEarlyCharge

\* An activated profile that was paid keeps its eligibility.
LEMMA RenewalIsNotRefused ==
  ASSUME NEW p, p.paid
  PROVE  ~MayBeRefused(p, Renewed(p))
  BY DEF MayBeRefused, CanCurate, Renewed, ActivatePaid

\* BeginBlock stops the node only at one of three kinds of account: one whose
\* renewal fee only locked coins cover, one without a profile that governance has
\* overridden, and one that loses its eligibility to curate by expiring.  The
\* account named is the one the loop had come to.
THEOREM HaltsAreExplained == Spec => []HaltHasKnownCause
<1>1. Init => HaltHasKnownCause
  BY DEF Init, HaltHasKnownCause
<1>2. Inv /\ HaltHasKnownCause /\ [Next]_vars => HaltHasKnownCause'
  <2> SUFFICES ASSUME Inv, HaltHasKnownCause, [Next]_vars, phase' = "halted"
               PROVE  HaltHasKnownCause'
    BY DEF HaltHasKnownCause
  <2>0. CASE UNCHANGED vars
    BY <2>0 DEF HaltHasKnownCause, FeeIsLocked, IsOrphan, LosesEligibility, vars
  <2>1. \/ UNCHANGED vars
        \/ \E k \in due : AttemptRenewal(k)
        \/ \E e \in expired : ExpireSubscription(e)
    <3>1. Transaction => phase' = "txs"
      BY Zenon DEF Transaction, SetUsername, Subscribe, SetAutoRenewal, SetLevel,
         GovSubscribe, GovUnsubscribe, DeleteUser, SendTokens
    <3> QED
      BY <3>1 DEF Next, BeginBlockStep, BeginBlock, StartExpiries, EndBeginBlock
  <2>2. ASSUME NEW k \in due, AttemptRenewal(k)
        PROVE  HaltHasKnownCause'
    <3>1. /\ profile[k.user].auto /\ bal[k.user] + Locked[k.user] >= PeriodFee
          /\ ~(bal[k.user] >= PeriodFee) \/ MayBeRefused(profile[k.user], Renewed(profile[k.user]))
          /\ \A d \in due : k.at <= d.at
          /\ UNCHANGED <<due, profile, bal>>
      BY <2>2 DEF AttemptRenewal, RenewalBalance, CanPay
    <3>2. k.user \in Users
      BY DEF Inv, TypeOK, Key
    <3>3. profile[k.user].paid
      BY <3>1, <3>2 DEF Inv, PaidFieldsAgree
    <3>4. ~(bal[k.user] >= PeriodFee)
      BY <3>1, <3>3, RenewalIsNotRefused
    <3>5. bal[k.user] < PeriodFee
      BY <3>2, <3>4, ParamsAssumption DEF Inv, TypeOK
    <3> QED
      BY <3>1, <3>5 DEF HaltHasKnownCause, FeeIsLocked
  <2>3. ASSUME NEW e \in expired, ExpireSubscription(e)
        PROVE  HaltHasKnownCause'
    <3> DEFINE p == profile[e.user]
    <3>1. /\ phase = "expire"
          /\ ~p.exists \/ MayBeRefused(p, DeactivatePaid(p))
          /\ \A d \in expired : e.at <= d.at
          /\ UNCHANGED <<expired, profile, overridden>>
      BY <2>3 DEF ExpireSubscription
    <3>2. e \in index /\ e \in Entry /\ e.user \in Users
      BY <3>1 DEF Inv, TypeOK, CollectedIsCurrent, Entry
    <3>3. CASE ~p.exists
      <4>1. ~(p.expiry > 0)
        BY <3>2, <3>3 DEF Inv, PaidFieldsAgree
      <4>2. e.user \in overridden
        BY <3>2, <4>1 DEF Inv, IndexIsCurrent, IndexIsPositive
      <4> QED
        BY <3>1, <3>3, <4>2 DEF HaltHasKnownCause, IsOrphan
    <3>4. CASE MayBeRefused(p, DeactivatePaid(p))
      <4>1. p \in Profile
        BY <3>2 DEF Inv, TypeOK
      <4>2. LosesEligibility(e.user)
        BY <3>4, <4>1 DEF MayBeRefused, CanCurate, DeactivatePaid, LosesEligibility, Profile,
           LevelFree, LevelSubscriber, LevelAdminMin
      <4>3. LosesEligibility(e.user)'
        BY <3>1, <4>2 DEF LosesEligibility
      <4> QED
        BY <3>1, <4>3 DEF HaltHasKnownCause
    <3> QED
      BY <3>1, <3>3, <3>4
  <2> QED
    BY <2>0, <2>1, <2>2, <2>3
<1> QED
  BY <1>1, <1>2, Invariance, PTL DEF Spec
-----------------------------------------------------------------------------
(***************************************************************************)
(* That an account which can pay for its renewal gets it, or is crowded    *)
(* out.                                                                    *)
(***************************************************************************)
\* u's time is up, and its renewal is wanted and affordable.
RenewalOwed(u) ==
    /\ profile[u].auto /\ CanPay(u, PeriodFee)
    /\ profile[u].expiry > 0 /\ profile[u].expiry <= now

\* No renewal is scheduled past both the block time and its expiry.
ScheduleInTime ==
    \A u \in Users : renewal[u].at <= now \/ renewal[u].at <= renewal[u].expiry

\* Until its turn comes, whoever is owed a renewal is in the slice this block
\* attempts, or was crowded out of it; when the expiries start, only those are
\* still owed one.
OwedIsAttempted ==
    /\ phase = "renew" => \A u \in Users :
          RenewalOwed(u) => CrowdedOut(u) \/ \E k \in due : k.user = u
    /\ phase = "expire" => \A u \in Users : RenewalOwed(u) => CrowdedOut(u)

\* The schedule NextRenewal gives is in time.
LEMMA NextRenewalInTime ==
  ASSUME NEW p, p.expiry \in Nat, now \in Nat
  PROVE  /\ NextRenewal(p).at \in Nat /\ NextRenewal(p).expiry \in Nat
         /\ NextRenewal(p).at <= now \/ NextRenewal(p).at <= NextRenewal(p).expiry
<1>1. EarlyRenewal \in Nat
  BY ParamsAssumption
<1>2. CASE p.exists /\ p.expiry > 0
  <2>1. NextRenewal(p) = [at |-> Later(now, p.expiry - EarlyRenewal), expiry |-> p.expiry]
    BY <1>2 DEF NextRenewal
  <2>2. /\ Later(now, p.expiry - EarlyRenewal) \in Nat
        /\ \/ Later(now, p.expiry - EarlyRenewal) <= now
           \/ Later(now, p.expiry - EarlyRenewal) <= p.expiry
    BY <1>1 DEF Later
  <2> QED
    BY <2>1, <2>2
<1>3. CASE ~(p.exists /\ p.expiry > 0)
  BY <1>3 DEF NextRenewal, NoRenewal
<1> QED
  BY <1>2, <1>3

\* A handler recomputes the schedule of one account, at its own time, or leaves
\* schedules alone.
LEMMA StepSchedules ==
  ASSUME Inv, Next
  PROVE  /\ now' \in Nat /\ now' >= now
         /\ \/ renewal' = renewal
            \/ /\ now' = now
               /\ \E u \in Users, p \in Profile : renewal' = [renewal EXCEPT ![u] = NextRenewal(p)]
<1>1. now \in Nat /\ profile \in [Users -> Profile]
  BY DEF Inv, TypeOK
<1>2. Inv'
  BY NextInv
<1>3. now' \in Nat /\ profile' \in [Users -> Profile]
  BY <1>2 DEF Inv, TypeOK
<1>4. CASE BeginBlock
  <2>1. now' \in now..Later(now, MaxTime) /\ renewal' = renewal
    BY <1>4 DEF BeginBlock
  <2>2. now..Later(now, MaxTime) \subseteq {t \in Int : t >= now}
    BY <1>1, ParamsAssumption DEF Later
  <2> QED
    BY <1>3, <2>1, <2>2
<1>5. ASSUME NEW k \in due, AttemptRenewal(k)
      PROVE  /\ now' = now
             /\ \/ renewal' = renewal
                \/ \E p \in Profile : renewal' = [renewal EXCEPT ![k.user] = NextRenewal(p)]
  <2>1. k.user \in Users
    BY DEF Inv, TypeOK, Key
  <2>2. \/ renewal' = renewal
        \/ ReplaceSubscriptionRenewalSchedule(k.user, profile[k.user], queue \ {k})
        \/ CreateTranche(k.user, k.user, FALSE, 1, queue \ {k})
    BY <1>5 DEF AttemptRenewal
  <2>3. CASE CreateTranche(k.user, k.user, FALSE, 1, queue \ {k})
    <3>1. PICK p : profile' = [profile EXCEPT ![k.user] = p]
                   /\ ReplaceSubscriptionRenewalSchedule(k.user, p, queue \ {k})
      BY <2>3 DEF CreateTranche
    <3>2. p = profile'[k.user]
      BY <1>1, <2>1, <3>1
    <3>3. p \in Profile
      BY <1>3, <2>1, <3>2
    <3> QED
      BY <1>5, <3>1, <3>3 DEF AttemptRenewal, ReplaceSubscriptionRenewalSchedule
  <2>4. profile[k.user] \in Profile /\ now' = now
    BY <1>1, <1>5, <2>1 DEF AttemptRenewal
  <2> QED
    BY <2>2, <2>3, <2>4 DEF ReplaceSubscriptionRenewalSchedule
<1>6. ASSUME NEW e \in expired, ExpireSubscription(e)
      PROVE  /\ now' = now
             /\ \/ renewal' = renewal
                \/ \E p \in Profile : renewal' = [renewal EXCEPT ![e.user] = NextRenewal(p)]
  <2>1. e.user \in Users
    BY DEF Inv, TypeOK, Entry
  <2>2. \/ renewal' = renewal
        \/ \E p : /\ profile' = [profile EXCEPT ![e.user] = p]
                  /\ renewal' = [renewal EXCEPT ![e.user] = NextRenewal(p)]
    BY <1>6 DEF ExpireSubscription, ReplaceSubscriptionRenewalSchedule
  <2>3. ASSUME NEW p, profile' = [profile EXCEPT ![e.user] = p]
        PROVE  p \in Profile
    <3>1. p = profile'[e.user]
      BY <1>1, <2>1, <2>3
    <3> QED
      BY <1>3, <2>1, <3>1
  <2> QED
    BY <1>6, <2>2, <2>3 DEF ExpireSubscription
<1>7. ASSUME NEW u \in Users,
             \/ \E payer \in Users, gov \in BOOLEAN, n \in 1..MaxPeriods :
                   Subscribe(payer, u, gov, n)
             \/ \E auto \in BOOLEAN : SetAutoRenewal(u, auto)
             \/ \E term \in GovTerms, auto \in BOOLEAN : GovSubscribe(u, now + term, auto)
             \/ GovUnsubscribe(u)
      PROVE  now' = now /\ \E p \in Profile : renewal' = [renewal EXCEPT ![u] = NextRenewal(p)]
  <2>1. now' = now
    BY <1>7 DEF Subscribe, SetAutoRenewal, GovSubscribe, GovUnsubscribe
  <2>2. PICK p : /\ profile' = [profile EXCEPT ![u] = p]
                 /\ renewal' = [renewal EXCEPT ![u] = NextRenewal(p)]
    BY <1>7 DEF Subscribe, CreateTranche, SetAutoRenewal, GovSubscribe, GovUnsubscribe,
       ReplaceSubscriptionRenewalSchedule
  <2>3. p = profile'[u]
    BY <1>1, <2>2
  <2> QED
    BY <1>3, <2>1, <2>2, <2>3
<1>8. \/ BeginBlock
      \/ \E k \in due : AttemptRenewal(k)
      \/ \E e \in expired : ExpireSubscription(e)
      \/ \E u \in Users :
            \/ \E payer \in Users, gov \in BOOLEAN, n \in 1..MaxPeriods :
                  Subscribe(payer, u, gov, n)
            \/ \E auto \in BOOLEAN : SetAutoRenewal(u, auto)
            \/ \E term \in GovTerms, auto \in BOOLEAN : GovSubscribe(u, now + term, auto)
            \/ GovUnsubscribe(u)
      \/ now' = now /\ renewal' = renewal
  BY DEF Next, BeginBlockStep, Transaction, StartExpiries, EndBeginBlock, SetUsername,
     SetLevel, DeleteUser, SendTokens
<1>9. \A k \in due : k.user \in Users
  BY DEF Inv, TypeOK, Key
<1>10. \A e \in expired : e.user \in Users
  BY DEF Inv, TypeOK, Entry
<1>11. now' = now => now' >= now
  BY <1>1
<1>12. CASE \E k \in due : AttemptRenewal(k)
  BY <1>3, <1>5, <1>9, <1>11, <1>12, Zenon
<1>13. CASE \E e \in expired : ExpireSubscription(e)
  BY <1>3, <1>6, <1>10, <1>11, <1>13, Zenon
<1>14. CASE \E u \in Users :
              \/ \E payer \in Users, gov \in BOOLEAN, n \in 1..MaxPeriods :
                    Subscribe(payer, u, gov, n)
              \/ \E auto \in BOOLEAN : SetAutoRenewal(u, auto)
              \/ \E term \in GovTerms, auto \in BOOLEAN : GovSubscribe(u, now + term, auto)
              \/ GovUnsubscribe(u)
  BY <1>3, <1>7, <1>11, <1>14, Zenon
<1>15. CASE BeginBlock
  BY <1>4, <1>15
<1>16. CASE now' = now /\ renewal' = renewal
  BY <1>3, <1>11, <1>16, Zenon
<1> QED
  BY <1>8, <1>12, <1>13, <1>14, <1>15, <1>16, Zenon

\* Schedules stay in time.
LEMMA ScheduleStaysInTime ==
  ASSUME Inv, ScheduleInTime, [Next]_vars
  PROVE  ScheduleInTime'
<1>1. CASE UNCHANGED vars
  BY <1>1 DEF vars, ScheduleInTime
<1>2. CASE Next
  <2>1. /\ now \in Nat /\ now' \in Nat /\ now' >= now
        /\ renewal \in [Users -> RenewalState]
    BY <1>2, StepSchedules DEF Inv, TypeOK
  <2>2. \A u \in Users : renewal[u].at \in Nat /\ renewal[u].expiry \in Nat
    BY <2>1 DEF RenewalState
  <2>3. CASE renewal' = renewal
    BY <2>1, <2>2, <2>3 DEF ScheduleInTime
  <2>4. ASSUME now' = now, NEW u \in Users, NEW p \in Profile,
               renewal' = [renewal EXCEPT ![u] = NextRenewal(p)]
        PROVE  ScheduleInTime'
    <3>1. p.expiry \in Nat
      BY DEF Profile
    <3>2. NextRenewal(p).at <= now \/ NextRenewal(p).at <= NextRenewal(p).expiry
      BY <2>1, <3>1, NextRenewalInTime
    <3>3. \A v \in Users : renewal'[v] = IF v = u THEN NextRenewal(p) ELSE renewal[v]
      BY <2>1, <2>4
    <3> QED
      BY <2>4, <3>2, <3>3 DEF ScheduleInTime
  <2> QED
    BY <1>2, <2>3, <2>4, StepSchedules
<1> QED
  BY <1>1, <1>2

\* The queue has at most one key for an account, so it is finite.
LEMMA DueIsFinite ==
  ASSUME Inv, NEW t
  PROVE  /\ IsFiniteSet(DueKeys(t))
         /\ \A j, k \in DueKeys(t) : j.user = k.user => j = k
<1> DEFINE S == DueKeys(t)
           f == [k \in S |-> k.user]
<1>1. S \subseteq queue /\ \A k \in S : k.user \in Users
  BY DEF DueKeys, Inv, TypeOK, Key
<1>2. \A j, k \in S : j.user = k.user => j = k
  <2> SUFFICES ASSUME NEW j \in S, NEW k \in S, j.user = k.user
               PROVE  j = k
    OBVIOUS
  <2>1. j \in RenewalKeys(k.user, renewal[k.user]) /\ k \in RenewalKeys(k.user, renewal[k.user])
    BY <1>1 DEF Inv, QueueMatchesState
  <2> QED
    BY <2>1 DEF RenewalKeys
<1> HIDE DEF S
<1>4. f \in [S -> Users] /\ \A j, k \in S : f[j] = f[k] => j = k
  BY <1>1, <1>2
<1> HIDE DEF f
<1>5. f \in Injection(S, Users)
  BY <1>4 DEF Injection, IsInjective
<1>6. IsFiniteSet(S)
  BY <1>5, FS_Injection, ParamsAssumption
<1> QED
  BY <1>2, <1>6 DEF S

\* A key that is due and left out of the slice has the whole slice before it.
LEMMA LeftOutIsCrowdedOut ==
  ASSUME Inv, NEW t, NEW D \in FirstByTime(DueKeys(t), AttemptsPerBlock),
         NEW k \in DueKeys(t), k \notin D
  PROVE  /\ Cardinality(D) = AttemptsPerBlock
         /\ \A d \in D : d.user # k.user /\ d.at <= k.at
<1> DEFINE S == DueKeys(t)
<1>1. /\ D \in SUBSET S
      /\ Cardinality(D) = IF Cardinality(S) < AttemptsPerBlock THEN Cardinality(S) ELSE AttemptsPerBlock
      /\ \A d \in D, e \in S \ D : d.at <= e.at
  BY DEF FirstByTime
<1>2. IsFiniteSet(S) /\ \A i, j \in S : i.user = j.user => i = j
  BY DueIsFinite
<1> HIDE DEF S
<1>3. k \in S
  BY DEF S
<1>4. Cardinality(D) # Cardinality(S)
  BY <1>1, <1>2, <1>3, FS_Subset
<1> QED
  BY <1>1, <1>2, <1>3, <1>4

\* An attempt gives u what it is owed, and takes nothing from the others.
LEMMA AttemptSettles ==
  ASSUME Inv, NEW k \in due, AttemptRenewal(k), phase' # "halted", NEW v \in Users,
         RenewalOwed(v)'
  PROVE  v # k.user /\ RenewalOwed(v)
<1> DEFINE u == k.user
           rest == queue \ {k}
<1>1. phase = "renew" /\ now' = now /\ u \in Users
  BY DEF AttemptRenewal, Inv, TypeOK, Key
<1>2. /\ profile \in [Users -> Profile] /\ bal \in [Users -> Nat] /\ now \in Nat \ {0}
      /\ PeriodFee \in Nat /\ Locked[u] \in Nat /\ bal[u] \in Nat
  BY <1>1, ParamsAssumption DEF Inv, TypeOK
<1>3. CASE /\ ~profile[u].exists
           /\ UNCHANGED <<profile, bal>>
  <2>1. ~profile[u].auto
    BY <1>1, <1>3 DEF Inv, PaidFieldsAgree
  <2> QED
    BY <1>1, <1>3, <2>1 DEF RenewalOwed, CanPay
<1>4. CASE /\ \/ ~profile[u].auto
              \/ profile[u].expiry = 0
              \/ RenewalBalance(u) < PeriodFee
           /\ UNCHANGED <<profile, bal>>
  <2>1. ~(profile[u].auto /\ profile[u].expiry > 0 /\ bal[u] >= PeriodFee)
    BY <1>2, <1>4 DEF RenewalBalance
  <2> QED
    BY <1>1, <1>4, <2>1 DEF RenewalOwed, CanPay
<1>5. CASE CreateTranche(u, u, FALSE, 1, rest)
  <2> DEFINE end == TrancheEnd(profile[u], 1)
  <2>1. /\ profile' = [profile EXCEPT ![u] = ActivatePaid(profile[u], end, FALSE \/ profile[u].auto)]
        /\ \E b : bal' = [bal EXCEPT ![u] = b]
    BY <1>5, Zenon DEF CreateTranche, ChargeFee
  <2>2. 1 \in 1..MaxPeriods /\ profile[u] \in Profile
    BY <1>1, <1>2, ParamsAssumption
  <2>3. end \in Nat /\ end > now
    BY <1>2, <2>2, TrancheEndLater
  <2> HIDE DEF end
  <2>4. profile'[u].expiry = end
    BY <1>1, <1>2, <2>1 DEF ActivatePaid
  <2>5. ~(profile'[u].expiry <= now')
    BY <1>1, <1>2, <2>3, <2>4
  <2>6. v # u
    BY <2>5 DEF RenewalOwed
  <2>7. profile'[v] = profile[v] /\ bal'[v] = bal[v]
    BY <1>2, <2>1, <2>6
  <2> QED
    BY <1>1, <2>6, <2>7 DEF RenewalOwed, CanPay
<1> QED
  BY <1>3, <1>4, <1>5, Zenon DEF AttemptRenewal

\* Every step keeps OwedIsAttempted.
LEMMA OwedStaysAttempted ==
  ASSUME Inv, ScheduleInTime, OwedIsAttempted, [Next]_vars
  PROVE  OwedIsAttempted'
<1>1. CASE UNCHANGED vars
  BY <1>1 DEF vars, OwedIsAttempted, RenewalOwed, CanPay, CrowdedOut
<1>2. CASE BeginBlock
  <2>1. PICK t \in now..Later(now, MaxTime) :
           now' = t /\ due' \in FirstByTime(DueKeys(t), AttemptsPerBlock)
    BY <1>2 DEF BeginBlock
  <2>2. /\ phase' = "renew" /\ attempted' = due'
        /\ profile' = profile /\ renewal' = renewal
    BY <1>2 DEF BeginBlock
  <2>3. t \in Int /\ t >= now /\ now \in Nat
    BY <2>1, ParamsAssumption DEF Later, Inv, TypeOK
  <2>4. ASSUME NEW u \in Users, profile[u].expiry > 0, profile[u].expiry <= t
        PROVE  CrowdedOut(u)' \/ \E k \in due' : k.user = u
    <3> DEFINE k == [at |-> renewal[u].at, user |-> u, expiry |-> renewal[u].expiry]
    <3>1. renewal[u].expiry = profile[u].expiry /\ RenewalKeys(u, renewal[u]) \subseteq queue
      BY <2>4 DEF Inv, QueueMatchesState
    <3>2. k \in queue
      BY <2>4, <3>1 DEF RenewalKeys
    <3>3. renewal[u].at \in Nat /\ profile[u].expiry \in Nat
      BY DEF Inv, TypeOK, RenewalState, Profile
    <3>4. renewal[u].at <= t
      BY <2>3, <2>4, <3>1, <3>3 DEF ScheduleInTime
    <3>5. k \in DueKeys(t) /\ k.user = u /\ k.at = renewal[u].at
      BY <3>2, <3>4 DEF DueKeys
    <3> HIDE DEF k
    <3>6. CASE k \notin due'
      <4>1. /\ Cardinality(due') = AttemptsPerBlock
            /\ \A d \in due' : d.user # k.user /\ d.at <= k.at
        BY <2>1, <3>5, <3>6, LeftOutIsCrowdedOut
      <4> QED
        BY <2>2, <3>5, <4>1 DEF CrowdedOut
    <3> QED
      BY <3>5, <3>6
  <2> QED
    BY <2>1, <2>2, <2>4 DEF OwedIsAttempted, RenewalOwed
<1>3. ASSUME NEW k \in due, AttemptRenewal(k)
      PROVE  OwedIsAttempted'
  <2>1. /\ phase = "renew" /\ phase' \in {"renew", "halted"} /\ attempted' = attempted
        /\ phase' = "renew" => due' = due \ {k}
        /\ \/ renewal' = renewal
           \/ \E st : renewal' = [renewal EXCEPT ![k.user] = st]
    BY <1>3, Zenon
    DEF AttemptRenewal, CreateTranche, ReplaceSubscriptionRenewalSchedule
  <2>2. CASE phase' = "renew"
    <3>1. ASSUME NEW v \in Users, RenewalOwed(v)'
          PROVE  CrowdedOut(v)' \/ \E j \in due' : j.user = v
      <4>1. v # k.user /\ RenewalOwed(v)
        BY <1>3, <2>2, <3>1, AttemptSettles
      <4>2. renewal'[v] = renewal[v]
        BY <2>1, <4>1 DEF Inv, TypeOK
      <4>3. CASE CrowdedOut(v)
        BY <2>1, <4>2, <4>3 DEF CrowdedOut
      <4>4. CASE \E j \in due : j.user = v
        BY <2>1, <2>2, <4>1, <4>4
      <4> QED
        BY <2>1, <4>1, <4>3, <4>4 DEF OwedIsAttempted
    <3> QED
      BY <2>2, <3>1 DEF OwedIsAttempted
  <2>3. CASE phase' = "halted"
    BY <2>3 DEF OwedIsAttempted
  <2> QED
    BY <2>1, <2>2, <2>3
<1>4. CASE StartExpiries
  BY <1>4 DEF StartExpiries, OwedIsAttempted, RenewalOwed, CanPay, CrowdedOut
<1>5. ASSUME NEW e \in expired, ExpireSubscription(e)
      PROVE  OwedIsAttempted'
  <2>1. /\ phase = "expire" /\ now' = now /\ bal' = bal /\ phase' \in {"expire", "halted"}
        /\ attempted' = attempted
        /\ \/ profile' = profile /\ renewal' = renewal
           \/ /\ profile' = [profile EXCEPT ![e.user] = DeactivatePaid(profile[e.user])]
              /\ \E st : renewal' = [renewal EXCEPT ![e.user] = st]
    BY <1>5, Zenon DEF ExpireSubscription, ReplaceSubscriptionRenewalSchedule
  <2>2. e.user \in Users
    BY DEF Inv, TypeOK, Entry
  <2>3. \A v \in Users : \/ profile'[v] = profile[v] /\ renewal'[v] = renewal[v]
                         \/ ~profile'[v].auto
    BY <2>1, <2>2 DEF DeactivatePaid, Inv, TypeOK
  <2>4. \A v \in Users : RenewalOwed(v)' => RenewalOwed(v) /\ renewal'[v] = renewal[v]
    BY <2>1, <2>3 DEF RenewalOwed, CanPay
  <2>5. \A v \in Users : CrowdedOut(v) /\ renewal'[v] = renewal[v] => CrowdedOut(v)'
    BY <2>1 DEF CrowdedOut
  <2> QED
    BY <2>1, <2>4, <2>5 DEF OwedIsAttempted
<1>6. CASE EndBeginBlock
  BY <1>6 DEF EndBeginBlock, OwedIsAttempted
<1>7. CASE Transaction
  <2>1. phase' = "txs"
    BY <1>7, Zenon DEF Transaction, SetUsername, Subscribe, SetAutoRenewal, SetLevel, GovSubscribe,
       GovUnsubscribe, DeleteUser, SendTokens
  <2> QED
    BY <2>1 DEF OwedIsAttempted
<1> QED
  BY <1>1, <1>2, <1>3, <1>4, <1>5, <1>6, <1>7 DEF Next, BeginBlockStep

\* processSubscriptionExpiries ends a subscription that is to renew and whose
\* account can pay only if the block's renewal attempts all went to others that
\* were due no later, for any number of attempts per block, period, early window,
\* fee and gap between blocks: in every other case processEarlyRenewals has reached
\* the account before, in the same block if in none earlier.
THEOREM FundedAccountsRenew == Spec => FundedRenews
<1>1. Init => ScheduleInTime /\ OwedIsAttempted
  BY DEF Init, ScheduleInTime, OwedIsAttempted, NoRenewal
<1>2. Inv /\ ScheduleInTime /\ OwedIsAttempted /\ [Next]_vars
        => ScheduleInTime' /\ OwedIsAttempted'
  BY ScheduleStaysInTime, OwedStaysAttempted
<1>3. ASSUME Inv, OwedIsAttempted, [Next]_vars, NEW u \in Users \ overridden,
             phase = "expire", profile[u].paid, ~profile'[u].paid,
             profile[u].auto, CanPay(u, PeriodFee)
      PROVE  CrowdedOut(u)
  <2>1. profile' # profile
    BY <1>3
  <2>2. PICK e \in expired : ExpireSubscription(e)
    BY <1>3, <2>1
    DEF Next, vars, BeginBlockStep, Transaction, BeginBlock, AttemptRenewal, StartExpiries,
        EndBeginBlock, SetUsername, Subscribe, SetAutoRenewal, SetLevel, GovSubscribe,
        GovUnsubscribe, DeleteUser, SendTokens
  <2>3. e \in index /\ e.at <= now /\ e \in Entry
    BY <1>3 DEF Inv, TypeOK, CollectedIsCurrent
  <2>4. e.user = u
    <3>1. profile' = [profile EXCEPT ![e.user] = DeactivatePaid(profile[e.user])]
      BY <2>1, <2>2 DEF ExpireSubscription
    <3> QED
      BY <1>3, <3>1 DEF Inv, TypeOK
  <2>5. profile[u].expiry = e.at /\ e.at > 0
    BY <1>3, <2>3, <2>4 DEF Inv, IndexIsCurrent, IndexIsPositive
  <2>6. RenewalOwed(u)
    BY <1>3, <2>3, <2>5 DEF RenewalOwed
  <2> QED
    BY <1>3, <2>6 DEF OwedIsAttempted
<1>4. Inv /\ OwedIsAttempted /\ [Next]_vars =>
        [\A u \in Users \ overridden :
           /\ phase = "expire" /\ profile[u].paid /\ ~profile'[u].paid
           /\ profile[u].auto /\ CanPay(u, PeriodFee)
           => CrowdedOut(u)]_vars
  BY <1>3
<1> QED
  BY <1>1, <1>2, <1>4, Invariance, PTL DEF Spec, FundedRenews
=============================================================================
