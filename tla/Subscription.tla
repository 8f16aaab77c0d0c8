---------------------------- MODULE Subscription ----------------------------
(***************************************************************************)
(* Paid subscriptions of the v1.39 chain: the subscription fields of a     *)
(* profile, the expiry index, the renewal state and its queue, and the     *)
(* spendable balances the fee is taken from.                               *)
(*                                                                         *)
(* A block is BeginBlock followed by its transactions.  BeginBlock is      *)
(* split into one step per loop iteration of processEarlyRenewals and      *)
(* processSubscriptionExpiries; `phase' keeps transactions out of it.  A   *)
(* handler that returns an error is rolled back by the transaction cache,  *)
(* so it is simply a step that is not taken; an error in BeginBlock stops  *)
(* the node, which is phase "halted"; the key or entry it stopped at is    *)
(* then still in `due' or `expired'.                                       *)
(*                                                                         *)
(* A paid-state transition also moves the account's curation records       *)
(* (TransitionCurationEligibility).  They are the state of module Curation,*)
(* which says when that call fails; here it may fail whenever it has       *)
(* something to do.                                                        *)
(*                                                                         *)
(* Abstracted: the order of addresses within one second (any order is      *)
(* allowed), the generation counter of renewal keys, and the daily relay   *)
(* quota, which can only make a transaction fail.                          *)
(***************************************************************************)
EXTENDS Integers, FiniteSets

CONSTANTS
    Users,                \* account addresses
    Period,               \* subscription_period, in time units
    EarlyRenewal,         \* subscription_early_renewal_days, in time units
    PeriodFee,            \* period_fee of the subscriber tier
    CreatorBps,           \* subscription_creator_bps
    MaxPeriods,           \* max_subscription_periods_per_purchase
    AttemptsPerBlock,     \* subscription_renewal_attempts_per_block
    TransitionsPerBlock,  \* subscription_transitions_per_block
    InitialBalance,       \* spendable coins of each account at the start
    Locked,               \* coins of each account that are not spendable
    GovTerms,             \* terms governance may set a subscription to
    Amounts,              \* amounts a transfer may move
    MaxTime,              \* bound on block time
    MaxGap                \* bound on the time between two blocks

ASSUME ParamsAssumption ==
    /\ IsFiniteSet(Users)
    /\ Period \in Nat /\ EarlyRenewal \in Nat /\ EarlyRenewal < Period
    /\ PeriodFee \in Nat
    /\ MaxPeriods \in Nat \ {0}
    /\ AttemptsPerBlock \in Nat \ {0} /\ TransitionsPerBlock \in Nat \ {0}
    /\ InitialBalance \in [Users -> Nat] /\ Locked \in [Users -> Nat]
    /\ GovTerms \subseteq Nat /\ Amounts \subseteq Nat
    /\ MaxTime \in Nat \ {0} /\ MaxGap \in Nat

ASSUME BpsAssumption == CreatorBps \in 0..10000

VARIABLES
    now,          \* block time
    phase,        \* "txs", "renew", "expire" or "halted"
    profile,      \* ProfileCore of each account
    index,        \* expiry index: entries [at, user]
    renewal,      \* SubscriptionRenewalState of each account
    queue,        \* renewal queue: keys [at, user, expiry]
    due,          \* queue keys collected by this block's processEarlyRenewals
    expired,      \* index entries this block's processSubscriptionExpiries handles
    bal,          \* spendable balance of each account
    creatorPool,  \* balance of the creator pool module account
    attempted,    \* history: the keys `due' started with in this BeginBlock
    overridden    \* history: accounts whose subscription governance took away

vars == <<now, phase, profile, index, renewal, queue, due, expired, bal,
          creatorPool, attempted, overridden>>

LevelFree == 0
LevelSubscriber == 1
LevelAdminMin == 100

Profile == [exists: BOOLEAN, level: {LevelFree, LevelSubscriber, LevelAdminMin},
            paid: BOOLEAN, expiry: Nat, auto: BOOLEAN]
NoProfile == [exists |-> FALSE, level |-> LevelFree, paid |-> FALSE,
              expiry |-> 0, auto |-> FALSE]

RenewalState == [at: Nat, expiry: Nat]
NoRenewal == [at |-> 0, expiry |-> 0]

Entry == [at: Nat, user: Users]
Key == [at: Nat, user: Users, expiry: Nat]

TypeOK ==
    /\ now \in Nat \ {0}
    /\ phase \in {"txs", "renew", "expire", "halted"}
    /\ profile \in [Users -> Profile]
    /\ index \subseteq Entry
    /\ renewal \in [Users -> RenewalState]
    /\ queue \subseteq Key
    /\ due \subseteq Key
    /\ expired \subseteq Entry
    /\ bal \in [Users -> Nat]
    /\ creatorPool \in Nat
    /\ attempted \subseteq Key
    /\ overridden \subseteq Users

Init ==
    /\ now = 1
    /\ phase = "txs"
    /\ profile = [u \in Users |-> NoProfile]
    /\ index = {}
    /\ renewal = [u \in Users |-> NoRenewal]
    /\ queue = {}
    /\ due = {}
    /\ expired = {}
    /\ bal = InitialBalance
    /\ creatorPool = 0
    /\ attempted = {}
    /\ overridden = {}
-----------------------------------------------------------------------------
(***************************************************************************)
(* Keeper helpers.                                                         *)
(***************************************************************************)
Later(a, b) == IF a > b THEN a ELSE b

\* The first n members of S in key order, that is by time.
FirstByTime(S, n) ==
    {D \in SUBSET S :
        /\ Cardinality(D) = IF Cardinality(S) < n THEN Cardinality(S) ELSE n
        /\ \A d \in D, e \in S \ D : d.at <= e.at}

SplitCreatorFee(fee) ==
    LET creator == (fee * CreatorBps) \div 10000
    IN  [burn |-> fee - creator, creator |-> creator]

\* The index entry of a subscription; none for an account without an expiry.
IndexEntries(u, expiry) == IF expiry > 0 THEN {[at |-> expiry, user |-> u]} ELSE {}

CanCurate(p) == p.paid \/ p.level >= LevelAdminMin

\* TransitionCurationEligibility returns at once if nothing changes, and may
\* return an error otherwise.
MayBeRefused(p, new) == CanCurate(p) # CanCurate(new)

\* p is saved with its new expiry and auto_renew, then activated.
ActivatePaid(p, expiry, auto) ==
    [exists |-> p.exists,
     level |-> IF ~p.paid /\ p.level = LevelFree THEN LevelSubscriber ELSE p.level,
     paid |-> TRUE, expiry |-> expiry, auto |-> auto]

DeactivatePaid(p) ==
    [exists |-> p.exists,
     level |-> IF p.level = LevelSubscriber THEN LevelFree ELSE p.level,
     paid |-> FALSE, expiry |-> 0, auto |-> FALSE]

RenewalKeys(u, st) ==
    IF st.expiry > 0 THEN {[at |-> st.at, user |-> u, expiry |-> st.expiry]} ELSE {}

\* Mutation of NextRenewal: the attempt is scheduled for the expiry plus one.
NextRenewalTooLate(p) ==
    IF p.exists /\ p.expiry > 0
    THEN [at |-> p.expiry + 1, expiry |-> p.expiry]
    ELSE NoRenewal

NextRenewal(p) ==
    IF p.exists /\ p.expiry > 0
    THEN [at |-> Later(now, p.expiry - EarlyRenewal), expiry |-> p.expiry]
    ELSE NoRenewal

\* Mutation of ReplaceSubscriptionRenewalSchedule: the old key is not deleted.
ReplaceScheduleKeepsOldKey(u, p, q) ==
    /\ renewal' = [renewal EXCEPT ![u] = NextRenewal(p)]
    /\ queue' = q \cup RenewalKeys(u, NextRenewal(p))

\* u's schedule is recomputed from p, its profile after this handler; q is the
\* queue as the handler has left it so far.
ReplaceSubscriptionRenewalSchedule(u, p, q) ==
    /\ renewal' = [renewal EXCEPT ![u] = NextRenewal(p)]
    /\ queue' = (q \ RenewalKeys(u, renewal[u])) \cup RenewalKeys(u, NextRenewal(p))

\* Coins leave the payer; the burned share is destroyed.
ChargeFee(payer, fee) ==
    LET split == SplitCreatorFee(fee)
    IN  /\ bal' = [bal EXCEPT ![payer] = (@ - split.burn) - split.creator]
        /\ creatorPool' = creatorPool + split.creator

CanPay(payer, fee) == bal[payer] >= fee

TrancheEnd(p, n) == Later(now, p.expiry) + Period * n

\* Mutation of CreateTranche: the index entry of the old expiry is not removed.
CreateTrancheKeepsOldEntry(payer, u, self, n, q) ==
    LET old == profile[u]
        new == ActivatePaid(old, TrancheEnd(old, n), self \/ old.auto)
    IN  /\ n \in 1..MaxPeriods
        /\ old.exists
        /\ CanPay(payer, PeriodFee * n)
        /\ ChargeFee(payer, PeriodFee * n)
        /\ profile' = [profile EXCEPT ![u] = new]
        /\ index' = index \cup IndexEntries(u, new.expiry)
        /\ ReplaceSubscriptionRenewalSchedule(u, new, q)

\* The tranche record itself is not kept: its creator share and its interval
\* are the inputs of the creator stream.
CreateTranche(payer, u, self, n, q) ==
    LET old == profile[u]
        new == ActivatePaid(old, TrancheEnd(old, n), self \/ old.auto)
    IN  /\ n \in 1..MaxPeriods
        /\ old.exists
        /\ CanPay(payer, PeriodFee * n)
        /\ ChargeFee(payer, PeriodFee * n)
        /\ profile' = [profile EXCEPT ![u] = new]
        /\ index' = (index \ IndexEntries(u, old.expiry)) \cup IndexEntries(u, new.expiry)
        /\ ReplaceSubscriptionRenewalSchedule(u, new, q)
-----------------------------------------------------------------------------
(***************************************************************************)
(* BeginBlock.                                                             *)
(***************************************************************************)
DueKeys(t) == {k \in queue : k.at <= t}

\* A block starts: its time, and the renewal keys it will attempt.
BeginBlock ==
    /\ phase = "txs"
    /\ \E t \in now..Later(now, MaxTime) :
          /\ t - now <= MaxGap
          /\ now' = t
          /\ due' \in FirstByTime(DueKeys(t), AttemptsPerBlock)
    /\ attempted' = due'
    /\ phase' = "renew"
    /\ UNCHANGED <<profile, index, renewal, queue, expired, bal, creatorPool,
                   overridden>>

\* The balance test of a renewal reads the whole balance, locked coins included.
RenewalBalance(u) == bal[u] + Locked[u]

\* The renewal is charged and extends the subscription by one period.
Renewed(p) == ActivatePaid(p, TrancheEnd(p, 1), p.auto)

\* One iteration of processEarlyRenewals.
AttemptRenewal(k) ==
    LET u == k.user
        rest == queue \ {k}
    IN  /\ phase = "renew"
        /\ k \in due
        /\ \A d \in due : k.at <= d.at
        /\ \/ /\ ~profile[u].exists
              /\ due' = due \ {k}
              /\ queue' = rest
              /\ UNCHANGED <<phase, profile, index, renewal, bal, creatorPool>>
           \/ /\ profile[u].exists
              /\ \/ ~profile[u].auto
                 \/ profile[u].expiry = 0
                 \/ RenewalBalance(u) < PeriodFee
              /\ due' = due \ {k}
              /\ ReplaceSubscriptionRenewalSchedule(u, profile[u], rest)
              /\ UNCHANGED <<phase, profile, index, bal, creatorPool>>
           \/ /\ profile[u].auto /\ profile[u].expiry > 0
              /\ RenewalBalance(u) >= PeriodFee
              /\ due' = due \ {k}
              /\ CreateTranche(u, u, FALSE, 1, rest)
              /\ UNCHANGED phase
           \/ /\ profile[u].exists /\ profile[u].auto /\ profile[u].expiry > 0
              /\ RenewalBalance(u) >= PeriodFee
              /\ ~CanPay(u, PeriodFee) \/ MayBeRefused(profile[u], Renewed(profile[u]))
              /\ phase' = "halted"
              /\ UNCHANGED <<due, profile, index, renewal, queue, bal, creatorPool>>
        /\ UNCHANGED <<now, expired, attempted, overridden>>

\* Mutation of ExpiredSubscriptions: a subscription expiring now is left out.
ExpiredSubscriptionsStrict == {e \in index : e.at < now}

ExpiredSubscriptions == {e \in index : e.at <= now}

\* processEarlyRenewals is over; processSubscriptionExpiries reads the index.
StartExpiries ==
    /\ phase = "renew"
    /\ due = {}
    /\ phase' = "expire"
    /\ expired' \in FirstByTime(ExpiredSubscriptions, TransitionsPerBlock)
    /\ UNCHANGED <<now, profile, index, renewal, queue, due, bal, creatorPool,
                   attempted, overridden>>

\* One iteration of processSubscriptionExpiries.
ExpireSubscription(e) ==
    LET u == e.user
        p == DeactivatePaid(profile[u])
    IN  /\ phase = "expire"
        /\ e \in expired
        /\ \A d \in expired : e.at <= d.at
        /\ \/ /\ profile[u].exists
              /\ expired' = expired \ {e}
              /\ index' = index \ {e}
              /\ profile' = [profile EXCEPT ![u] = p]
              /\ ReplaceSubscriptionRenewalSchedule(u, p, queue)
              /\ UNCHANGED phase
           \/ /\ ~profile[u].exists \/ MayBeRefused(profile[u], p)
              /\ phase' = "halted"
              /\ UNCHANGED <<expired, profile, index, renewal, queue>>
        /\ UNCHANGED <<now, due, bal, creatorPool, attempted, overridden>>

EndBeginBlock ==
    /\ phase = "expire"
    /\ expired = {}
    /\ phase' = "txs"
    /\ attempted' = {}
    /\ UNCHANGED <<now, profile, index, renewal, queue, due, expired, bal,
                   creatorPool, overridden>>
-----------------------------------------------------------------------------
(***************************************************************************)
(* Transactions.                                                           *)
(***************************************************************************)
\* A new account sets its username, which creates its profile.
SetUsername(u) ==
    /\ phase = "txs"
    /\ ~profile[u].exists
    /\ profile' = [profile EXCEPT ![u].exists = TRUE]
    /\ UNCHANGED <<now, phase, index, renewal, queue, due, expired, bal,
                   creatorPool, attempted, overridden>>

\* A purchase for oneself, a gift, or a governance purchase paid by the target.
Subscribe(payer, u, gov, n) ==
    /\ phase = "txs"
    /\ gov => payer = u
    /\ CreateTranche(payer, u, payer = u /\ ~gov, n, queue)
    /\ UNCHANGED <<now, phase, due, expired, attempted, overridden>>

SetAutoRenewal(u, auto) ==
    LET p == [profile[u] EXCEPT !.auto = auto]
    IN  /\ phase = "txs"
        /\ profile[u].exists
        /\ profile[u].paid
        /\ auto => profile[u].level > LevelFree /\ profile[u].expiry > 0
        /\ profile[u].auto # auto
        /\ profile' = [profile EXCEPT ![u] = p]
        /\ ReplaceSubscriptionRenewalSchedule(u, p, queue)
        /\ UNCHANGED <<now, phase, index, due, expired, bal, creatorPool,
                       attempted, overridden>>

\* Governance only; taking admin rights from a paying user leaves a subscriber.
SetLevel(u, level) ==
    /\ phase = "txs"
    /\ profile[u].exists
    /\ level \in {LevelFree, LevelAdminMin}
    /\ profile' = [profile EXCEPT ![u].level =
                     IF level = LevelFree /\ profile[u].paid
                     THEN LevelSubscriber ELSE level]
    /\ UNCHANGED <<now, phase, index, renewal, queue, due, expired, bal,
                   creatorPool, attempted, overridden>>

\* GovSetSubscriptionState with subscribed = true.
GovSubscribe(u, expiry, auto) ==
    LET old == profile[u]
        new == ActivatePaid(old, expiry, auto)
    IN  /\ phase = "txs"
        /\ old.exists
        /\ expiry > now
        /\ profile' = [profile EXCEPT ![u] = new]
        /\ index' = (index \ IndexEntries(u, old.expiry)) \cup IndexEntries(u, expiry)
        /\ ReplaceSubscriptionRenewalSchedule(u, new, queue)
        /\ UNCHANGED <<now, phase, due, expired, bal, creatorPool, attempted, overridden>>

\* GovSetSubscriptionState with subscribed = false.  The expiry index is left
\* as it is.
GovUnsubscribe(u) ==
    LET p == DeactivatePaid(profile[u])
    IN  /\ phase = "txs"
        /\ profile[u].exists
        /\ profile' = [profile EXCEPT ![u] = p]
        /\ ReplaceSubscriptionRenewalSchedule(u, p, queue)
        /\ overridden' = overridden \cup {u}
        /\ UNCHANGED <<now, phase, index, due, expired, bal, creatorPool, attempted>>

\* Mutation of DeleteUser: the index entry survives its profile.
DeleteUserKeepsEntry(u) ==
    /\ phase = "txs"
    /\ profile[u].exists
    /\ profile' = [profile EXCEPT ![u] = NoProfile]
    /\ bal' = [bal EXCEPT ![u] = 0]
    /\ UNCHANGED <<now, phase, index, renewal, queue, due, expired, creatorPool,
                   attempted, overridden>>

\* The profile and its index entry go, spendable coins go to the community
\* pool; renewal state and queue stay.
DeleteUser(u) ==
    /\ phase = "txs"
    /\ profile[u].exists
    /\ profile' = [profile EXCEPT ![u] = NoProfile]
    /\ index' = index \ IndexEntries(u, profile[u].expiry)
    /\ bal' = [bal EXCEPT ![u] = 0]
    /\ UNCHANGED <<now, phase, renewal, queue, due, expired, creatorPool,
                   attempted, overridden>>

SendTokens(u, v, amount) ==
    /\ phase = "txs"
    /\ u # v
    /\ amount > 0 /\ amount <= bal[u]
    /\ bal' = [bal EXCEPT ![u] = @ - amount, ![v] = @ + amount]
    /\ UNCHANGED <<now, phase, profile, index, renewal, queue, due, expired,
                   creatorPool, attempted, overridden>>
-----------------------------------------------------------------------------
Transaction ==
    \E u \in Users :
        \/ SetUsername(u)
        \/ \E payer \in Users, gov \in BOOLEAN, n \in 1..MaxPeriods :
              Subscribe(payer, u, gov, n)
        \/ \E auto \in BOOLEAN : SetAutoRenewal(u, auto)
        \/ \E level \in {LevelFree, LevelAdminMin} : SetLevel(u, level)
        \/ \E term \in GovTerms, auto \in BOOLEAN : GovSubscribe(u, now + term, auto)
        \/ GovUnsubscribe(u)
        \/ DeleteUser(u)
        \/ \E v \in Users, amount \in Amounts : SendTokens(u, v, amount)

BeginBlockStep ==
    \/ BeginBlock
    \/ \E k \in due : AttemptRenewal(k)
    \/ StartExpiries
    \/ \E e \in expired : ExpireSubscription(e)
    \/ EndBeginBlock

Next == BeginBlockStep \/ Transaction

Spec == Init /\ [][Next]_vars

\* Consensus keeps producing blocks, and BeginBlock runs to its end.
FairSpec == Spec /\ WF_vars(BeginBlockStep)
-----------------------------------------------------------------------------
(***************************************************************************)
(* Properties.                                                             *)
(***************************************************************************)
\* The subscription fields of a profile agree: effective_paid exactly while an
\* expiry is set, auto_renew and the subscriber level only while paid.  Every
\* writer of ProfileCore (tranches, transitions, governance) must keep this.
PaidFieldsAgree ==
    \A u \in Users :
        LET p == profile[u]
        IN  /\ p.paid <=> p.expiry > 0
            /\ p.auto => p.paid
            /\ p.level = LevelSubscriber => p.paid
            /\ p.paid => p.exists /\ p.level # LevelFree

\* A paying profile is in the expiry index under its own expiry, or
\* processSubscriptionExpiries would never find it and it would stay paid for
\* ever.
PaidIsIndexed ==
    \A u \in Users : IndexEntries(u, profile[u].expiry) \subseteq index

\* Every index entry is the current expiry of an existing profile, unless
\* governance took that account's subscription away: purchases, renewals,
\* expiries and DeleteUserState leave no stale entry behind.
IndexIsCurrent ==
    \A e \in index : e.user \in overridden \/ profile[e.user].expiry = e.at

\* The renewal queue holds at most one key for an account, the one its renewal
\* state names, and a paying account has one for its current expiry.  A key
\* whose state was replaced would charge a second time.
QueueMatchesState ==
    /\ \A k \in queue : k \in RenewalKeys(k.user, renewal[k.user])
    /\ \A u \in Users : profile[u].expiry > 0 =>
          /\ renewal[u].expiry = profile[u].expiry
          /\ RenewalKeys(u, renewal[u]) \subseteq queue

\* The node stops in BeginBlock over one account, for one of three reasons.
\* The renewal loop stops only at an account that is to renew and covers the fee
\* with locked coins alone.  The expiry loop stops only at an entry that
\* governance left behind when it took that account's subscription away and whose
\* profile was deleted since, or at a paying account that is no admin, whose
\* curation records may refuse the loss of eligibility (module Curation says
\* when).  In particular no renewal moves curation records, and neither a gift, a
\* deletion nor a second life of an account leaves anything BeginBlock stops at.
FeeIsLocked(u) ==
    profile[u].auto /\ bal[u] < PeriodFee /\ bal[u] + Locked[u] >= PeriodFee
IsOrphan(e) == e.user \in overridden /\ ~profile[e.user].exists
LosesEligibility(u) == profile[u].paid /\ profile[u].level < LevelAdminMin
HaltHasKnownCause ==
    phase = "halted" =>
        \/ \E k \in due : FeeIsLocked(k.user) /\ \A d \in due : k.at <= d.at
        \/ \E e \in expired : /\ IsOrphan(e) \/ LosesEligibility(e.user)
                             /\ \A d \in expired : e.at <= d.at

\* An automatic renewal is charged only when no more than the early renewal
\* window is left: a purchase or a gift that extends a subscription takes the
\* old attempt off the queue.
NoEarlyCharge ==
    [][\A u \in Users :
          phase = "renew" /\ profile'[u].expiry # profile[u].expiry
          => profile[u].expiry <= now + EarlyRenewal]_vars

\* processSubscriptionExpiries ends a subscription only once its expiry has
\* passed, for every account governance has not overridden.
KeepsPaidTime ==
    [][\A u \in Users \ overridden :
          phase = "expire" /\ profile[u].paid /\ ~profile'[u].paid
          => profile[u].expiry <= now]_vars

\* An auto-renewing account that can pay lapses only if it was crowded out:
\* the block that ends its subscription has made all the renewal attempts a block
\* makes, none of them for this account and each scheduled no later than its own.
\* However late the block is and however often the schedule was replaced, there is
\* no other way (processEarlyRenewals before processSubscriptionExpiries).
CrowdedOut(u) ==
    /\ Cardinality(attempted) = AttemptsPerBlock
    /\ \A k \in attempted : k.user # u /\ k.at <= renewal[u].at
FundedRenews ==
    [][\A u \in Users \ overridden :
          /\ phase = "expire" /\ profile[u].paid /\ ~profile'[u].paid
          /\ profile[u].auto /\ CanPay(u, PeriodFee)
          => CrowdedOut(u)]_vars

\* A subscription past its expiry is eventually renewed or ended, whatever the
\* number of subscriptions that expire at once: the per-block limit delays
\* transitions and loses none.  (A halted node makes no promise.)
ExpiryIsResolved ==
    \A u \in Users :
        (profile[u].paid /\ profile[u].expiry <= now)
        ~> (phase = "halted" \/ ~profile[u].paid \/ profile[u].expiry > now)
-----------------------------------------------------------------------------
(***************************************************************************)
(* What comments and documentation say of the program, checked by the runs *)
(* that expect a violation.                                                *)
(***************************************************************************)
\* DeleteUserState: no index entry survives the profile it points to.
IndexHasProfile == \A e \in index : profile[e.user].exists

\* If renewal fails the account falls back to Free: BeginBlock does not stop at
\* the renewal it was attempting.
FailedRenewalFallsBack == phase = "halted" => due = {}
=============================================================================
