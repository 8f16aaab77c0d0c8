# A verification project for the Mirage node

TLA+ models of the Mirage chain's state machine and of the web client that
signs for it, model-checked with TLC on small instances and, but for liveness
and the encodings, proved with TLAPS for every instance.

## The system

| Part | Where | In this project |
| --- | --- | --- |
| Chain logic (`x/core`): subscriptions, curation teams, creator rewards, minting, proof of work, posts and profiles | `blockchain/x/core` | `Subscription`, `Curation`, `CreatorStream`; see the plan for the rest |
| Application wiring, ante handlers, upgrades | `blockchain/app` | the bytes the ante handler verifies: `TxEnvelope` |
| Vendored IAVL and store patches | `blockchain/patches` | not modelled (third-party storage) |
| Indexer: chain to Postgres | `indexer` | planned |
| Web backend | `web/backend` | the relay routes: `TxEnvelope` |
| Web client: transaction queue and what it signs | `web/frontend/src/utils/TransactionHandler.js` | `TxQueue`, `TxPromise`, `TxEnvelope` |
| Web client: API client, session, sign-in | `web/frontend/src/utils`, `App.js` | `ApiSession` |
| Web client: views | `web/frontend/src` | not modelled |
| Deployment, update and recovery scripts | `deploy`, `scripts` | not modelled |

A block is `BeginBlock`, the transactions, `EndBlock`.  A message handler that
returns an error is rolled back by its transaction cache, so in a model it is a
step that is not taken.  An error returned from `BeginBlock` or `EndBlock` is
different: the node stops (`module.go:616`).  Several hazards of this code are
of that second kind.  `Subscription` and `Curation` keep it as a state, a halted
node; in `CreatorStream` no such error is reachable, which is the invariant
`AdvanceSucceeds`.

## Subscription

`Subscription.tla` models the paid state of accounts.

| Variable | Code |
| --- | --- |
| `profile` | `ProfileCore`: level, effective_paid, subscription_expiry, auto_renew |
| `index` | the expiry index `subs/{expiry}:{address}` |
| `renewal`, `queue` | `SubscriptionRenewalState` and the renewal queue |
| `due`, `expired` | local slices of `processEarlyRenewals` and `processSubscriptionExpiries` |
| `bal`, `creatorPool` | spendable balances; the creator pool module account |
| `phase`, `now` | where the block is; block time |
| `attempted` | history: the keys this block started its renewals with |
| `overridden` | history: accounts whose subscription governance ended |

One action per handler: `SetUsername`, `Subscribe` (own purchase, gift,
governance purchase), `SetAutoRenewal`, `SetLevel`, `GovSubscribe` and
`GovUnsubscribe` (the two branches of `GovSetSubscriptionState`), `DeleteUser`,
`SendTokens`.  `BeginBlock` is one step per loop iteration: `BeginBlock`
collects the due renewal keys, `AttemptRenewal` handles one of them,
`StartExpiries` reads the index, `ExpireSubscription` handles one entry,
`EndBeginBlock` lets transactions in.

Abstracted: time is counted in units, addresses within one second come in any
order, the generation number of a renewal key is dropped (it only makes keys
unique), the tranche record is the input of the creator stream and not kept,
and the daily quota is dropped (it can only refuse a transaction).

A paid-state transition that changes whether the account can curate also moves its
curation records (`TransitionCurationEligibility`), and returns that call's error.
The records are the state of `Curation`, which says when the call fails; here it
may fail whenever it has something to do (`MayBeRefused`).  In a handler that
refuses the transaction, in BeginBlock it stops the node.

### Runs

| Run | Shows |
| --- | --- |
| `sub_lifecycle` | renewal state and queue agree; paid time is kept; at whom BeginBlock can stop; how a funded account can lapse; every expiry is resolved |
| `sub_stale_index` | violated: an index entry survives the deletion of its profile |
| `sub_locked` | violated: locked coins pass the balance test and the charge stops BeginBlock |

Bounds.  Two accounts are enough for payer and recipient to differ and for two
accounts to compete for the one renewal a block attempts and the one expiry it
handles.  A period of 2 with an
early window of 1 separates "due", "expired" and "extended"; block time runs to
4, two periods, so a subscription can be bought, extended, renewed and ended.
A block may skip up to 2 units, so an expiry can be passed over.  One account
has money and can send it on, the other starts with none; governance grants a
term of one period, so that grants do expire within the bound.  The account
without money has locked coins, so that a renewal can pass its balance test and
fail to be charged.

`FundedRenews`: with more accounts due than a block attempts, one that is left
over is ended by the expiry scan of the same block although it could pay.  The
property says that this is the only way: the block has made all its attempts,
for other accounts, none of them scheduled later (`CrowdedOut`).
`HaltHasKnownCause`: the key or entry the loop stopped at is still in its slice, so
the property names the account and what is wrong with it: a fee that only locked
coins cover, the entry governance left behind of a profile deleted since, or a
paying account that is no admin, whose curation records may refuse.

Fairness.  `FairSpec` adds weak fairness of the BeginBlock steps: consensus
keeps producing blocks and BeginBlock is a terminating loop.  Transactions are
never assumed to happen.  Deadlock checking is off because a halted node stops
and block time is bounded.

### Proofs

`SubscriptionProofs.tla` proves, for any set of accounts and any parameters
that satisfy `ParamsAssumption` and `BpsAssumption`: `TypeCorrect`, `StoresAgree`,
`PaidTimeIsKept`, `RenewalIsNotEarly` and `HaltsAreExplained`.  That the other
three pairs of stores agree (`PaidFieldsAgree`, `PaidIsIndexed`,
`IndexIsCurrent`) and that no renewal is early is proved and not checked by a
run.  `Invariance`
proves the inductive invariant `Inv`: the type invariant, the four agreement
properties, and three facts they need.  `ScheduleInWindow` says that a queued
attempt is not before the early window of its expiry (without it a charge could
be early).  `IndexIsPositive` says that every index entry has a time.
`CollectedIsCurrent` says that the slices collected at the start of a loop are
still in the store when the loop reaches them (without it a loop iteration
could act on an entry an earlier iteration removed).

`FundedAccountsRenew` proves `FundedRenews`.  Three facts carry it.
`ScheduleInTime` says that no attempt is scheduled past both the block time and
the expiry, so a block that finds a subscription expired finds its attempt due as
well.  `OwedIsAttempted` says that until its turn comes, whoever is owed a renewal
is in the slice the block attempts, or was crowded out of it.
`LeftOutIsCrowdedOut` is the count: a due key that is not in the slice was left out
because the slice is full of earlier ones, none of the same account because the
queue has one key for an account.  It is why `ParamsAssumption` asks for finitely
many accounts.

`HaltsAreExplained` proves `HaltHasKnownCause`.  `RenewalIsNotRefused` is its first
half: who is to renew is paid before the renewal and after it, so no renewal
changes who can curate, and what is left to stop the renewal loop is the charge.

Only model-checked: the liveness property `ExpiryIsResolved`; TLAPS does not
prove liveness.

## Curation

`Curation.tla` models communities, curation teams and the lens through which
each user reads a community.

| Variable | Code |
| --- | --- |
| `profiles`, `paid`, `admins` | what `CanCurate` reads of a profile |
| `teamState`, `owner`, `name`, `subs`, `nextOrder` | `CurationTeam` records |
| `order` | the roster key of a team and member, with its accepted order |
| `memberOf`, `memberCount` | the reverse membership key and the counter of an account |
| `nameKeys` | the keys that make team names unique in a community |
| `invites`, `inviteCount` | pending invitations and the counter of an account |
| `pref`, `joinCount` | `CommunityPreference` and the counter of joins |
| `banned` | users hidden by a team |
| `maxCurators` | the parameter max_curators_per_team |
| `halted` | BeginBlock returned an error |
| `miscounted`, `forgotten`, `ousted` | history, to name the exceptions of properties |

Actions are the handlers of `module/community.go` and `module/gov_community.go`
with the keeper functions they call: joining, leaving and choosing a lens;
creating, renaming, transferring and deleting a team; inviting, revoking,
accepting, leaving and removing; bans.  `Activate`, `Deactivate`, `MakeAdmin`,
`DismissAdmin` are `TransitionCurationEligibility` as its callers reach it: a
lapse removes every membership, hands teams to the oldest eligible curator or
deletes them, clears invitations, and takes the pins off the counts, in one
step.  `Deactivate` inside BeginBlock stops the node where the code returns an
error; in a transaction the error is a step not taken.

| Run | Shows |
| --- | --- |
| `cur_rosters` | three accounts, one team, a cap that governance moves between 1 and 3: both membership keys and all counters agree, invitations reserve places, succession goes to the oldest eligible curator |
| `cur_lenses` | two teams, bans, an admin, a deleted account: bans and subscriber counts are right; BeginBlock stops for known causes only |
| `cur_admin_count` | violated: the pin of an unpaid admin leaves a team without leaving its count |
| `cur_lowered_cap` | violated: a lowered cap makes the next expiry of a large roster an error of BeginBlock |

Bounds.  Three accounts are the least for an owner with two possible heirs.
With a cap of 2 the parameters allow two pending invitations, the least for
which the test of the sum (curators and invitations together) matters; a roster
of 3 under a cap of 1 is the least that a removal refuses to recount.  Four
accepted orders let a curator leave and come back.  Two teams are the least for
a pin to move and for ranking.  `MaxSubs` stands in for the largest uint64.
`AdminCandidates`, `BanCandidates` and `DeleteCandidates` limit to whom rare
events happen (bans only in `cur_lenses`); accounts, and names, are symmetric
otherwise.

`CountExact` and `HaltHasKnownCause` exclude, by the history variables, the
cases the two violation runs exhibit and accounts that governance deleted:
`DeleteUserState` leaves the joins, memberships and invitations of an account.

### Proofs

`CurationProofs.tla` proves, for any finite sets of users and communities, any
number of teams and any caps that satisfy `CurationAssumption`, every property
of the two passing runs: the invariants in `RostersAgree`, `CountersAreExact`,
`OwnersCurate`, `InvitationsStand`, `PinsRespectBans`, `SubscribersAreCounted` and
`HaltsAreExplained`, the action properties in `PlacesAreReserved`, `OldestSucceeds` and
`TeamsOutliveOwners`.  `CurationTypeCorrect` and `RostersAreSound` (only eligible
accounts curate, accepted orders are distinct, name keys are the names of live
teams) are proved and no run checks them.

`CurInv`, in `CurationInv.tla`, is the inductive invariant: what is said of
rosters, counters, owners, invitations, bans and names, with the three counters
of `CountsAgree` taken apart because different handlers move them, and with
`BansExist`, that only a team which was created has banned anybody.
Without it, creating a team could make a pin and a ban meet.  The argument goes
by what a handler does to the keys: `DropEffect`, `ClearEffect`, `JoinEffect`,
`LeaveEffect` and `EnlistEffect` show once that each keeper helper moves a
counter by as many as the keys it writes or deletes; the steps then cite them.
Each handler then has one lemma: those that change profiles, rosters, lenses and
bans are in `CurationInv` with the invariant, those that change teams in
`CurationProofs` with the theorems.  The heir of a team exists because accepted
orders are natural numbers (`LeastNatural`).

The subscriber counts have an invariant of their own, `SubsInv`, on top of
`CurInv`.  The code keeps a count by differences, so `SubsExact` covers teams
that do not exist yet, whose count must be zero when they are created, and
`PinsExist` says that a pin never names one of those.  The set of a team's
subscribers changes by at most the one user a handler is about, and by as much
as the handler adds to the count or takes off it (`CountFollows`); a lapse that
takes a user off several teams, and deletes some, is shown for all of them at
once (`DepartCounts`).  `HaltHasKnownCause` goes by the same invariant: with exact
counts a decrement never meets zero, which leaves the roster that does not fit
(`DepartFails`).  The
action properties go by what one step does to a roster and to its invitations
(`RosterSteps`), and by the heir being the least of the eligible orders
(`HeirExists`).

## CreatorStream

`CreatorStream.tla` models how the creators' share of fees becomes the pools of
creator epochs.

| Variable | Code |
| --- | --- |
| `cursor`, `rate`, `acc`, `paid`, `points` | the accumulator and its breakpoints (`creator_stream.go`) |
| `clock`, `sched` | creator clock and `CreatorSchedule` |
| `epochs`, `open`, `settle` | `CreatorEpoch` records and the two indexes of their state |
| `phase`, `advanced` | the loop of `advanceCreatorClock` |
| `tranches`, `starved`, `cut` | history |

`ScheduleCreatorStreamTranche`, `Engage` and `ApplyCreatorEpochSeconds` happen
in transactions.  `BeginBlock` starts the loop; each iteration is
`SkipIdleEpochs`, `VisitBoundary` or `ResumeNextBlock`.  The inner loop of
`SettleCreatorStream` over due breakpoints is written in closed form: each
breakpoint adds its rate for the rest of the interval and its remainder.
`Breakpoints.tla` holds the order of breakpoints and these sums.

| Run | Shows |
| --- | --- |
| `stream` | the accumulator equals a reference definition over the tranches; each epoch gets the whole tokens of its window; windows do not overlap; nothing is stranded; the clock never runs backwards and catches up |
| `stream_budget` | violated: a budget that ends exactly on the last breakpoint makes the stream look idle, and the clock skips a boundary with money |

Bounds.  Two tranches of length 2 with starts up to 2 ahead on a grid of 3
overlap, coincide, follow each other and fall inside one epoch; with a budget of
2 breakpoints a window can hold more than a block applies.  A scale of 5 makes
the floored rate of one token over two seconds leave a remainder.  One change of
the grid, between lengths 3 and 2, at any moment.  Blocks pass up to 3 seconds,
or none: consecutive blocks can fall in the same second.

`EpochGetsItsShare` and `ElapsedIsDistributed` are promises while no draw has
used up its budget (`starved`); the first also leaves out an epoch that a change
of length closes while the clock is behind block time (`cut`), because it
receives the money of every boundary not yet visited.

Fairness is that of `Subscription`.  Block time is bounded, so `ClockCatchesUp`
says that blocks which come while time stays within an epoch bring the clock up
to it.  Deadlock is checked: there is always a next block.

### Proofs

`CreatorStreamProofs.tla` proves every property of run `stream` but its liveness,
for any epoch lengths, budgets, shares, durations, leads and bounds that satisfy
`StreamAssumption`: `StreamTypes`, `AccumulatorIsExact`, `ClockAdvances`,
`EpochsGetTheirShare`, `WindowsAreDisjoint` and `ElapsedSharesAreDistributed`.
The assumption has one clause that is more than a type: a tranche lasts at most
`Scale` seconds.  `Scale` is 10^18 and a subscription lasts months.  Without it
a share could have a floored rate of zero, its second breakpoint would change
the accumulator and not the rate, and a jump over idle epochs could pass it.

`Inv` is the inductive invariant.

- `StreamInv` is about the accumulator alone.  `Exact` says that from the cursor
  on it will be, at every instant, what the reference definition `Streamed` says;
  a settlement moves breakpoints from the pending side to the settled side and
  leaves that total as it is.  `Flows` is what makes a draw safe: whichever
  pending breakpoints are applied, as long as none stops a tranche that has not
  started, what is streamed between two later instants is not negative.  A rate
  that is never negative does not suffice, because a settlement that its
  budget cuts short applies some breakpoints of an instant and not the others;
  the order of their keys puts the start of a tranche before its end
  (`DueFirst`, `DueClosed`), and the closed sets of `Flows` are these.
- `ClockInv` and `WindowInv` tie the clock, the grid and the windows of records.
- `PaidInv` says that what was drawn is in the pools and was in the accumulator.
- `FedInv` says that, while no budget was used up, the accumulator stands at what
  was streamed by the start of the clock's epoch.  `EpochGetsItsShare` follows:
  a pool is the difference of two draws.  It holds across a jump over idle
  epochs because a remainder comes only with a breakpoint that lowers the rate,
  and with the rate at zero none can be next (`IdleStreamsNothing`).

`BookKeeps`, `SettleKeeps`, `DrawKeeps` and `CloseKeeps` show this for the operations,
one lemma per step (`BookStep` to `RestStep`) for the whole invariant.

Sums over breakpoints, tranches and epochs are the community modules'
`SumFunction`.  `SumProofs.tla` proves what is needed of them: a sum does
not depend on the order in which its fold takes elements, and is additive, linear
and monotone; and what the sums of `Breakpoints` gain when a breakpoint is added
or applied.  Induction on a finite set is done by taking a least
counterexample (`LeastNumber`), which the provers can follow.

Only model-checked: the liveness property `ClockCatchesUp`.

## The web client

JavaScript runs to completion between two awaits.  An action of `TxQueue` and
`ApiSession` is therefore the code from one await to the next, of one of
several activities in progress; which activity goes on next is any.

### TxQueue and TxPromise

`TxQueue.tla` models the `TransactionHandler` singleton with the session it
signs for.

| Variable | Code |
| --- | --- |
| `tx.transactions`, `tx.isProcessing`, `tx.activePowWorker`, `tx.reserved` | the fields of that name (`_activePowWorker`, `reservedUmirage`) |
| `tx.pending` | the keys in the seven pending maps |
| `tx.entry` | the queue entries with the owner and generation stamped on them |
| `tx.loop` | the activations of `processTransactions`, each with the await it is at, the key it has derived and its attempt |
| `session` | generation, whose seed the vault and the handoff hold, cached user level, stage of a reset |
| `accepted` | how often the node accepted each transaction |
| `tx.loose`, `tx.slack` | history, to name the exceptions of properties |

An *intent* is what the queue tells apart of an action: its pending mark, what
it reserves, whether it pays a fee instead of work, must work in any case, signs
with the handoff, and how its method behaves when there is no seed.  `Enqueue`
stands for all public methods; `StampFails` and `MarkOnly` are what
two kinds of them leave behind without a seed.  One loop goes through
`Dequeue`, `ParamsArrive` or `ParamsFail`, `PowFound` or `PowGivesUp`, `Sign` or
`CryptoFails`, and one of four answers of the relay; `RetryReady` and
`RetryFetchFails` are the retry.  `_drainQueue` clears `isProcessing` while a
loop still waits, so there are several loops: `docs/modules/FRONTEND.md:87`
calls the queue sequential, and after a drain two loops do work on it at once.
`OneHolder` says this is harmless.

`TxPromise.tla` is what a caller may rely on: a promise settles once; "ok" means
accepted exactly once, "cancelled" never, "failed" at most once.  `KeepsPromises`
is that `TxQueue` implements it.

Run `txqueue`: two live transactions and two loops are the least for a drained
loop to meet a new one; two generations let the same account come back after a
sign-out; one change of seed, handoff or level at any moment, where clearing
a handoff does not count; one retry (three
in the code) separates "attempts left" from "none left".  The intents are one of
each kind.  `TellingPairs` leaves out pairs of live entries which differ from
the pairs kept only in things one entry has alone.  A settled entry's place is
reused, so runs are unbounded in length.  Deadlock is not checked: with the
bounds used up and the client idle nothing happens.

Fairness: each wait of a loop ends.  Fetches have a 30 s and the proof of work
a 60 s timer, the retry delay is a timer, and loading the crypto module ends
either way.  `Fairness` is weak fairness of `LoopStep(l)` in an equivalent form
that TLC evaluates faster.  `EveryTxSettles` holds but for one case the model
shows: when `ensureCosmCrypto` rejects behind a proof of work, nothing catches
it and that loop waits for ever (`"hung"`).

Proofs.  `TxQueueProofs.tla` proves every property of the run but
`EveryTxSettles`, for any accounts, intents, places for live transactions, loops,
retries, generations and balances that satisfy the assumptions of the module:
`TxQueueTypes`, `EntriesHaveOneHolder`, `ReservationsAreExact`, `MarksHaveEntries`,
`ActionsAreNotDoubled`, the action properties `SignsForCurrentOwner` and
`DropsHaveReasons`, and the refinement `QueueKeepsPromises`.  The constraint of the
run is not used.

`QueueInv` is the inductive invariant, and is a predicate of
a queue and of the loops that are between two entries: one step of the
client is a chain of operations (an entry fails, the queue is drained, a new loop
starts and takes the next entry) and the invariant holds between any two of
them.  `Lined` and `Holding` say that every entry in flight is held by one loop
and queued ones by none.  `Keyed` says that past its pre-sign check a loop holds
the key of the entry's owner; without it a loop could sign what another
account queued after an await.  `Marks` and `Adds` are the properties of marks and
reservations.  `Keeps`, `Quiet` and `Spares` say of an operation what the
action properties and the refinement need: which entries it settles, that no
loop starts to sign, that no queued entry is cancelled.  The operations reason
about sums and least elements from `Laws` alone, which `LawsHold` proves at
the end from `SumProofs`.

The attempt to prove an earlier form of `NoSilentDrop` showed that it held only
for two live transactions: it allowed for the failure of an entry in flight, but
with a third one a loop can also take an entry from the queue and fail it
within the same step, which drains the others.  The property now names both
(`Fails`).

`SigningIsCurrent` has two halves.  A loop starts to sign only for the account and
the session that queued the entry (the check before `performTransaction` and the
one in it).  Nothing is checked after the await of `ensureCosmCrypto`, so a
signature that had started is finished and posted after a sign-out; the second
half says that this too is with the key of the account that queued the entry.

### TxEnvelope

`TxEnvelope.tla` follows one transaction through the seven hand-written
descriptions of it: the enqueueing method, `final_transaction`, the proof-of-work
preimage, the signed canonical form, the relayed body, the backend's message and
the bytes the chain rebuilds.  Each description is a table with a row per
action; the state machine runs a request through them while blocks pass, the
difficulty moves, the subscription starts or lapses and work is refused and
retried.  Text is its word and whether it has upper case, surrounding space or a
control character, which is what the conversions tell apart.

Run `envelope`: all 41 actions, each text in five styles and each number at its
edges.  Proofs have 3 bits instead of 32: what matters is a count that passes
the width.  One retry, two ticks of the clock and one change of tier are the
least for parameters to become stale between any two steps.

Proofs.  `TxEnvelopeProofs.tla` proves what the run checks of parameters and
attempts, `WorkerHasParams` and `RetriesAreFresh`, for any actions, number of retries,
ticks and changes of tier.  `EnvelopeInv` is the inductive invariant.  `EnvKnown`
says that base bits are known only together with the hash of a block.  `Clocks`
says when the attempt at hand took its nonce and its timestamp, and `Older` that
the attempt relayed last took both earlier; it distinguishes the stages, because
a retry takes its timestamp before it is performed and its nonce when it is.

Only model-checked: `SignedIsVerified`, `WorkIsVerified` and `SaysWhatWasAsked`.  They
compare tables with a row per action, and a proof would list the rows as TLC
does; the tables also flatten sequences of fields by recursion, about which the
prover has no induction.

### ApiSession

`ApiSession.tla` models one tab: `api.js` with its cache, in-flight table,
prefetch and abort controllers, `resetClientSession`, signing in and out, and
the balance answers write to localStorage; and a second tab that shares the
storage.

| Variable | Code |
| --- | --- |
| `apiGeneration`, `responseCache`, `inflight`, `prefetchKey`, `controllers` | module state of `api.js` |
| `requests`, `prefetching` | the closures of fetches in flight, and of the prefetches waiting for them |
| `generation`, `resets`, `resetInFlight` | `sessionLifecycle.js` and the calls of `resetClientSession` in progress |
| `publicKey`, `vaultOwner`, `balance`, `hold` | localStorage; a balance stands for its owner and whether a server answer wrote it |
| `viewer`, `signal` | the account in App's state; a sign-out of the other tab not yet handled here |
| `epoch` | history: sessions ended, which is what generations stand for |

Run `api_session`: two requests of one URL compete for the cache and the
in-flight entry; two resets overlap and may finish in either order, which lowers
`apiGeneration`; four generations let a lowered one be followed by another reset.
`SimpleOrEarly` follows stored accounts and balances for one reset only, because
they and the order of resets hardly depend on each other.  Requests, and resets,
are symmetric.  `Mixed` marks a storage in which two accounts met through a
write that does not compare them: a late `cacheUserStatus`, the settings, and an
optimistic change (`adjustBalanceOptimistic`) by a page whose account the storage no
longer names.  `PrefetchIsLive` says that a prefetch key is never left behind, by
a reset, a cache hit or a joined request, which would switch prefetching of that
URL off for good.

Proofs.  `ApiSessionProofs.tla` proves every property of that run for any
accounts, URLs, number of requests and resets and any bound, from
`SessionAssumption` alone, and without the constraint of the run; and, which no
run checks, type correctness and `ResetReachesAll`.
`ClientInv` is the inductive invariant of the client: the properties and two facts
they need.  `GenerationsAreFresh` says that the generations of draining
resets, of the client and of requests are distinct where they must be; without
it, a reset that finishes late could give the client the generation of an old
request.  `InflightIsCurrent` says that what a get may join was sent in this
session.  `StorageInv` adds to `BalanceIsOwners` that an identity set aside is the
only one in storage.  There is no liveness here: requests have timers, but a user
may never come back.

### Where code and comments part

Met while modelling; the properties name them as exceptions, or the code is
outside of what they say.

- A join drops the lens the view passes: `final_transaction` of
  `join_community` has no `mode` and no `pinned_team_id`
  (`TransactionHandler.js:2405`), although `curation.js:75` describes "the
  curation preference a join should lock in".  Exempt in `SaysWhatWasAsked`.
- A subscriber's report must do work (`_forcePow`) on parameters that are only
  fetched for free accounts, so it fails before it is mined.
- Control characters inside a report's reason are removed by the backend before
  it verifies the signature.  Exempt in `SignedIsVerified`.
- A request that cannot be stamped releases a reservation it never made
  (`TransactionHandler.js:514`).  Exempt in `ReservationsAddUp`.
- `sessionLifecycle.js:3` asks that all account-bound async work check the
  generation before it writes.  The text branch of `get`, `refreshBalance`, the
  bootstrap, and the vault's `unlock` and `storeSeed` do not.
- A PoW timer that fires after its transaction was drained still drains the queue
  (`TransactionHandler.js:5436`), be it that of the next session.  A reason in
  `NoSilentDrop`.
- `useBalance.js:5` names one writer of the balance; `api.js:155` and
  `tx.js:411` write it too.
- The reset with which a tab answers another tab's sign-out clears the shared
  storage (`sessionLifecycle.js:83`), also when somebody has signed in since.
- The hold on an optimistic deduction ends with the first answer that confirms
  it; an older answer still in flight can then show the old balance again.

## Not modelled

The views and components of the client are most of its lines.  They render what
the modelled parts deliver and keep form state; a model of them would restate
the markup, so the share of client lines behind a definition stays small.
Of the parts named in `TransactionHandler.js`, the polling for vote details, the
toasts and the optimistic updates of posts are left out.  The vault appears as
"whose seed can be read": its cryptography and its migration between protection
modes are not modelled.  Upgrade handlers rewrite data once at one height.
Storage patches and deployment scripts are not the system's own logic.  The
remaining parts of the chain, and the indexer, are in the plan.

Only model-checked: liveness (`ExpiryIsResolved`, `ClockCatchesUp`,
`EveryTxSettles`), which is out of the prover's reach, and the three properties of
`TxEnvelope` that compare its tables.

## Plan

1. `CreatorSettlement`: counting, allocation, claims, expiry and pruning of a
   closed epoch in bounded steps; conservation from pool to claims and burns,
   and `CreatorStream` and `CreatorSettlement` as refinements of an abstract
   pool that only moves money forward.
2. `PowDifficulty` and `BlockSupply` (BeginBlock and EndBlock counters), then
   `EnvelopeNonce` with the daily quota, usernames and bounded lists, and
   thread locks.  Small modules over a common block cycle.
3. The indexer's catch-up and application of blocks.
4. Theorems: the subscriber counts and the action properties of `Curation`,
   with the sums of `SumProofs`; conservation in `CreatorSettlement`.
5. A composition of `Subscription` with `Curation`, since expiry drives
   eligibility and errors there stop BeginBlock; as a refinement, so that the
   runs of the parts carry over.
