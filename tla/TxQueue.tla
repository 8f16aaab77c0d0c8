------------------------------ MODULE TxQueue ------------------------------
(***************************************************************************)
(* The transaction queue of the web client (utils/TransactionHandler.js)   *)
(* together with the session it signs for: the seed vault, the onboarding  *)
(* handoff and the session generation (utils/sessionLifecycle.js).         *)
(*                                                                         *)
(* JavaScript runs to completion between two awaits, so an action is the   *)
(* code from one await of one processTransactions loop, one timer, one     *)
(* worker message or one click to the next.  processTransactions is meant  *)
(* to run once at a time (isProcessing), but _drainQueue clears the flag   *)
(* while a loop still waits, so the model has several loops.               *)
(***************************************************************************)
EXTENDS Naturals, Sequences, FiniteSets, Functions, FiniteSetsExt

CONSTANTS
    Owners,        \* addresses a seed phrase can derive
    Newcomers,     \* those of them an account may be created for
    NoOne,         \* no seed, no handoff
    Intents,       \* what the user may ask for, see IntentType
    NoMark,        \* the intent has no pending-map key
    MaxTx,         \* transactions live at once; a settled one's place is reused
    MaxGen,        \* session generations
    MaxSwitches,   \* changes of seed and level, and new handoffs, outside a reset
    MaxLoops,      \* processTransactions activations alive at once
    MAX_POW_RETRIES,
    MaxBalance     \* largest balance a read returns

Txs == 1..MaxTx
Loops == 1..MaxLoops
NoLoop == 0

\* mark: the key the intent holds in one of the seven pending maps.
\* reserve: _reserveUmirage.  feeOnly: NO_POW_ACTIONS.  forcePow: _forcePow.
\* handoff: _signerSource = 'handoff'.  entry: how the method enqueues it,
\* "bound" (_enqueueBoundTransaction), "checked" (the seed is read before the
\* mark is set) or "raw" (the mark is set before anything reads the seed).
IntentType ==
    [mark : STRING \cup {NoMark}, reserve : 0..MaxBalance, feeOnly : BOOLEAN,
     forcePow : BOOLEAN, handoff : BOOLEAN, entry : {"bound", "checked", "raw"}]

ASSUME QueueAssumption ==
    /\ MaxTx \in Nat \ {0} /\ MaxGen \in Nat \ {0} /\ MaxLoops \in Nat \ {0} /\ MaxSwitches \in Nat
    /\ MAX_POW_RETRIES \in Nat /\ MaxBalance \in Nat
    /\ NoOne \notin Owners /\ Newcomers \subseteq Owners
    /\ Intents \subseteq IntentType

VARIABLES
    tx,       \* the TransactionHandler singleton and its running loops
    session,  \* generation, seed owner, handoff owner, cached user_level
    accepted  \* how often the node accepted each transaction

vars == <<tx, session, accepted>>

NoEntry == [state |-> "none", intent |-> NoMark, owner |-> NoOne, gen |-> 0]
NoRun == [pc |-> "idle", cur |-> 0, paid |-> FALSE, pow |-> FALSE, try |-> 0,
          key |-> NoOne, worker |-> FALSE]

Init ==
    /\ tx = [transactions |-> <<>>, isProcessing |-> FALSE, pending |-> {},
             reserved |-> 0, activePowWorker |-> NoLoop,
             loose |-> {}, slack |-> FALSE,
             entry |-> [t \in Txs |-> NoEntry], loop |-> [l \in Loops |-> NoRun]]
    /\ session \in [gen : {1}, vault : Owners \cup {NoOne}, handoff : {NoOne},
                    level : {0, 1}, reset : {"none"}, switches : {0}]
    /\ accepted = [t \in Txs |-> 0]

-----------------------------------------------------------------------------
(* Reservations, pending marks and the drain.                              *)

Live(e) == e.state \in {"queued", "flight"}

\* Mutant of Resolve: the reservation is not released.
ResolveKeepsReservation(q, t, outcome) ==
    [q EXCEPT !.pending = @ \ {q.entry[t].intent.mark},
              !.entry[t] = [NoEntry EXCEPT !.state = outcome]]
\* Mutant of Resolve: onResolve is not called.
ResolveKeepsMark(q, t, outcome) ==
    [q EXCEPT !.reserved = 0, !.entry[t] = [NoEntry EXCEPT !.state = outcome]]
\* entry._resolve: _releaseEntryReservation (floored at zero), onResolve
\* deletes the mark whoever holds it by now, the caller's promise resolves.
\* Of a settled entry only the outcome is remembered.
Resolve(q, t, outcome) ==
    LET i == q.entry[t].intent
        rest == {q.entry[u].intent : u \in {v \in Txs : v # t /\ Live(q.entry[v])}}
    IN  [q EXCEPT !.reserved = IF @ > i.reserve THEN @ - i.reserve ELSE 0,
                  !.pending = @ \ {i.mark},
                  !.loose = @ \cap {j.mark : j \in rest},
                  !.slack = @ /\ \E j \in rest : j.reserve > 0,
                  !.entry[t] = [NoEntry EXCEPT !.state = outcome]]

\* _drainQueue: the queued entries are cancelled, the shifted ones are not.
Drain(q) ==
    LET strays == {t \in Txs : q.entry[t].state = "flight"}
    IN  [q EXCEPT
          !.loop = [l \in Loops |->
              IF l = q.activePowWorker THEN [q.loop[l] EXCEPT !.worker = FALSE]
              ELSE q.loop[l]],
          !.activePowWorker = NoLoop,
          !.entry = [t \in Txs |->
              IF t \in Range(q.transactions)
              THEN [NoEntry EXCEPT !.state = "cancelled"] ELSE q.entry[t]],
          !.transactions = <<>>, !.reserved = 0, !.pending = {},
          !.isProcessing = FALSE,
          !.loose = {q.entry[t].intent.mark : t \in strays} \ {NoMark},
          !.slack = \E t \in strays : q.entry[t].intent.reserve > 0]

-----------------------------------------------------------------------------
(* Owner binding.                                                          *)

\* _requireOwnerBinding: the address the entry's signer source derives.
Signer(i) == IF i.handoff THEN session.handoff ELSE session.vault

\* Mutant of Bound: the generation is not compared.
BoundToOwnerOnly(e) == Signer(e.intent) # NoOne /\ Signer(e.intent) = e.owner
\* The test _verifyOwnerBinding makes; on failure its callers drain.
Bound(e) == /\ Signer(e.intent) # NoOne
            /\ Signer(e.intent) = e.owner
            /\ session.gen = e.gen

\* _requireOwnerBinding(queued) throws: no seed, or another handoff's owner.
BindingThrows(e) == \/ Signer(e.intent) = NoOne
                    \/ e.intent.handoff /\ session.handoff # e.owner

-----------------------------------------------------------------------------
(* processTransactions, one operator per stretch between two awaits.       *)

\* Mutant of LoopEnd: isProcessing is left up.
LoopEndKeepsFlag(q, l) == [q EXCEPT !.loop[l] = NoRun]
\* The code after the while loop.
LoopEnd(q, l) == [q EXCEPT !.isProcessing = FALSE, !.loop[l] = NoRun]

\* failAndDrain, then break.
FailAndDrain(q, l, outcome) ==
    LoopEnd(Drain(Resolve(q, q.loop[l].cur, outcome)), l)

\* handleTransactionResult up to its first await: verify, then load the crypto.
BeginSigning(q, l) ==
    IF Bound(q.entry[q.loop[l].cur])
    THEN [q EXCEPT !.loop[l].pc = "crypto"]
    ELSE FailAndDrain(Drain(q), l, "cancelled")

\* performTransaction: skip the PoW, refuse to build a preimage, or start the
\* worker.  The level is read again here; the parameters were fetched by the
\* level read at dequeue.
Perform(q, l) ==
    LET i == q.entry[q.loop[l].cur].intent
        skip == ~i.forcePow /\ (session.level >= 1 \/ i.feeOnly)
        started == [q EXCEPT !.activePowWorker = l]
    IN  CASE skip -> BeginSigning([q EXCEPT !.loop[l].pow = FALSE], l)
          [] ~skip /\ (i.feeOnly \/ q.loop[l].paid) ->
                FailAndDrain(started, l, "failed")
          [] OTHER -> [started EXCEPT !.loop[l].pc = "pow", !.loop[l].pow = TRUE,
                                      !.loop[l].worker = TRUE]

\* One turn of the retry loop, after its awaits: pre-sign check, perform.
Attempt(q, l) ==
    IF Bound(q.entry[q.loop[l].cur]) THEN Perform(q, l)
    ELSE FailAndDrain(Drain(q), l, "cancelled")

\* The key is derived from whoever signs now, then the first attempt is made.
DeriveAndAttempt(q, l) ==
    LET e == q.entry[q.loop[l].cur]
    IN  IF BindingThrows(e) THEN FailAndDrain(q, l, "failed")
        ELSE Attempt([q EXCEPT !.loop[l].key = Signer(e.intent),
                               !.loop[l].try = 0], l)

\* Mutant of Dequeue: the head is read and not shifted.
DequeuePeeks(q, l) ==
    IF q.transactions = <<>> \/ ~Bound(q.entry[Head(q.transactions)])
    THEN LoopEnd(Drain(q), l)
    ELSE [q EXCEPT !.entry[Head(q.transactions)].state = "flight",
                   !.loop[l] = [NoRun EXCEPT !.pc = "params",
                                             !.cur = Head(q.transactions)]]
\* The top of the while loop: stop, drain, or shift the head and go on to its
\* first await (get_parameters) or straight to signing.
Dequeue(q, l) ==
    IF q.transactions = <<>> THEN LoopEnd(q, l)
    ELSE LET t == Head(q.transactions)
             i == q.entry[t].intent
             taken == [q EXCEPT
                 !.transactions = Tail(@), !.entry[t].state = "flight",
                 !.loop[l] = [NoRun EXCEPT !.pc = "params", !.cur = t,
                                           !.paid = session.level >= 1]]
         IN  CASE ~Bound(q.entry[t]) -> LoopEnd(Drain(q), l)
               [] Bound(q.entry[t]) /\ session.level = 0 /\ ~i.feeOnly -> taken
               [] OTHER -> DeriveAndAttempt(taken, l)

\* Mutant of Succeed: the queue is drained after every transaction.
SucceedDrains(q, l) == LoopEnd(Drain(Resolve(q, q.loop[l].cur, "ok")), l)
\* The transaction went through: release, resolve, next.
Succeed(q, l) == Dequeue(Resolve(q, q.loop[l].cur, "ok"), l)

-----------------------------------------------------------------------------
(* Enqueueing.                                                             *)

\* A place for a new entry, and one for an activation of processTransactions.
Unused == {t \in Txs : ~Live(tx.entry[t])}
FreeLoops == {l \in Loops : tx.loop[l].pc = "idle"}

\* _pushStampedTransaction: stamp, reserve, push, processTransactions.
PushStamped(q, t, i) ==
    LET stamped == [q EXCEPT
            !.entry[t] = [NoEntry EXCEPT !.state = "queued", !.intent = i,
                                         !.owner = Signer(i), !.gen = session.gen],
            !.reserved = @ + i.reserve,
            !.transactions = Append(@, t)]
    IN  IF q.isProcessing THEN stamped
        ELSE Dequeue([stamped EXCEPT !.isProcessing = TRUE], Min(FreeLoops))

\* _getAvailableBalanceUmirage covers the reservation.  The stored and the last
\* on-chain balance are written by many parties: their maximum is any balance.
Affordable == {i \in Intents : i.reserve = 0 \/ tx.reserved + i.reserve <= MaxBalance}

\* Mutant of MarkFree: the method does not look for a pending action.
MarkFreeUnchecked(i) == TRUE
\* isPending...: the action is not already pending.
MarkFree(i) == i.mark \notin tx.pending

\* The pending map once the method has set its mark.
Marked(i) == [tx EXCEPT !.pending = @ \cup ({i.mark} \ {NoMark})]

\* One of the public methods (createVote, followUser, sendTokens, subscribe,
\* giveAward, blockPost, reportPost, createUser, ...) that stamps its entry.
\* A checked method does nothing when there is no seed.
Enqueue(i) ==
    /\ MarkFree(i)
    /\ i \in Affordable
    /\ Signer(i) # NoOne
    /\ ~tx.isProcessing => FreeLoops # {}
    /\ Unused # {}
    /\ tx' = PushStamped(Marked(i), Min(Unused), i)
    /\ accepted' = [accepted EXCEPT ![Min(Unused)] = 0]
    /\ UNCHANGED session

\* _enqueueBoundTransaction without a seed: the stamp throws before anything
\* is reserved, and _resolve takes the mark back and releases the reservation
\* all the same, out of those of other entries.
StampFails(i) ==
    /\ i.entry = "bound" /\ MarkFree(i)
    /\ i \in Affordable
    /\ Signer(i) = NoOne
    /\ tx' = [tx EXCEPT !.reserved = IF @ > i.reserve THEN @ - i.reserve ELSE 0,
                        !.slack = @ \/ (i.reserve > 0 /\ tx.reserved > 0)]
    /\ UNCHANGED <<session, accepted>>

\* A raw method (blockPost and its kin) without a seed: it has set its mark
\* when the stamp throws, and nothing takes it back.
MarkOnly(i) ==
    /\ i.entry = "raw" /\ MarkFree(i)
    /\ Signer(i) = NoOne
    /\ tx' = Marked(i)
    /\ UNCHANGED <<session, accepted>>

-----------------------------------------------------------------------------
(* What a waiting loop is woken by.                                        *)

\* get_parameters answers with a balance.  If it is at most what the
\* reservations leave of the balance known before (floored at zero), it is taken
\* to include them (spent) and they are written off; both balances are any.
ParamsArrive(l) ==
    /\ tx.loop[l].pc = "params"
    /\ \E spent \in {FALSE, tx.reserved > 0} :
          tx' = DeriveAndAttempt([tx EXCEPT !.reserved = IF spent THEN 0 ELSE @,
                                            !.slack = @ \/ spent], l)
    /\ UNCHANGED <<session, accepted>>

ParamsFail(l) ==
    /\ tx.loop[l].pc = "params"
    /\ tx' = FailAndDrain(tx, l, "failed")
    /\ UNCHANGED <<session, accepted>>

\* worker.onmessage with a proof: clears _activePowWorker, whichever worker
\* that is by now, and goes on to sign.
PowFound(l) ==
    /\ tx.loop[l].pc = "pow" /\ tx.loop[l].worker
    /\ tx' = BeginSigning([tx EXCEPT !.activePowWorker = NoLoop,
                                     !.loop[l].worker = FALSE], l)
    /\ UNCHANGED <<session, accepted>>

\* worker.onerror, an error message, or the 60 s timer.  Only the timer is
\* left once a drain has terminated the worker.
PowGivesUp(l) ==
    /\ tx.loop[l].pc = "pow"
    /\ tx' = FailAndDrain([tx EXCEPT !.activePowWorker = NoLoop], l, "failed")
    /\ UNCHANGED <<session, accepted>>

\* ensureCosmCrypto resolves; the canonical bytes are signed with the key
\* derived before the wait and posted.
Sign(l) ==
    /\ tx.loop[l].pc = "crypto"
    /\ tx' = [tx EXCEPT !.loop[l].pc = "relay", !.loop[l].pow = FALSE]
    /\ UNCHANGED <<session, accepted>>

\* ensureCosmCrypto rejects: the skip path catches it, worker.onmessage does
\* not, and the promise performTransaction returned never settles.
CryptoFails(l) ==
    /\ tx.loop[l].pc = "crypto"
    /\ tx' = IF tx.loop[l].pow THEN [tx EXCEPT !.loop[l].pc = "hung"]
             ELSE FailAndDrain(tx, l, "failed")
    /\ UNCHANGED <<session, accepted>>

\* The relay answers with a transaction hash (or success, for a report).
RelayAccepted(l) ==
    /\ tx.loop[l].pc = "relay"
    /\ accepted' = [accepted EXCEPT ![tx.loop[l].cur] = @ + 1]
    /\ tx' = Succeed(tx, l)
    /\ UNCHANGED session

\* Mutant of RelayLost: a lost answer is retried.
RelayLostRetries(l) ==
    /\ tx.loop[l].pc = "relay" /\ tx.loop[l].try < MAX_POW_RETRIES
    /\ accepted' = [accepted EXCEPT ![tx.loop[l].cur] = @ + 1]
    /\ tx' = [tx EXCEPT !.loop[l].pc = "retry", !.loop[l].try = @ + 1]
    /\ UNCHANGED session
\* No answer: the network, the 30 s timeout, the abort of a session reset or
\* an answer dropped because the generation moved on.  The node may or may not
\* have accepted.  None of these errors is retried.
RelayLost(l) ==
    /\ tx.loop[l].pc = "relay"
    /\ \/ accepted' = [accepted EXCEPT ![tx.loop[l].cur] = @ + 1]
       \/ UNCHANGED accepted
    /\ tx' = FailAndDrain(tx, l, "failed")
    /\ UNCHANGED session

\* The node refuses the work as stale (POW_RETRYABLE): wait and try again
\* while attempts are left.
RelayStale(l) ==
    /\ tx.loop[l].pc = "relay"
    /\ tx' = IF tx.loop[l].try < MAX_POW_RETRIES
             THEN [tx EXCEPT !.loop[l].pc = "retry", !.loop[l].try = @ + 1]
             ELSE FailAndDrain(tx, l, "failed")
    /\ UNCHANGED <<session, accepted>>

\* Any other refusal.  'pow_required' also clears the cached subscription.
RelayRefused(l) ==
    /\ tx.loop[l].pc = "relay"
    /\ \E level \in {0, session.level} : session' = [session EXCEPT !.level = level]
    /\ tx' = FailAndDrain(tx, l, "failed")
    /\ UNCHANGED accepted

\* The delay is over and, for a free user, fresh parameters have arrived.
RetryReady(l) ==
    /\ tx.loop[l].pc = "retry"
    /\ tx' = Attempt(tx, l)
    /\ UNCHANGED <<session, accepted>>

\* Mutant of RetryFetchFails: one attempt too many.
RetryFetchFailsOnce(l) ==
    /\ tx.loop[l].pc = "retry" /\ ~tx.loop[l].paid
    /\ tx' = IF tx.loop[l].try <= MAX_POW_RETRIES
             THEN [tx EXCEPT !.loop[l].try = @ + 1]
             ELSE FailAndDrain(tx, l, "failed")
    /\ UNCHANGED <<session, accepted>>
\* The fresh parameters could not be fetched: the attempt is spent.
RetryFetchFails(l) ==
    /\ tx.loop[l].pc = "retry" /\ ~tx.loop[l].paid
    /\ tx' = IF tx.loop[l].try < MAX_POW_RETRIES
             THEN [tx EXCEPT !.loop[l].try = @ + 1]
             ELSE FailAndDrain(tx, l, "failed")
    /\ UNCHANGED <<session, accepted>>

LoopStep(l) ==
    \/ ParamsArrive(l) \/ ParamsFail(l)
    \/ PowFound(l) \/ PowGivesUp(l)
    \/ Sign(l) \/ CryptoFails(l)
    \/ RelayAccepted(l) \/ RelayLost(l) \/ RelayStale(l) \/ RelayRefused(l)
    \/ RetryReady(l) \/ RetryFetchFails(l)

-----------------------------------------------------------------------------
(* The session the queue signs for.                                        *)

\* resetClientSession (sign-out here or in another tab): bump the generation,
\* load and drain the queue, load the API client, clear handoffs, storage and
\* vault.  Loading the queue's module may fail, and the reset goes on.
ResetBegin ==
    /\ session.reset = "none" /\ session.gen < MaxGen
    /\ session' = [session EXCEPT !.gen = @ + 1, !.reset = "drain"]
    /\ UNCHANGED <<tx, accepted>>

ResetDrain ==
    /\ session.reset = "drain"
    /\ session' = [session EXCEPT !.reset = "clear"]
    /\ tx' \in {Drain(tx), tx}
    /\ UNCHANGED accepted

ResetClear ==
    /\ session.reset = "clear"
    /\ session' = [session EXCEPT !.reset = "none", !.handoff = NoOne,
                                  !.vault = NoOne, !.level = 0]
    /\ UNCHANGED <<tx, accepted>>

\* What changes outside a reset, without a generation bump.
Switch(next) ==
    /\ session.switches < MaxSwitches
    /\ session' = [next EXCEPT !.switches = @ + 1]
    /\ UNCHANGED <<tx, accepted>>

\* storeSeed, storeSeedForSession, unlock.  Account creation overwrites the
\* seed of whoever is signed in.
StoreSeed(o) == session.vault # o /\ Switch([session EXCEPT !.vault = o])

\* lock (auto-lock, fallback login), or clear.
Lock == session.vault # NoOne /\ Switch([session EXCEPT !.vault = NoOne])

\* createHandoff of purpose create-user-signing; the newest one is peeked.
CreateHandoff(o) == session.handoff # o /\ Switch([session EXCEPT !.handoff = o])

\* clearHandoff by the form, or 15 minutes passed; as often as one was created.
ClearHandoff ==
    /\ session.handoff # NoOne
    /\ session' = [session EXCEPT !.handoff = NoOne]
    /\ UNCHANGED <<tx, accepted>>

\* cacheUserStatus: user_level as the server last reported it.
CacheUserLevel == Switch([session EXCEPT !.level = 1 - @])

SessionStep ==
    \/ ResetBegin \/ ResetDrain \/ ResetClear
    \/ \E o \in Owners : StoreSeed(o)
    \/ \E o \in Newcomers : CreateHandoff(o)
    \/ Lock \/ ClearHandoff \/ CacheUserLevel

Next ==
    \/ \E i \in Intents : Enqueue(i) \/ StampFails(i) \/ MarkOnly(i)
    \/ \E l \in Loops : LoopStep(l)
    \/ SessionStep

\* Every wait of a loop ends: fetches have a 30 s timeout, the PoW a 60 s one,
\* the retry delay is a timer.  This is WF_vars(LoopStep(l)): LoopStep(l) is
\* enabled exactly while l waits, and its steps are the ones that move l.
Waiting(l) == tx.loop[l].pc \notin {"idle", "hung"}
Place(run) == <<run.pc, run.cur, run.try>>
Wakes(l) == Waiting(l) /\ Place(tx'.loop[l]) # Place(tx.loop[l])
Fairness == \A l \in Loops : []<>(~Waiting(l)) \/ []<><<Wakes(l)>>_vars

Spec == Init /\ [][Next]_vars /\ Fairness

-----------------------------------------------------------------------------
(* Properties.                                                             *)

PCs == {"idle", "params", "pow", "crypto", "relay", "retry", "hung"}

TypeOK ==
    /\ tx.transactions \in Seq(Txs) /\ tx.isProcessing \in BOOLEAN
    /\ tx.pending \subseteq STRING /\ tx.reserved \in Nat
    /\ tx.activePowWorker \in Loops \cup {NoLoop}
    /\ \A t \in Txs : /\ tx.entry[t].state \in
                           {"none", "queued", "flight", "ok", "failed", "cancelled"}
                     /\ Live(tx.entry[t]) => tx.entry[t].intent \in Intents
    /\ \A l \in Loops : tx.loop[l].pc \in PCs /\ tx.loop[l].try \in 0..MAX_POW_RETRIES
    /\ session.vault \in Owners \cup {NoOne} /\ session.gen \in 1..MaxGen
    /\ accepted \in [Txs -> Nat]

\* An entry is in the queue once, or in the hands of exactly one loop, even
\* while a drained loop and a new one work through the same queue.
OneHolder ==
    /\ IsInjective(tx.transactions)
    /\ \A t \in Txs :
        /\ tx.entry[t].state = "queued" <=> t \in Range(tx.transactions)
        /\ Cardinality({l \in Loops : tx.loop[l].pc # "idle" /\ tx.loop[l].cur = t})
             = IF tx.entry[t].state = "flight" THEN 1 ELSE 0

\* What the live entries have reserved.
Reserves(q) == [t \in Txs |-> IF Live(q.entry[t]) THEN q.entry[t].intent.reserve ELSE 0]
LiveReserve == SumFunction(Reserves(tx))

\* No reservation outlives its entry, and the total is exact, unless a drain
\* overtook a reserving entry in flight (its late release then frees a part
\* of a newer reservation), a balance answer wrote the reservations off, or a
\* request that could not be stamped released what it had never reserved.
ReservationsAddUp ==
    /\ tx.reserved <= LiveReserve
    /\ ~tx.slack => tx.reserved = LiveReserve

\* A pending mark ("already pending" for the user) belongs to a live entry;
\* only a method that marks before it stamps (blockPost, blockUser,
\* blockCommunity and their inverses) may leave one behind.
MarksAreLive ==
    \A m \in tx.pending :
        \/ \E t \in Txs : Live(tx.entry[t]) /\ tx.entry[t].intent.mark = m
        \/ \E i \in Intents : i.mark = m /\ i.entry = "raw"

\* The same action is not live twice, unless a drain has overtaken one in
\* flight, whose mark is gone while its transaction is not.
NoDuplicateAction ==
    \A t, u \in Txs :
        /\ t # u /\ Live(tx.entry[t]) /\ Live(tx.entry[u])
        /\ tx.entry[t].intent.mark = tx.entry[u].intent.mark
        => tx.entry[t].intent.mark \in tx.loose \cup {NoMark}

\* Signing starts (handleTransactionResult) only while the account that queued
\* the entry and its session generation are current, however often the seed was
\* replaced, locked or handed off while the loop waited for parameters, the PoW or
\* a retry: after a sign-out nothing queued before it starts to be signed, be it a
\* retry and even if the same account signs back in.  Nothing is checked after the
\* await of ensureCosmCrypto, so what had started before is signed and posted
\* after the sign-out, but then too with the key of the account that queued it
\* and not of one that signed in meanwhile.
Current(e) == Signer(e.intent) = e.owner /\ session.gen = e.gen
StartsSigning(l) == tx'.loop[l].pc = "crypto" /\ tx'.loop[l] # tx.loop[l]
Posts(l) == tx.loop[l].pc = "crypto" /\ tx'.loop[l].pc = "relay"
HasOwnersKey(l) == tx'.loop[l].key = tx'.entry[tx'.loop[l].cur].owner
SignsAsOwner(l) == Current(tx'.entry[tx'.loop[l].cur]) /\ HasOwnersKey(l)
SigningIsCurrent ==
    [][\A l \in Loops : /\ StartsSigning(l) => SignsAsOwner(l)
                        /\ Posts(l) => HasOwnersKey(l)]_vars

\* A queued entry is cancelled only together with an entry the queue works on,
\* which fails or finds its account gone, with a sign-out, or because the
\* account of the queue's head is not current.
Fails(t) == \/ Live(tx.entry[t]) /\ tx'.entry[t].state = "failed"
            \/ tx.entry[t].state = "flight" /\ tx'.entry[t].state = "cancelled"
Drops(t) == tx.entry[t].state = "queued" /\ tx'.entry[t].state = "cancelled"
HasReason == \/ \E t \in Txs : Fails(t)
             \/ session.reset = "drain"
             \/ ~Bound(tx.entry[Head(tx.transactions)])
NoSilentDrop == [][(\E t \in Txs : Drops(t)) => HasReason]_vars

\* Every enqueued transaction settles, unless the crypto module failed to load
\* behind a PoW answer, after which that loop never ends.
EveryTxSettles ==
    \A t \in Txs :
        Live(tx.entry[t]) ~> (~Live(tx.entry[t]) \/ \E l \in Loops : tx.loop[l].pc = "hung")

\* The queue implements what it promises its callers (module TxPromise).
Promise == INSTANCE TxPromise WITH
    Txs <- Txs, accepted <- accepted,
    state <- [t \in Txs |-> IF Live(tx.entry[t]) THEN "live" ELSE tx.entry[t].state]
KeepsPromises == Promise!Spec
=============================================================================
