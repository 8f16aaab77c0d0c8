----------------------------- MODULE ApiSession -----------------------------
(***************************************************************************)
(* One browser tab's API client (utils/api.js) and the session it fetches  *)
(* for: session resets (utils/sessionLifecycle.js), signing in and out     *)
(* (App.js), the balance that answers write to localStorage, and a second  *)
(* tab that shares that storage.                                           *)
(*                                                                         *)
(* JavaScript runs to completion between two awaits, so an action is the   *)
(* code from one await to the next.  An aborted fetch may still deliver:   *)
(* its promise may have been resolved before abort() was called.  That is  *)
(* the case the generation checks of api.js are for.                       *)
(*                                                                         *)
(* An answer stands for the session (epoch) that asked for it, a stored    *)
(* balance for its owner and for who wrote it last.                        *)
(***************************************************************************)
EXTENDS Naturals

CONSTANTS
    Accounts,     \* addresses
    NoOne,
    Mixed,        \* two accounts' data in one storage
    Urls,         \* what may be asked of the server
    NoUrl,
    Address,      \* the address each URL asks about
    Slots,        \* requests in flight at once
    NoSlot,
    Resets,       \* calls of resetClientSession in progress at once
    NoReset,
    MaxGen        \* largest session generation of one page load

ASSUME SessionAssumption ==
    /\ NoOne \notin Accounts /\ Mixed \notin Accounts \cup {NoOne} /\ NoUrl \notin Urls
    /\ NoSlot \notin Slots /\ NoReset \notin Resets
    /\ Address \in [Urls -> Accounts]
    /\ MaxGen \in Nat \ {0}

VARIABLES
    \* api.js
    apiGeneration, responseCache, inflight, prefetchKey, requests, controllers,
    prefetching,  \* requests a prefetch waits for
    \* sessionLifecycle.js
    generation, resets, resetInFlight,
    epoch,        \* sessions ended in this page load
    \* localStorage, shared with the other tab
    publicKey, vaultOwner, balance, hold,
    \* App.js
    viewer,       \* state.publicKey
    signal        \* the other tab's sign-out is still to be handled here

apiVars == <<apiGeneration, responseCache, inflight, prefetchKey, requests,
             controllers, prefetching>>
resetVars == <<generation, resets, resetInFlight, epoch>>
storage == <<publicKey, vaultOwner, balance, hold>>
tab == <<viewer, signal>>
vars == <<apiVars, resetVars, storage, tab>>

NoRequest == [url |-> NoUrl]
NoAnswer == [type |-> "none", epoch |-> 0]
Absent == [owner |-> NoOne, synced |-> FALSE]
Idle == [stage |-> "idle", gen |-> 0, on |-> NoReset, lockOnly |-> FALSE]

Live == {r \in Slots : requests[r] # NoRequest}

Init ==
    /\ apiGeneration = 0
    /\ responseCache = [u \in Urls |-> NoAnswer]
    /\ inflight = [u \in Urls |-> NoSlot]
    /\ prefetchKey = NoUrl
    /\ requests = [r \in Slots |-> NoRequest]
    /\ controllers = {} /\ prefetching = {}
    /\ generation = 1 /\ resets = [x \in Resets |-> Idle] /\ resetInFlight = NoReset
    /\ epoch = 0
    /\ publicKey = NoOne /\ vaultOwner = NoOne /\ balance = Absent /\ hold = FALSE
    /\ viewer = NoOne /\ signal = FALSE

-----------------------------------------------------------------------------
(* Requests.                                                               *)

NewRequest(u, kind) ==
    [url |-> u, kind |-> kind, body |-> "awaited",
     gen |-> apiGeneration, epoch |-> epoch, callers |-> {epoch}]

\* The start of a request: trackController, the generation it belongs to.
\* kind is "cached" for a get with cacheMs > 0, which only prefetch asks for,
\* "get" for any other and "post".
Fetch(r, u, kind) ==
    /\ r \notin Live
    /\ requests' = [requests EXCEPT ![r] = NewRequest(u, kind)]
    /\ controllers' = controllers \cup {r}

\* A cache hit is served at once and changes nothing.
CacheMiss(u) == responseCache[u] = NoAnswer

\* get joins the request of the same URL that is already in flight.
Coalesce(u) ==
    /\ CacheMiss(u) /\ inflight[u] # NoSlot
    /\ requests' = [requests EXCEPT ![inflight[u]].callers = @ \cup {epoch}]
    /\ UNCHANGED <<inflight, controllers>>

GetNew(r, u, kind) ==
    /\ CacheMiss(u) /\ inflight[u] = NoSlot
    /\ Fetch(r, u, kind)
    /\ inflight' = [inflight EXCEPT ![u] = r]

Get(u) ==
    /\ \/ Coalesce(u)
       \/ \E r \in Slots : GetNew(r, u, "get")
    /\ UNCHANGED <<apiGeneration, responseCache, prefetchKey, prefetching>>
    /\ UNCHANGED <<resetVars, storage, tab>>

Post(u) ==
    /\ \E r \in Slots : Fetch(r, u, "post")
    /\ UNCHANGED <<apiGeneration, responseCache, inflight, prefetchKey, prefetching>>
    /\ UNCHANGED <<resetVars, storage, tab>>

\* A prefetch of the key being prefetched does nothing; one that hits the cache
\* settles at once, which clears the key it has just taken over.
Prefetch(u) ==
    /\ u # prefetchKey
    /\ \/ /\ ~CacheMiss(u)
          /\ prefetchKey' = NoUrl
          /\ UNCHANGED <<inflight, requests, controllers, prefetching>>
       \/ /\ Coalesce(u)
          /\ prefetchKey' = u /\ prefetching' = prefetching \cup {inflight[u]}
       \/ \E r \in Slots : /\ GetNew(r, u, "cached")
                           /\ prefetchKey' = u /\ prefetching' = prefetching \cup {r}
    /\ UNCHANGED <<apiGeneration, responseCache, resetVars, storage, tab>>

\* A cached answer passes its TTL, or a mutation drops it (invalidate).
DropCached(u) ==
    /\ ~CacheMiss(u)
    /\ responseCache' = [responseCache EXCEPT ![u] = NoAnswer]
    /\ UNCHANGED <<apiGeneration, inflight, prefetchKey, requests, controllers>>
    /\ UNCHANGED <<prefetching, resetVars, storage, tab>>

\* prefetch without its finally block: the key it took stays.
SettleKeepsKey(r) ==
    /\ requests' = [requests EXCEPT ![r] = NoRequest]
    /\ controllers' = controllers \ {r}
    /\ prefetching' = prefetching \ {r}
    /\ inflight' = IF requests[r].kind = "post" THEN inflight
                   ELSE [inflight EXCEPT ![requests[r].url] = NoSlot]
    /\ UNCHANGED <<prefetchKey, apiGeneration>>

\* The finally blocks of get, post and prefetch.  get's deletes the URL's entry
\* also when a later request has taken it.
Settle(r) ==
    /\ requests' = [requests EXCEPT ![r] = NoRequest]
    /\ controllers' = controllers \ {r}
    /\ prefetching' = prefetching \ {r}
    /\ inflight' = IF requests[r].kind = "post" THEN inflight
                   ELSE [inflight EXCEPT ![requests[r].url] = NoSlot]
    /\ prefetchKey' = IF r \in prefetching /\ prefetchKey = requests[r].url
                      THEN NoUrl ELSE prefetchKey
    /\ UNCHANGED apiGeneration

\* No generation check.
AnySession(r) == TRUE

\* The check after every await: genAtStart !== apiSessionGeneration.
SameSession(r) == requests[r].gen = apiGeneration

\* fetch() resolves with a success.  Text that is not to be cached leaves no
\* trace, like a rejection.
HeadArrives(r) ==
    /\ r \in Live /\ requests[r].body = "awaited" /\ SameSession(r)
    /\ \E type \in {"json", "text"} :
         /\ type = "text" => requests[r].kind = "cached"
         /\ requests' = [requests EXCEPT ![r].body = type]
    /\ UNCHANGED <<apiGeneration, responseCache, inflight, prefetchKey, controllers>>
    /\ UNCHANGED <<prefetching, resetVars, storage, tab>>

\* The promise rejects: the network fails, an HTTP error or an HTML page was read
\* for its message, the session has changed, or the timer or a reset aborted it.
Rejects(r) ==
    /\ r \in Live
    /\ Settle(r)
    /\ UNCHANGED <<responseCache, resetVars, storage, tab>>

\* Whoever is signed in.
AnyOwner(a) == publicKey # NoOne

\* The answer is about the account that is signed in when it arrives.
Own(a) == a = publicKey

\* An optimistic deduction still waits for the chain: the answer is older.
HoldBlocks(above) == hold /\ above

\* A balance the server sent is stored.  What is mixed up stays so.
Store(owner) ==
    /\ balance' = [owner |-> IF balance.owner = Mixed THEN Mixed ELSE owner, synced |-> TRUE]
    /\ hold' = FALSE

\* A write that does not look at the hold.
SyncBalanceUnheld(a, above) ==
    /\ balance' = IF Own(a) THEN [owner |-> a, synced |-> TRUE] ELSE balance
    /\ UNCHANGED hold

\* maybeSyncBalance.
SyncBalance(a, above) ==
    IF Own(a) /\ ~HoldBlocks(above) THEN Store(a) ELSE UNCHANGED <<balance, hold>>

\* The storage names another account than a.
NamesAnother(a) == {publicKey, vaultOwner} \ {a, NoOne} # {}

\* cacheUserStatus with the status of a: _persistUserBalance looks at the hold,
\* nothing looks at who is signed in by now.
PersistUserBalance(a, above) ==
    IF HoldBlocks(above) THEN UNCHANGED <<balance, hold>>
    ELSE Store(IF NamesAnother(a) THEN Mixed ELSE a)

Cached(r) ==
    IF requests[r].kind = "cached"
    THEN [responseCache EXCEPT ![requests[r].url] =
             [type |-> requests[r].body, epoch |-> requests[r].epoch]]
    ELSE responseCache

\* The body is there.  An answer may say nothing of the balance, and its caller
\* may take it for the status of the user (refreshBalance, _bootstrapApp, the
\* parameters of the transaction queue).
JsonArrives(r) ==
    /\ r \in Live /\ requests[r].body = "json" /\ SameSession(r)
    /\ \/ \E above \in BOOLEAN : SyncBalance(Address[requests[r].url], above)
       \/ /\ requests[r].kind = "get"
          /\ \E above \in BOOLEAN : PersistUserBalance(Address[requests[r].url], above)
       \/ UNCHANGED <<balance, hold>>
    /\ responseCache' = Cached(r)
    /\ Settle(r)
    /\ UNCHANGED <<publicKey, vaultOwner, resetVars, tab>>

\* The text branch has no generation check after resp.text().
TextArrives(r) ==
    /\ r \in Live /\ requests[r].body = "text"
    /\ responseCache' = Cached(r)
    /\ Settle(r)
    /\ UNCHANGED <<resetVars, storage, tab>>

\* tx.adjustBalanceOptimistic, by this page or by the other tab's: what a spends or
\* earns is added to whatever balance is stored, that of another account included.
\* A deduction takes or renews the hold.
AdjustBalance(a, deducts) ==
    /\ a \in {viewer, publicKey} \ {NoOne}
    /\ balance' = [owner |-> IF NamesAnother(a) \/ balance.owner \notin {a, NoOne}
                             THEN Mixed ELSE a,
                   synced |-> FALSE]
    /\ hold' = deducts
    /\ UNCHANGED <<publicKey, vaultOwner, apiVars, resetVars, tab>>

\* An expired hold stays in storage and is ignored.
HoldExpires ==
    /\ hold /\ hold' = FALSE
    /\ UNCHANGED <<publicKey, vaultOwner, balance, apiVars, resetVars, tab>>

-----------------------------------------------------------------------------
(* Session resets.                                                         *)

\* Storage.clear: everything in localStorage but the analytics id.
ClearStorage ==
    publicKey' = NoOne /\ vaultOwner' = NoOne /\ balance' = Absent /\ hold' = FALSE

\* bumpGeneration.
NextGeneration == generation + 1

\* A reset bumps the generation and awaits the drain of the transaction queue.
Start(x, lockOnly) ==
    /\ generation < MaxGen /\ generation' = NextGeneration
    /\ resets' = [resets EXCEPT ![x] =
                    [stage |-> "draining", gen |-> NextGeneration, on |-> NoReset,
                     lockOnly |-> lockOnly]]
    /\ resetInFlight' = x
    /\ UNCHANGED epoch

\* resetClientSession: a reset that finds another one in flight waits for it.
BeginReset(x, lockOnly) ==
    /\ resets[x] = Idle /\ generation < MaxGen
    /\ IF resetInFlight = NoReset
       THEN Start(x, lockOnly)
       ELSE /\ resets' = [resets EXCEPT ![x] =
                            [stage |-> "waiting", gen |-> 0, on |-> resetInFlight,
                             lockOnly |-> lockOnly]]
            /\ UNCHANGED <<generation, resetInFlight, epoch>>

SignOut ==
    /\ viewer # NoOne
    /\ \E x \in Resets : BeginReset(x, FALSE)
    /\ UNCHANGED <<apiVars, storage, tab>>

\* Every waiter goes on, also beside another one: they all bump.
WakeReset(x) ==
    /\ resets[x].stage = "woken"
    /\ Start(x, resets[x].lockOnly)
    /\ UNCHANGED <<apiVars, storage, tab>>

\* The waiters on x resume once x is done.
AfterReset(x) ==
    [y \in Resets |-> IF y = x THEN Idle
                      ELSE IF resets[y].stage = "waiting" /\ resets[y].on = x
                           THEN [stage |-> "woken", gen |-> 0, on |-> NoReset,
                                 lockOnly |-> resets[y].lockOnly]
                           ELSE resets[y]]

ResetApiSession(gen) ==
    /\ apiGeneration' = gen
    /\ controllers' = {}    \* each is aborted
    /\ responseCache' = [u \in Urls |-> NoAnswer]
    /\ inflight' = [u \in Urls |-> NoSlot]
    /\ prefetchKey' = NoUrl
    /\ UNCHANGED <<requests, prefetching>>

\* The rest of the reset runs without an await.  A sign-out whose page is still
\* open then sets empty credentials.  It is signalled to the other tab, whose own
\* reset clears the shared storage once more (OtherTabClears).
FinishReset(x) ==
    /\ resets[x].stage = "draining"
    /\ ResetApiSession(resets[x].gen)
    /\ ClearStorage
    /\ resets' = AfterReset(x) /\ resetInFlight' = NoReset
    /\ epoch' = epoch + 1
    /\ viewer' \in IF resets[x].lockOnly THEN {viewer} ELSE {viewer, NoOne}
    /\ UNCHANGED <<generation, signal>>

-----------------------------------------------------------------------------
(* Signing in, the unlock screen, the other tab, a reload.                 *)

\* setCredentials of a login or of a new account.
SignIn(a) ==
    /\ viewer = NoOne
    /\ viewer' = a /\ publicKey' = a /\ vaultOwner' = NoOne /\ balance' = Absent
    /\ UNCHANGED <<hold, signal, apiVars, resetVars>>

\* handleFallbackLogin: the identity is set aside for a later unlock.
FallbackLogin ==
    /\ viewer = NoOne
    /\ vaultOwner' = IF publicKey # NoOne THEN publicKey ELSE vaultOwner
    /\ publicKey' = NoOne
    /\ UNCHANGED <<balance, hold, tab, apiVars, resetVars>>

VaultUnlocked ==
    /\ viewer = NoOne
    /\ publicKey' = IF vaultOwner # NoOne THEN vaultOwner ELSE publicKey
    /\ vaultOwner' = NoOne /\ viewer' = publicKey'
    /\ UNCHANGED <<balance, hold, signal, apiVars, resetVars>>

\* The settings store the identity of the page again with a new protection of the
\* vault: another tab may have removed it, or signed somebody else in.
StoreIdentity ==
    /\ viewer # NoOne /\ publicKey' = viewer
    /\ balance' = IF NamesAnother(viewer) \/ balance.owner \notin {viewer, NoOne}
                  THEN [balance EXCEPT !.owner = Mixed] ELSE balance
    /\ UNCHANGED <<vaultOwner, hold, tab, apiVars, resetVars>>

\* The other tab clears the storage.  Its sign-out signals this tab; the reset
\* with which it answers this tab's sign-out, its deletion of the account and its
\* logout after thirty idle days do not.
OtherTabClears ==
    /\ publicKey # NoOne
    /\ ClearStorage
    /\ signal' \in {signal, TRUE}
    /\ UNCHANGED <<viewer, apiVars, resetVars>>

OtherTabSignsIn(a) ==
    /\ publicKey = NoOne
    /\ publicKey' = a /\ vaultOwner' = NoOne /\ balance' = Absent
    /\ UNCHANGED <<hold, apiVars, resetVars, tab>>

\* The other tab is loaded with a locked or a memory-only vault, or goes from its
\* unlock screen to the login page.
OtherTabStashes ==
    /\ publicKey # NoOne /\ publicKey' = NoOne
    /\ vaultOwner' \in {publicKey, vaultOwner}
    /\ UNCHANGED <<balance, hold, apiVars, resetVars, tab>>

OtherTabUnlocks ==
    /\ vaultOwner # NoOne /\ publicKey' = vaultOwner /\ vaultOwner' = NoOne
    /\ UNCHANGED <<balance, hold, apiVars, resetVars, tab>>

\* An answer about the user reaches the other tab.
OtherTabSyncs ==
    /\ publicKey # NoOne
    /\ \E above \in BOOLEAN : SyncBalance(publicKey, above)
    /\ UNCHANGED <<publicKey, vaultOwner, apiVars, resetVars, tab>>

\* installCrossTabSessionWatcher's callback.
CrossTabReset ==
    /\ signal /\ signal' = FALSE /\ viewer' = NoOne
    /\ \E x \in Resets : BeginReset(x, TRUE)
    /\ UNCHANGED <<apiVars, storage>>

\* The page is loaded anew: memory is lost, localStorage stays.  A locked vault
\* puts the identity aside; a memory-only vault has lost its seed and drops it.
Reload ==
    /\ apiGeneration' = 0
    /\ responseCache' = [u \in Urls |-> NoAnswer]
    /\ inflight' = [u \in Urls |-> NoSlot]
    /\ prefetchKey' = NoUrl
    /\ requests' = [r \in Slots |-> NoRequest]
    /\ controllers' = {} /\ prefetching' = {}
    /\ generation' = 1 /\ resets' = [x \in Resets |-> Idle] /\ resetInFlight' = NoReset
    /\ epoch' = 0 /\ signal' = FALSE
    /\ \/ publicKey' = publicKey /\ vaultOwner' = vaultOwner
       \/ /\ publicKey' = NoOne
          /\ vaultOwner' = IF vaultOwner = NoOne THEN publicKey ELSE vaultOwner
       \/ publicKey' = NoOne /\ vaultOwner' = vaultOwner
    /\ viewer' = publicKey'
    /\ UNCHANGED <<balance, hold>>

Next ==
    \/ \E u \in Urls : Get(u) \/ Post(u) \/ Prefetch(u) \/ DropCached(u)
    \/ \E r \in Slots : \/ HeadArrives(r) \/ JsonArrives(r) \/ TextArrives(r)
                        \/ Rejects(r)
    \/ \E a \in Accounts, deducts \in BOOLEAN : AdjustBalance(a, deducts)
    \/ HoldExpires
    \/ SignOut \/ CrossTabReset
    \/ \E x \in Resets : WakeReset(x) \/ FinishReset(x)
    \/ \E a \in Accounts : SignIn(a) \/ OtherTabSignsIn(a)
    \/ FallbackLogin \/ VaultUnlocked \/ StoreIdentity \/ Reload
    \/ OtherTabClears \/ OtherTabStashes \/ OtherTabUnlocks \/ OtherTabSyncs

Spec == Init /\ [][Next]_vars

-----------------------------------------------------------------------------
Request ==
    [url : Urls, kind : {"get", "cached", "post"}, body : {"awaited", "json", "text"},
     gen : 0..MaxGen, epoch : Nat, callers : SUBSET Nat]

Reset ==
    [stage : {"idle", "waiting", "woken", "draining"}, gen : 0..MaxGen,
     on : Resets \cup {NoReset}, lockOnly : BOOLEAN]

\* The variables have their types, and no generation passes the bound: every
\* reset bumps it once (bumpGeneration).
TypeOK ==
    /\ apiGeneration \in 0..MaxGen
    /\ responseCache \in [Urls -> [type : {"none", "json", "text"}, epoch : Nat]]
    /\ inflight \in [Urls -> Slots \cup {NoSlot}]
    /\ prefetchKey \in Urls \cup {NoUrl}
    /\ requests \in [Slots -> Request \cup {NoRequest}]
    /\ controllers \subseteq Slots /\ prefetching \subseteq Slots
    /\ generation \in 1..MaxGen /\ epoch \in Nat
    /\ resets \in [Resets -> Reset] /\ resetInFlight \in Resets \cup {NoReset}
    /\ publicKey \in Accounts \cup {NoOne} /\ vaultOwner \in Accounts \cup {NoOne}
    /\ balance \in [owner : Accounts \cup {NoOne, Mixed}, synced : BOOLEAN]
    /\ hold \in BOOLEAN
    /\ viewer \in Accounts \cup {NoOne} /\ signal \in BOOLEAN

\* No answer crosses a sign-out (api.js: the generation checks after each await
\* and the clearing in resetApiSession).  What the cache holds was asked for in
\* the session that may read it, and every caller that waits for a request asked
\* in the session that sent it, although resets that overlap finish in any order
\* and the API's generation may go down.  The text branch has no check, so an
\* answer that is not JSON is exempt.
AnswersAreCurrent ==
    /\ \A u \in Urls : responseCache[u].type = "json" => responseCache[u].epoch = epoch
    /\ \A r \in Live : requests[r].callers = {requests[r].epoch}

\* A reset reaches every request (trackController, sessionControllers): what is
\* tracked is what is live of the current session, so that the next reset aborts
\* all of it and nothing else, and settled requests do not pile up.
ResetReachesAll == controllers = {r \in Live : requests[r].epoch = epoch}

\* The balance shown is that of the account signed in, whatever answer arrives
\* late and whichever tab signs in or out, locks or unlocks meanwhile
\* (maybeSyncBalance compares the address when the answer is there,
\* setCredentials drops the old balance, the stash keeps the identity of the
\* balance).  Only what does not look at who is signed in can mix two accounts,
\* until the next sign-in: the caching of a late user status, the settings, and an
\* optimistic change by a page whose account the storage no longer names.
BalanceIsOwners == publicKey # NoOne => balance.owner \in {publicKey, NoOne, Mixed}

\* An optimistic deduction stands against answers that are older: as long as its
\* hold lasts, the balance is not one a server answer wrote (maybeSyncBalance).
HeldBalanceStands == hold => ~balance.synced

\* Prefetching cannot wedge (prefetch): while prefetchKey names a URL, which turns
\* every further prefetch of it into nothing, a prefetch of it is really in flight,
\* also after a reset has cleared the key while an older prefetch of the URL was
\* still to settle, and when get joined the prefetch to a request it found.
PrefetchIsLive ==
    prefetchKey # NoUrl => \E r \in prefetching : r \in Live /\ requests[r].url = prefetchKey
=============================================================================
