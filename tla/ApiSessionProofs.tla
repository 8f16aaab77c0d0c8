-------------------------- MODULE ApiSessionProofs --------------------------
(***************************************************************************)
(* Proofs about ApiSession, for any accounts, URLs, requests and resets in *)
(* progress, and any bound on the generation.                              *)
(***************************************************************************)
EXTENDS ApiSession, TLAPS

Draining(x) == resets[x].stage = "draining"

\* Generations are numbers that are given out once: to the resets under way, to
\* the API client and to its requests.  A request that carries the client's
\* generation is of the client's session.
GenerationsAreFresh ==
    /\ apiGeneration <= generation
    /\ \A r \in Live : requests[r].gen <= generation /\ requests[r].epoch <= epoch
    /\ \A r \in Live : requests[r].gen = apiGeneration => requests[r].epoch = epoch
    /\ \A x \in Resets : Draining(x) => /\ resets[x].gen <= generation
                                        /\ resets[x].gen # apiGeneration
    /\ \A x \in Resets, r \in Live : Draining(x) => requests[r].gen # resets[x].gen
    /\ \A x, y \in Resets : Draining(x) /\ Draining(y) /\ x # y
                               => resets[x].gen # resets[y].gen

\* What a get may join is a get of that URL, sent in the current session.
InflightIsCurrent ==
    \A u \in Urls : inflight[u] # NoSlot =>
        /\ inflight[u] \in Live
        /\ requests[inflight[u]].url = u
        /\ requests[inflight[u]].kind # "post"
        /\ requests[inflight[u]].epoch = epoch

\* TypeOK in two parts: what the API client and the resets work on, and what is
\* in storage and in App's state.
ClientType ==
    /\ apiGeneration \in 0..MaxGen
    /\ responseCache \in [Urls -> [type : {"none", "json", "text"}, epoch : Nat]]
    /\ inflight \in [Urls -> Slots \cup {NoSlot}]
    /\ prefetchKey \in Urls \cup {NoUrl}
    /\ requests \in [Slots -> Request \cup {NoRequest}]
    /\ controllers \subseteq Slots /\ prefetching \subseteq Slots
    /\ generation \in 1..MaxGen /\ epoch \in Nat
    /\ resets \in [Resets -> Reset] /\ resetInFlight \in Resets \cup {NoReset}

StorageType ==
    /\ publicKey \in Accounts \cup {NoOne} /\ vaultOwner \in Accounts \cup {NoOne}
    /\ balance \in [owner : Accounts \cup {NoOne, Mixed}, synced : BOOLEAN]
    /\ hold \in BOOLEAN
    /\ viewer \in Accounts \cup {NoOne} /\ signal \in BOOLEAN

\* The inductive invariant of the API client.
ClientInv ==
    /\ ClientType
    /\ GenerationsAreFresh
    /\ InflightIsCurrent
    /\ AnswersAreCurrent
    /\ ResetReachesAll
    /\ PrefetchIsLive

\* An identity set aside for the unlock screen is the only one in storage, unless
\* two are mixed.
StashIsOwners ==
    vaultOwner # NoOne /\ balance.owner # Mixed =>
        publicKey \in {vaultOwner, NoOne} /\ balance.owner \in {vaultOwner, NoOne}

\* The inductive invariant of the storage.
StorageInv == StorageType /\ BalanceIsOwners /\ StashIsOwners /\ HeldBalanceStands

\* The client and the resets when the page has just been loaded.
FreshPage ==
    /\ apiGeneration = 0
    /\ responseCache = [u \in Urls |-> NoAnswer]
    /\ inflight = [u \in Urls |-> NoSlot]
    /\ prefetchKey = NoUrl
    /\ requests = [r \in Slots |-> NoRequest]
    /\ controllers = {} /\ prefetching = {}
    /\ generation = 1 /\ resets = [x \in Resets |-> Idle] /\ resetInFlight = NoReset
    /\ epoch = 0

-----------------------------------------------------------------------------
\* A request in flight is a Request, and only such a one is live.
LEMMA LiveIsRequest ==
  ASSUME ClientType, NEW r \in Slots
  PROVE  /\ r \in Live <=> requests[r] \in Request
         /\ r \in Live <=> requests[r] # NoRequest
  BY SessionAssumption DEF ClientType, Live, Request, NoRequest

\* A settled request leaves the rest of the client's state well typed.
LEMMA SettleType ==
  ASSUME ClientType, NEW r \in Slots, r \in Live, Settle(r)
  PROVE  /\ inflight' \in [Urls -> Slots \cup {NoSlot}]
         /\ prefetchKey' \in Urls \cup {NoUrl}
         /\ requests' \in [Slots -> Request \cup {NoRequest}]
         /\ controllers' \subseteq Slots /\ prefetching' \subseteq Slots
         /\ apiGeneration' = apiGeneration
  BY LiveIsRequest DEF ClientType, Settle, Request

\* What an answer leaves in the cache.
LEMMA CachedType ==
  ASSUME ClientType, NEW r \in Slots, r \in Live, requests[r].body \in {"json", "text"}
  PROVE  Cached(r) \in [Urls -> [type : {"none", "json", "text"}, epoch : Nat]]
  BY LiveIsRequest DEF ClientType, Cached, Request

\* A caller that joins a request adds its session to the callers.
LEMMA CoalesceEffect ==
  ASSUME ClientType, InflightIsCurrent, NEW u \in Urls, Coalesce(u)
  PROVE  /\ inflight[u] \in Live
         /\ requests' \in [Slots -> Request \cup {NoRequest}]
         /\ \A r \in Slots : /\ requests'[r] # NoRequest <=> requests[r] # NoRequest
                             /\ requests'[r].url = requests[r].url
         /\ \A r \in Live : /\ requests'[r].kind = requests[r].kind
                            /\ requests'[r].gen = requests[r].gen
                            /\ requests'[r].epoch = requests[r].epoch
         /\ \A r \in Slots : r # inflight[u] => requests'[r] = requests[r]
         /\ requests'[inflight[u]].callers = requests[inflight[u]].callers \cup {epoch}
<1> DEFINE s == inflight[u]
           q == [requests[s] EXCEPT !.callers = @ \cup {epoch}]
<1>1. s \in Slots /\ s \in Live /\ requests[s] \in Request
  BY LiveIsRequest DEF InflightIsCurrent, Coalesce, Live
<1>2. requests' = [requests EXCEPT ![s] = q]
  BY DEF Coalesce
<1>3. /\ q \in Request
      /\ q.url = requests[s].url /\ q.kind = requests[s].kind /\ q.gen = requests[s].gen
      /\ q.epoch = requests[s].epoch /\ q.callers = requests[s].callers \cup {epoch}
  BY <1>1 DEF Request, ClientType
<1>4. q # NoRequest
  BY <1>3, SessionAssumption DEF Request, NoRequest
<1> HIDE DEF q
<1> QED
  BY <1>1, <1>2, <1>3, <1>4 DEF ClientType, Live

\* A new request is live, tracked, and of the current session and generation.
LEMMA FetchEffect ==
  ASSUME ClientType, NEW r \in Slots, NEW u \in Urls, NEW kind \in {"get", "cached", "post"},
         Fetch(r, u, kind)
  PROVE  /\ r \notin Live
         /\ requests' \in [Slots -> Request \cup {NoRequest}]
         /\ Live' = Live \cup {r}
         /\ controllers' = controllers \cup {r}
         /\ \A q \in Slots : q # r => requests'[q] = requests[q]
         /\ requests'[r].url = u /\ requests'[r].kind = kind
         /\ requests'[r].gen = apiGeneration
         /\ requests'[r].epoch = epoch /\ requests'[r].callers = {epoch}
<1>1. NewRequest(u, kind) \in Request
  BY DEF ClientType, NewRequest, Request
<1>2. NewRequest(u, kind) # NoRequest
  BY SessionAssumption DEF NewRequest, NoRequest
<1>3. requests' = [requests EXCEPT ![r] = NewRequest(u, kind)]
  BY DEF Fetch
<1>4. requests' \in [Slots -> Request \cup {NoRequest}] /\ requests'[r] = NewRequest(u, kind)
      /\ \A q \in Slots : q # r => requests'[q] = requests[q]
  BY <1>1, <1>3 DEF ClientType
<1>5. Live' = Live \cup {r}
  BY <1>2, <1>4 DEF Live
<1>6. r \notin Live /\ controllers' = controllers \cup {r}
  BY DEF Fetch
<1> QED
  BY <1>4, <1>5, <1>6 DEF NewRequest

\* The head of an answer changes nothing but the body of its request.
LEMMA HeadEffect ==
  ASSUME ClientType, NEW r \in Slots, HeadArrives(r)
  PROVE  /\ requests' \in [Slots -> Request \cup {NoRequest}]
         /\ Live' = Live
         /\ \A q \in Slots : requests'[q].url = requests[q].url
         /\ \A q \in Live : /\ requests'[q].kind = requests[q].kind
                            /\ requests'[q].gen = requests[q].gen
                            /\ requests'[q].epoch = requests[q].epoch
                            /\ requests'[q].callers = requests[q].callers
<1>1. PICK type \in {"json", "text"} : requests' = [requests EXCEPT ![r].body = type]
  BY DEF HeadArrives
<1>2. r \in Live /\ requests[r] \in Request
  BY LiveIsRequest DEF HeadArrives
<1> DEFINE q0 == [requests[r] EXCEPT !.body = type]
<1>3. /\ q0 \in Request /\ q0.url = requests[r].url /\ q0.kind = requests[r].kind
      /\ q0.gen = requests[r].gen /\ q0.epoch = requests[r].epoch
      /\ q0.callers = requests[r].callers
  BY <1>2 DEF Request
<1>4. q0 # NoRequest
  BY <1>3, SessionAssumption DEF Request, NoRequest
<1>5. requests' = [requests EXCEPT ![r] = q0]
  BY <1>1
<1> HIDE DEF q0
<1>6. Live' = Live
  BY <1>2, <1>4, <1>5 DEF ClientType, Live
<1> QED
  BY <1>2, <1>3, <1>5, <1>6 DEF ClientType, Live

\* A settled request is gone, from the in-flight table and the controllers too.
LEMMA SettleEffect ==
  ASSUME ClientType, NEW r \in Slots, r \in Live, Settle(r)
  PROVE  /\ Live' = Live \ {r}
         /\ controllers' = controllers \ {r} /\ prefetching' = prefetching \ {r}
         /\ \A q \in Slots : q # r => requests'[q] = requests[q]
         /\ \A u \in Urls : inflight'[u] \in {inflight[u], NoSlot}
         /\ requests[r].kind # "post" => inflight'[requests[r].url] = NoSlot
         /\ prefetchKey' \in {prefetchKey, NoUrl}
         /\ r \in prefetching /\ prefetchKey = requests[r].url => prefetchKey' = NoUrl
<1>1. requests[r].url \in Urls
  BY LiveIsRequest DEF Request
<1>2. Live' = Live \ {r} /\ \A q \in Slots : q # r => requests'[q] = requests[q]
  BY DEF Settle, Live, ClientType
<1>3. /\ \A u \in Urls : inflight'[u] \in {inflight[u], NoSlot}
      /\ requests[r].kind # "post" => inflight'[requests[r].url] = NoSlot
  BY <1>1 DEF Settle, ClientType
<1> QED
  BY <1>2, <1>3 DEF Settle

-----------------------------------------------------------------------------
\* Sending a request preserves the client's invariant, with or without a
\* prefetch that waits for it.
LEMMA FetchStep ==
  ASSUME ClientInv, NEW r \in Slots, NEW u \in Urls, NEW kind \in {"get", "cached", "post"},
         Fetch(r, u, kind),
         \/ kind = "post" /\ inflight' = inflight
         \/ kind # "post" /\ inflight' = [inflight EXCEPT ![u] = r],
         \/ UNCHANGED <<prefetchKey, prefetching>>
         \/ prefetchKey' = u /\ prefetching' = prefetching \cup {r},
         UNCHANGED <<apiGeneration, responseCache, resetVars>>
  PROVE  ClientInv'
<1> USE DEF ClientInv
<1>1. /\ r \notin Live
      /\ requests' \in [Slots -> Request \cup {NoRequest}]
      /\ Live' = Live \cup {r}
      /\ controllers' = controllers \cup {r}
      /\ \A q \in Slots : q # r => requests'[q] = requests[q]
      /\ requests'[r].url = u /\ requests'[r].kind = kind
      /\ requests'[r].gen = apiGeneration
      /\ requests'[r].epoch = epoch /\ requests'[r].callers = {epoch}
  BY FetchEffect
<1>2. \A q \in Live : q # r /\ q \in Slots /\ requests'[q] = requests[q]
  BY <1>1 DEF Live
<1>3. ClientType'
  BY <1>1 DEF ClientType, resetVars
<1>4. GenerationsAreFresh'
  BY <1>1, <1>2 DEF GenerationsAreFresh, Draining, resetVars, ClientType
<1>5. InflightIsCurrent'
  BY <1>1, <1>2 DEF InflightIsCurrent, resetVars, ClientType
<1>6. AnswersAreCurrent'
  BY <1>1, <1>2 DEF AnswersAreCurrent, resetVars
<1>7. ResetReachesAll'
  BY <1>1, <1>2 DEF ResetReachesAll, resetVars
<1>8. PrefetchIsLive'
  BY <1>1, <1>2 DEF PrefetchIsLive
<1> QED
  BY <1>3, <1>4, <1>5, <1>6, <1>7, <1>8

\* Joining a request preserves it: the request is of the current session.
LEMMA CoalesceStep ==
  ASSUME ClientInv, NEW u \in Urls, Coalesce(u),
         \/ UNCHANGED <<prefetchKey, prefetching>>
         \/ prefetchKey' = u /\ prefetching' = prefetching \cup {inflight[u]},
         UNCHANGED <<apiGeneration, responseCache, resetVars>>
  PROVE  ClientInv'
<1> USE DEF ClientInv
<1> DEFINE s == inflight[u]
<1>1. /\ s \in Live
      /\ requests' \in [Slots -> Request \cup {NoRequest}]
      /\ \A r \in Slots : /\ requests'[r] # NoRequest <=> requests[r] # NoRequest
                          /\ requests'[r].url = requests[r].url
      /\ \A r \in Live : /\ requests'[r].kind = requests[r].kind
                         /\ requests'[r].gen = requests[r].gen
                         /\ requests'[r].epoch = requests[r].epoch
      /\ \A r \in Slots : r # s => requests'[r] = requests[r]
      /\ requests'[s].callers = requests[s].callers \cup {epoch}
  BY CoalesceEffect
<1>2. Live' = Live /\ Live \subseteq Slots
  BY <1>1 DEF Live
<1>3. inflight' = inflight /\ controllers' = controllers /\ s # NoSlot
  BY DEF Coalesce
<1>4. requests[s].url = u /\ requests[s].epoch = epoch /\ requests[s].callers = {epoch}
  BY <1>1, <1>3 DEF InflightIsCurrent, AnswersAreCurrent
<1> HIDE DEF s
<1>5. ClientType'
  BY <1>1, <1>2, <1>3 DEF ClientType, resetVars, s
<1>6. GenerationsAreFresh'
  BY <1>1, <1>2 DEF GenerationsAreFresh, Draining, resetVars
<1>7. InflightIsCurrent'
  BY <1>1, <1>2, <1>3 DEF InflightIsCurrent, resetVars
<1>8. AnswersAreCurrent'
  <2>1. \A r \in Live : requests'[r].callers = {requests'[r].epoch}
    BY <1>1, <1>2, <1>4 DEF AnswersAreCurrent
  <2> QED
    BY <1>2, <2>1 DEF AnswersAreCurrent, resetVars
<1>9. ResetReachesAll'
  BY <1>1, <1>2, <1>3 DEF ResetReachesAll, resetVars
<1>10. PrefetchIsLive'
  BY <1>1, <1>2, <1>4 DEF PrefetchIsLive, s
<1> QED
  BY <1>5, <1>6, <1>7, <1>8, <1>9, <1>10

\* Settling a request preserves it.  What the answer leaves in the cache is text,
\* or of the current session because the request's generation is the client's.
LEMMA SettleStep ==
  ASSUME ClientInv, NEW r \in Slots, r \in Live, Settle(r),
         \/ UNCHANGED responseCache
         \/ /\ responseCache' = Cached(r)
            /\ requests[r].body = "text" \/ (requests[r].body = "json" /\ SameSession(r)),
         UNCHANGED resetVars
  PROVE  ClientInv'
<1> USE DEF ClientInv
<1>1. /\ Live' = Live \ {r}
      /\ controllers' = controllers \ {r} /\ prefetching' = prefetching \ {r}
      /\ \A q \in Slots : q # r => requests'[q] = requests[q]
      /\ \A u \in Urls : inflight'[u] \in {inflight[u], NoSlot}
      /\ requests[r].kind # "post" => inflight'[requests[r].url] = NoSlot
      /\ prefetchKey' \in {prefetchKey, NoUrl}
      /\ r \in prefetching /\ prefetchKey = requests[r].url => prefetchKey' = NoUrl
  BY SettleEffect
<1>2. \A q \in Live' : q # r /\ q \in Live /\ q \in Slots /\ requests'[q] = requests[q]
  BY <1>1 DEF Live
<1>3. ClientType'
  BY SettleType, CachedType DEF ClientType, resetVars
<1>4. apiGeneration' = apiGeneration
  BY SettleType
<1>5. GenerationsAreFresh'
  BY <1>2, <1>4 DEF GenerationsAreFresh, Draining, resetVars
<1>6. InflightIsCurrent'
  BY <1>1, <1>2 DEF InflightIsCurrent, resetVars
<1>7. AnswersAreCurrent'
  <2>1. \A u \in Urls : responseCache'[u].type = "json" => responseCache'[u].epoch = epoch
    <3>1. CASE responseCache' = responseCache
      BY <3>1 DEF AnswersAreCurrent
    <3>2. CASE /\ responseCache' = Cached(r)
               /\ requests[r].body = "text" \/ (requests[r].body = "json" /\ SameSession(r))
      <4>1. requests[r].body = "json" => requests[r].epoch = epoch
        BY <3>2 DEF SameSession, GenerationsAreFresh
      <4>2. requests[r].url \in Urls
        BY LiveIsRequest DEF Request
      <4> QED
        BY <3>2, <4>1, <4>2 DEF Cached, AnswersAreCurrent, ClientType
    <3> QED
      BY <3>1, <3>2
  <2> QED
    BY <1>2, <2>1 DEF AnswersAreCurrent, resetVars
<1>8. ResetReachesAll'
  BY <1>1, <1>2 DEF ResetReachesAll, resetVars
<1>9. PrefetchIsLive'
  BY <1>1, <1>2 DEF PrefetchIsLive, Live
<1> QED
  BY <1>3, <1>5, <1>6, <1>7, <1>8, <1>9

-----------------------------------------------------------------------------
\* A reset that starts takes a generation nothing carries yet.
LEMMA StartStep ==
  ASSUME ClientInv, NEW x \in Resets, NEW lockOnly \in BOOLEAN, Start(x, lockOnly),
         UNCHANGED apiVars
  PROVE  ClientInv'
<1> USE DEF ClientInv
<1> DEFINE new == [stage |-> "draining", gen |-> generation + 1, on |-> NoReset,
                   lockOnly |-> lockOnly]
<1>1. /\ generation' = generation + 1 /\ generation < MaxGen /\ epoch' = epoch
      /\ resets' = [resets EXCEPT ![x] = new] /\ resetInFlight' = x
  BY DEF Start, NextGeneration
<1>2. new \in Reset /\ new.gen = generation + 1
  BY <1>1, SessionAssumption DEF Reset, ClientType
<1> HIDE DEF new
<1>3. resets'[x].gen = generation + 1
      /\ \A y \in Resets : y # x => resets'[y] = resets[y]
  BY <1>1, <1>2 DEF ClientType
<1>4. Live' = Live /\ requests' = requests /\ apiGeneration' = apiGeneration
  BY DEF Live, apiVars
<1>5. ClientType'
  BY <1>1, <1>2, SessionAssumption DEF ClientType, apiVars
<1>6. \A r \in Live : requests[r].gen \in Nat
  BY LiveIsRequest DEF Request, Live
<1>7. GenerationsAreFresh'
  <2>1. /\ apiGeneration \in Nat /\ generation \in Nat
        /\ \A y \in Resets : resets[y].gen \in Nat
    BY DEF ClientType, Reset
  <2>2. /\ apiGeneration' <= generation'
        /\ \A r \in Live : requests[r].gen <= generation'
    BY <1>1, <1>4, <1>6, <2>1 DEF GenerationsAreFresh
  <2>3. \A y \in Resets : Draining(y)' => /\ resets'[y].gen <= generation'
                                          /\ resets'[y].gen # apiGeneration
    BY <1>1, <1>3, <2>1 DEF GenerationsAreFresh, Draining
  <2>4. \A y \in Resets, r \in Live : Draining(y)' => requests[r].gen # resets'[y].gen
    BY <1>3, <1>6, <2>1 DEF GenerationsAreFresh, Draining
  <2>5. \A y, z \in Resets : Draining(y)' /\ Draining(z)' /\ y # z
                               => resets'[y].gen # resets'[z].gen
    BY <1>3, <2>1 DEF GenerationsAreFresh, Draining
  <2> QED
    BY <1>1, <1>4, <2>2, <2>3, <2>4, <2>5 DEF GenerationsAreFresh
<1>8. (InflightIsCurrent /\ AnswersAreCurrent /\ ResetReachesAll /\ PrefetchIsLive)'
  BY <1>1, <1>4 DEF InflightIsCurrent, AnswersAreCurrent, ResetReachesAll, PrefetchIsLive,
                    apiVars
<1> QED
  BY <1>5, <1>7, <1>8

\* A reset that is asked for starts, or waits and leaves the client as it is.
LEMMA BeginResetStep ==
  ASSUME ClientInv, NEW x \in Resets, NEW lockOnly \in BOOLEAN, BeginReset(x, lockOnly),
         UNCHANGED apiVars
  PROVE  ClientInv'
<1> USE DEF ClientInv
<1>1. CASE resetInFlight = NoReset
  BY <1>1, StartStep DEF BeginReset
<1>2. CASE resetInFlight # NoReset
  <2> DEFINE new == [stage |-> "waiting", gen |-> 0, on |-> resetInFlight,
                     lockOnly |-> lockOnly]
  <2>1. resets' = [resets EXCEPT ![x] = new] /\ UNCHANGED <<generation, resetInFlight, epoch>>
    BY <1>2 DEF BeginReset
  <2>2. new \in Reset /\ new.stage = "waiting"
    BY SessionAssumption DEF Reset, ClientType
  <2> HIDE DEF new
  <2>3. /\ resets'[x].stage = "waiting"
        /\ \A y \in Resets : y # x => resets'[y] = resets[y]
    BY <2>1, <2>2 DEF ClientType
  <2>4. Live' = Live
    BY DEF Live, apiVars
  <2>5. ClientType'
    BY <2>1, <2>2 DEF ClientType, apiVars
  <2>6. GenerationsAreFresh'
    BY <2>1, <2>3, <2>4 DEF GenerationsAreFresh, Draining, apiVars
  <2>7. (InflightIsCurrent /\ AnswersAreCurrent /\ ResetReachesAll /\ PrefetchIsLive)'
    BY <2>1, <2>4 DEF InflightIsCurrent, AnswersAreCurrent, ResetReachesAll, PrefetchIsLive,
                      apiVars
  <2> QED
    BY <2>5, <2>6, <2>7
<1> QED
  BY <1>1, <1>2

\* What the resets are once x is done.
LEMMA AfterResetEffect ==
  ASSUME ClientType, NEW x \in Resets
  PROVE  /\ AfterReset(x) \in [Resets -> Reset]
         /\ AfterReset(x)[x].stage = "idle"
         /\ \A y \in Resets : \/ AfterReset(x)[y].stage \in {"idle", "woken"}
                              \/ y # x /\ AfterReset(x)[y] = resets[y]
         /\ \A y \in Resets : AfterReset(x)[y].stage = "waiting" =>
                y # x /\ AfterReset(x)[y] = resets[y] /\ resets[y].on # x
<1>1. Idle \in Reset /\ Idle.stage = "idle"
  BY SessionAssumption DEF Idle, Reset
<1>2. \A y \in Resets : resets[y] \in Reset /\ resets[y].lockOnly \in BOOLEAN
  BY DEF ClientType, Reset
<1>3. \A b \in BOOLEAN : [stage |-> "woken", gen |-> 0, on |-> NoReset, lockOnly |-> b] \in Reset
  BY SessionAssumption DEF Reset
<1>4. AfterReset(x) \in [Resets -> Reset]
  BY <1>1, <1>2, <1>3 DEF AfterReset
<1>5. AfterReset(x)[x].stage = "idle"
  BY <1>1 DEF AfterReset
<1>6. ASSUME NEW y \in Resets, y # x
      PROVE  /\ \/ AfterReset(x)[y].stage = "woken"
                \/ AfterReset(x)[y] = resets[y]
             /\ AfterReset(x)[y].stage = "waiting" => resets[y].on # x
  BY <1>6 DEF AfterReset
<1>7. ASSUME NEW y \in Resets, AfterReset(x)[y].stage = "waiting"
      PROVE  y # x /\ AfterReset(x)[y] = resets[y] /\ resets[y].on # x
  <2>1. y # x
    BY <1>5, <1>7
  <2> QED
    BY <1>6, <1>7, <2>1
<1> QED
  BY <1>4, <1>5, <1>6, <1>7

\* The end of a reset gives the client a generation no request carries, whatever
\* the order in which overlapping resets end.
LEMMA FinishResetStep ==
  ASSUME ClientInv, NEW x \in Resets, FinishReset(x)
  PROVE  ClientInv'
<1> USE DEF ClientInv
<1>1. /\ apiGeneration' = resets[x].gen /\ controllers' = {}
      /\ responseCache' = [u \in Urls |-> NoAnswer]
      /\ inflight' = [u \in Urls |-> NoSlot] /\ prefetchKey' = NoUrl
      /\ requests' = requests /\ prefetching' = prefetching
  BY DEF FinishReset, ResetApiSession
<1>2. /\ Draining(x) /\ resets' = AfterReset(x) /\ resetInFlight' = NoReset
      /\ epoch' = epoch + 1 /\ generation' = generation
  BY DEF FinishReset, Draining
<1>3. Live' = Live
  BY <1>1 DEF Live
<1>4. \A y \in Resets : Draining(y)' => y # x /\ Draining(y) /\ resets'[y] = resets[y]
  BY <1>2, AfterResetEffect DEF Draining
<1>5. \A r \in Live : requests[r].epoch \in Nat
  BY LiveIsRequest DEF Request, Live
<1>6. epoch \in Nat
  BY DEF ClientType
<1>7. ClientType'
  <2>1. resets[x].gen \in 0..MaxGen
    BY DEF ClientType, Reset
  <2>2. resets' \in [Resets -> Reset]
    BY <1>2, AfterResetEffect
  <2>3. responseCache' \in [Urls -> [type : {"none", "json", "text"}, epoch : Nat]]
    BY <1>1 DEF NoAnswer
  <2> QED
    BY <1>1, <1>2, <2>1, <2>2, <2>3 DEF ClientType
<1>8. GenerationsAreFresh'
  <2>1. /\ resets[x].gen <= generation
        /\ \A r \in Live : /\ requests[r].gen # resets[x].gen
                           /\ requests[r].gen <= generation /\ requests[r].epoch <= epoch + 1
    BY <1>2, <1>5, <1>6 DEF GenerationsAreFresh
  <2>2. \A y \in Resets : Draining(y)' =>
           /\ resets'[y].gen <= generation /\ resets'[y].gen # resets[x].gen
           /\ \A r \in Live : requests[r].gen # resets'[y].gen
    BY <1>2, <1>4 DEF GenerationsAreFresh
  <2>3. \A y, z \in Resets : Draining(y)' /\ Draining(z)' /\ y # z
                               => resets'[y].gen # resets'[z].gen
    BY <1>4 DEF GenerationsAreFresh
  <2> QED
    BY <1>1, <1>2, <1>3, <2>1, <2>2, <2>3 DEF GenerationsAreFresh
<1>9. (InflightIsCurrent /\ PrefetchIsLive)'
  BY <1>1 DEF InflightIsCurrent, PrefetchIsLive
<1>10. AnswersAreCurrent'
  BY <1>1, <1>3 DEF AnswersAreCurrent, NoAnswer
<1>11. ResetReachesAll'
  BY <1>1, <1>2, <1>3, <1>5, <1>6 DEF ResetReachesAll, GenerationsAreFresh
<1> QED
  BY <1>7, <1>8, <1>9, <1>10, <1>11

\* A page that is loaded anew starts over.
LEMMA FreshPageInv == FreshPage => ClientInv
<1> SUFFICES ASSUME FreshPage PROVE ClientInv
  OBVIOUS
<1> USE DEF FreshPage
<1>1. Live = {} BY DEF Live
<1>2. \A x \in Resets : resets[x].stage = "idle"
  BY DEF Idle
<1>3. ClientType
  <2>1. Idle \in Reset
    BY SessionAssumption DEF Idle, Reset
  <2>2. NoAnswer \in [type : {"none", "json", "text"}, epoch : Nat]
    BY DEF NoAnswer
  <2> QED
    BY <2>1, <2>2, SessionAssumption DEF ClientType
<1>4. GenerationsAreFresh
  BY <1>1, <1>2 DEF GenerationsAreFresh, Draining
<1>5. InflightIsCurrent /\ ResetReachesAll /\ PrefetchIsLive
  BY <1>1 DEF InflightIsCurrent, ResetReachesAll, PrefetchIsLive
<1>6. AnswersAreCurrent
  BY <1>1 DEF AnswersAreCurrent, NoAnswer
<1> QED
  BY <1>3, <1>4, <1>5, <1>6 DEF ClientInv

\* Every step preserves the client's invariant.
LEMMA ClientStep == ClientInv /\ [Next]_vars => ClientInv'
<1> SUFFICES ASSUME ClientInv, [Next]_vars PROVE ClientInv'
  OBVIOUS
<1>1. ASSUME UNCHANGED <<apiVars, resetVars>> PROVE ClientInv'
  BY <1>1 DEF ClientInv, ClientType, GenerationsAreFresh, InflightIsCurrent, AnswersAreCurrent,
      ResetReachesAll, PrefetchIsLive, Draining, Live, apiVars, resetVars
<1>2. ASSUME NEW u \in Urls, Get(u) PROVE ClientInv'
  <2>1. CASE Coalesce(u)
    BY <1>2, <2>1, CoalesceStep DEF Get
  <2>2. ASSUME NEW r \in Slots, GetNew(r, u, "get") PROVE ClientInv'
    BY <1>2, <2>2, FetchStep DEF Get, GetNew
  <2> QED
    BY <1>2, <2>1, <2>2 DEF Get
<1>3. ASSUME NEW u \in Urls, Post(u) PROVE ClientInv'
  BY <1>3, FetchStep DEF Post
<1>4. ASSUME NEW u \in Urls, Prefetch(u) PROVE ClientInv'
  <2>1. CASE prefetchKey' = NoUrl /\ UNCHANGED <<inflight, requests, controllers, prefetching>>
    <3>1. Live' = Live /\ UNCHANGED <<apiGeneration, responseCache, resetVars>>
      BY <1>4, <2>1 DEF Live, Prefetch
    <3>2. ClientType' /\ PrefetchIsLive'
      BY <2>1, <3>1 DEF ClientInv, ClientType, PrefetchIsLive, resetVars
    <3>3. GenerationsAreFresh'
      BY <2>1, <3>1 DEF ClientInv, GenerationsAreFresh, Draining, resetVars
    <3>4. (InflightIsCurrent /\ AnswersAreCurrent /\ ResetReachesAll)'
      BY <2>1, <3>1 DEF ClientInv, InflightIsCurrent, AnswersAreCurrent, ResetReachesAll,
                        resetVars
    <3> QED BY <3>2, <3>3, <3>4 DEF ClientInv
  <2>2. CASE Coalesce(u) /\ prefetchKey' = u /\ prefetching' = prefetching \cup {inflight[u]}
    BY <1>4, <2>2, CoalesceStep DEF Prefetch
  <2>3. ASSUME NEW r \in Slots, GetNew(r, u, "cached"), prefetchKey' = u,
               prefetching' = prefetching \cup {r}
        PROVE  ClientInv'
    BY <1>4, <2>3, FetchStep DEF Prefetch, GetNew
  <2> QED
    BY <1>4, <2>1, <2>2, <2>3 DEF Prefetch
<1>5. ASSUME NEW u \in Urls, DropCached(u) PROVE ClientInv'
  <2>1. NoAnswer \in [type : {"none", "json", "text"}, epoch : Nat] /\ NoAnswer.type = "none"
    BY DEF NoAnswer
  <2>2. /\ responseCache' = [responseCache EXCEPT ![u] = NoAnswer]
        /\ Live' = Live
        /\ UNCHANGED <<apiGeneration, inflight, prefetchKey, requests, controllers,
                       prefetching, resetVars>>
    BY <1>5 DEF DropCached, Live
  <2>3. ClientType' /\ AnswersAreCurrent'
    BY <2>1, <2>2 DEF ClientInv, ClientType, AnswersAreCurrent, resetVars
  <2>4. GenerationsAreFresh'
    BY <2>2 DEF ClientInv, GenerationsAreFresh, Draining, resetVars
  <2>5. (InflightIsCurrent /\ ResetReachesAll /\ PrefetchIsLive)'
    BY <2>2 DEF ClientInv, InflightIsCurrent, ResetReachesAll, PrefetchIsLive, resetVars
  <2> QED BY <2>3, <2>4, <2>5 DEF ClientInv
<1>6. ASSUME NEW r \in Slots, HeadArrives(r) PROVE ClientInv'
  <2>1. /\ requests' \in [Slots -> Request \cup {NoRequest}]
        /\ Live' = Live
        /\ \A q \in Slots : requests'[q].url = requests[q].url
        /\ \A q \in Live : /\ requests'[q].kind = requests[q].kind
                           /\ requests'[q].gen = requests[q].gen
                           /\ requests'[q].epoch = requests[q].epoch
                           /\ requests'[q].callers = requests[q].callers
    BY <1>6, HeadEffect DEF ClientInv
  <2>2. UNCHANGED <<apiGeneration, responseCache, inflight, prefetchKey, controllers,
                    prefetching, resetVars>>
    BY <1>6 DEF HeadArrives
  <2>3. Live \subseteq Slots
    BY DEF Live
  <2>4. ClientType'
    BY <2>1, <2>2 DEF ClientInv, ClientType, resetVars
  <2>5. GenerationsAreFresh'
    <3>1. \A r1 \in Live' : /\ r1 \in Live
                            /\ requests'[r1].gen = requests[r1].gen
                            /\ requests'[r1].epoch = requests[r1].epoch
      BY <2>1
    <3>2. /\ generation' = generation /\ apiGeneration' = apiGeneration
          /\ resets' = resets /\ epoch' = epoch
      BY <2>2 DEF resetVars
    <3>3. \A x \in Resets : Draining(x)' => Draining(x)
      BY <3>2 DEF Draining
    <3> QED
      BY <3>1, <3>2, <3>3 DEF ClientInv, GenerationsAreFresh
  <2>6. InflightIsCurrent' /\ ResetReachesAll'
    BY <2>1, <2>2, <2>3 DEF ClientInv, InflightIsCurrent, ResetReachesAll, resetVars
  <2>7. AnswersAreCurrent' /\ PrefetchIsLive'
    BY <2>1, <2>2, <2>3 DEF ClientInv, AnswersAreCurrent, PrefetchIsLive, resetVars
  <2> QED
    BY <2>4, <2>5, <2>6, <2>7 DEF ClientInv
<1>7. ASSUME NEW r \in Slots, JsonArrives(r) \/ TextArrives(r) \/ Rejects(r) PROVE ClientInv'
  BY <1>7, SettleStep DEF JsonArrives, TextArrives, Rejects
<1>8. ASSUME SignOut \/ CrossTabReset PROVE ClientInv'
  BY <1>8, BeginResetStep DEF SignOut, CrossTabReset
<1>9. ASSUME NEW x \in Resets, WakeReset(x) PROVE ClientInv'
  <2>1. resets[x].lockOnly \in BOOLEAN
    BY DEF ClientInv, ClientType, Reset
  <2> QED
    BY <1>9, <2>1, StartStep DEF WakeReset
<1>10. ASSUME NEW x \in Resets, FinishReset(x) PROVE ClientInv'
  BY <1>10, FinishResetStep
<1>11. ASSUME Reload PROVE ClientInv'
  <2>1. FreshPage'
    BY <1>11 DEF Reload, FreshPage
  <2> QED
    BY <2>1, FreshPageInv, PTL
<1>12. CASE \/ \E a \in Accounts, deducts \in BOOLEAN : AdjustBalance(a, deducts)
            \/ HoldExpires \/ FallbackLogin \/ VaultUnlocked \/ StoreIdentity
            \/ OtherTabClears \/ OtherTabStashes \/ OtherTabUnlocks \/ OtherTabSyncs
            \/ \E a \in Accounts : SignIn(a) \/ OtherTabSignsIn(a)
            \/ UNCHANGED vars
  <2>1. UNCHANGED <<apiVars, resetVars>>
    BY <1>12 DEF AdjustBalance, HoldExpires, FallbackLogin, VaultUnlocked, StoreIdentity,
        OtherTabClears, OtherTabStashes, OtherTabUnlocks, OtherTabSyncs, SignIn,
        OtherTabSignsIn, vars
  <2> QED BY <1>1, <2>1
<1> QED
  BY <1>2, <1>3, <1>4, <1>5, <1>6, <1>7, <1>8, <1>9, <1>10, <1>11, <1>12 DEF Next

-----------------------------------------------------------------------------
\* A balance from the server is stored for the account signed in, for one the
\* storage does not contradict, or as mixed.
LEMMA StoreStep ==
  ASSUME StorageInv, NEW o \in Accounts \cup {NoOne, Mixed}, Store(o),
         o \in {publicKey, Mixed} \/ ~NamesAnother(o),
         UNCHANGED <<publicKey, vaultOwner, viewer, signal>>
  PROVE  StorageInv'
<1> USE DEF StorageInv, StorageType, BalanceIsOwners, StashIsOwners, HeldBalanceStands
<1>1. PICK w \in {o, Mixed} : /\ balance' = [owner |-> w, synced |-> TRUE]
                              /\ balance.owner = Mixed => w = Mixed
  BY DEF Store
<1>2. /\ balance' \in [owner : Accounts \cup {NoOne, Mixed}, synced : BOOLEAN]
      /\ balance'.owner = w /\ hold' = FALSE
  BY <1>1 DEF Store
<1>3. w = Mixed \/ w = publicKey \/ (publicKey \in {w, NoOne} /\ vaultOwner \in {w, NoOne})
  BY <1>1 DEF NamesAnother
<1> QED BY <1>1, <1>2, <1>3, SessionAssumption

\* Every step preserves the invariant of the storage.
LEMMA StorageStep == ClientType /\ StorageInv /\ [Next]_vars => StorageInv'
<1> SUFFICES ASSUME ClientType, StorageInv, [Next]_vars PROVE StorageInv'
  OBVIOUS
<1> USE DEF StorageInv, StorageType, BalanceIsOwners, StashIsOwners, HeldBalanceStands
<1>1. ASSUME UNCHANGED <<storage, tab>> PROVE StorageInv'
  BY <1>1 DEF storage, tab
<1>2. ASSUME UNCHANGED storage, signal' = FALSE, viewer' = NoOne PROVE StorageInv'
  BY <1>2 DEF storage
<1>3. Absent \in [owner : Accounts \cup {NoOne, Mixed}, synced : BOOLEAN]
      /\ Absent.owner = NoOne /\ Absent.synced = FALSE
  BY DEF Absent
<1>4. CASE \/ \E u \in Urls : Get(u) \/ Post(u) \/ Prefetch(u) \/ DropCached(u)
           \/ \E r \in Slots : HeadArrives(r) \/ TextArrives(r) \/ Rejects(r)
           \/ SignOut \/ \E x \in Resets : WakeReset(x)
           \/ UNCHANGED vars
  <2>1. UNCHANGED <<storage, tab>>
    BY <1>4 DEF Get, Post, Prefetch, DropCached, HeadArrives, TextArrives, Rejects, SignOut,
        WakeReset, vars
  <2> QED BY <1>1, <2>1
<1>5. CASE CrossTabReset
  BY <1>2, <1>5 DEF CrossTabReset
<1>6. ASSUME NEW a \in Accounts \cup {NoOne}, NEW above \in BOOLEAN, SyncBalance(a, above),
             UNCHANGED <<publicKey, vaultOwner, viewer, signal>>
      PROVE  StorageInv'
  <2>1. CASE Store(a) /\ a = publicKey
    BY <1>6, <2>1, StoreStep
  <2>2. CASE UNCHANGED <<balance, hold>>
    BY <1>6, <2>2
  <2> QED BY <1>6, <2>1, <2>2 DEF SyncBalance, Own
<1>7. ASSUME NEW r \in Slots, JsonArrives(r) PROVE StorageInv'
  <2> DEFINE a == Address[requests[r].url]
  <2>1. UNCHANGED <<publicKey, vaultOwner, viewer, signal>>
    BY <1>7 DEF JsonArrives, tab
  <2>2. a \in Accounts
    BY <1>7, LiveIsRequest, SessionAssumption DEF JsonArrives, Request
  <2> HIDE DEF a
  <2>3. CASE UNCHANGED <<balance, hold>>
    BY <2>1, <2>3
  <2>4. ASSUME NEW above \in BOOLEAN, PersistUserBalance(a, above) PROVE StorageInv'
    <3>1. CASE NamesAnother(a) /\ Store(Mixed)
      BY <2>1, <3>1, StoreStep
    <3>2. CASE ~NamesAnother(a) /\ Store(a)
      BY <2>1, <2>2, <3>2, StoreStep
    <3> QED BY <2>3, <2>4, <3>1, <3>2 DEF PersistUserBalance
  <2> QED
    BY <1>6, <1>7, <2>1, <2>2, <2>3, <2>4 DEF JsonArrives, a
<1>8. ASSUME NEW a \in Accounts, NEW deducts \in BOOLEAN, AdjustBalance(a, deducts)
      PROVE  StorageInv'
  <2>1. UNCHANGED <<publicKey, vaultOwner, viewer, signal>> /\ hold' \in BOOLEAN
    BY <1>8 DEF AdjustBalance, tab
  <2>2. PICK o \in Accounts \cup {Mixed} :
           /\ balance' = [owner |-> o, synced |-> FALSE]
           /\ o = Mixed \/ (o = a /\ ~NamesAnother(a))
    BY <1>8 DEF AdjustBalance
  <2>3. /\ balance' \in [owner : Accounts \cup {NoOne, Mixed}, synced : BOOLEAN]
        /\ balance'.owner = o /\ balance'.synced = FALSE
    BY <2>2
  <2>4. ~NamesAnother(a) => publicKey \in {a, NoOne} /\ vaultOwner \in {a, NoOne}
    BY DEF NamesAnother
  <2> QED BY <2>1, <2>2, <2>3, <2>4
<1>9. CASE HoldExpires
  BY <1>9 DEF HoldExpires, tab
<1>10. ASSUME NEW x \in Resets, FinishReset(x) PROVE StorageInv'
  <2>1. viewer' \in {viewer, NoOne} /\ signal' = signal
    BY <1>10 DEF FinishReset
  <2>2. publicKey' = NoOne /\ vaultOwner' = NoOne /\ balance' = Absent /\ hold' = FALSE
    BY <1>10 DEF FinishReset, ClearStorage
  <2> QED BY <1>3, <2>1, <2>2
<1>11. ASSUME NEW a \in Accounts, SignIn(a) \/ OtherTabSignsIn(a) PROVE StorageInv'
  <2>1. /\ publicKey' = a /\ vaultOwner' = NoOne /\ balance' = Absent
        /\ hold' = hold /\ signal' = signal /\ viewer' \in {viewer, a}
    BY <1>11 DEF SignIn, OtherTabSignsIn, tab
  <2> QED BY <1>3, <2>1
<1>12. CASE FallbackLogin \/ VaultUnlocked
  BY <1>12 DEF FallbackLogin, VaultUnlocked, tab
<1>13. CASE OtherTabStashes \/ OtherTabUnlocks
  BY <1>13 DEF OtherTabStashes, OtherTabUnlocks, tab
<1>14. CASE OtherTabSyncs
  BY <1>6, <1>14 DEF OtherTabSyncs, tab
<1>15. CASE StoreIdentity
  <2>1. publicKey' = viewer /\ UNCHANGED <<vaultOwner, hold, viewer, signal>>
    BY <1>15 DEF StoreIdentity, tab
  <2>2. CASE balance' = [balance EXCEPT !.owner = Mixed]
    <3>1. /\ balance' \in [owner : Accounts \cup {NoOne, Mixed}, synced : BOOLEAN]
          /\ balance'.owner = Mixed /\ balance'.synced = balance.synced
      BY <2>2
    <3> QED BY <2>1, <3>1
  <2>3. CASE ~NamesAnother(viewer) /\ balance.owner \in {viewer, NoOne} /\ balance' = balance
    <3>1. vaultOwner \in {viewer, NoOne}
      BY <2>3 DEF NamesAnother
    <3> QED BY <2>1, <2>3, <3>1
  <2> QED BY <1>15, <2>2, <2>3 DEF StoreIdentity
<1>16. CASE OtherTabClears
  <2>1. publicKey' = NoOne /\ vaultOwner' = NoOne /\ balance' = Absent /\ hold' = FALSE
    BY <1>16 DEF OtherTabClears, ClearStorage
  <2> QED BY <1>3, <1>16, <2>1 DEF OtherTabClears
<1>17. CASE Reload
  BY <1>17 DEF Reload
<1> QED
  BY <1>4, <1>5, <1>7, <1>8, <1>9, <1>10, <1>11, <1>12, <1>13, <1>14, <1>15, <1>16, <1>17
  DEF Next

-----------------------------------------------------------------------------
\* The two invariants together are an invariant of the specification.
LEMMA Inductive == Spec => [](ClientInv /\ StorageInv)
<1> DEFINE Inv == ClientInv /\ StorageInv
<1>1. Init => Inv
  <2> SUFFICES ASSUME Init PROVE Inv
    OBVIOUS
  <2>1. FreshPage
    BY DEF Init, FreshPage
  <2>2. StorageInv
    BY DEF Init, StorageInv, StorageType, BalanceIsOwners, StashIsOwners, HeldBalanceStands,
        Absent
  <2> QED BY <2>1, <2>2, FreshPageInv
<1>2. Inv /\ [Next]_vars => Inv'
  <2>1. ClientInv => ClientType
    BY DEF ClientInv
  <2> QED BY <2>1, ClientStep, StorageStep
<1> QED BY <1>1, <1>2, PTL DEF Spec

\* The state of the client, of the resets and of the storage is well typed, and
\* no generation passes the bound (bumpGeneration).
THEOREM ClientTypeCorrect == Spec => []TypeOK
<1>1. ClientInv /\ StorageInv => TypeOK
  BY DEF ClientInv, ClientType, StorageInv, StorageType, TypeOK
<1> QED BY <1>1, Inductive, PTL

\* No JSON answer and no caller crosses a sign-out, however many requests and
\* resets overlap (the generation checks of api.js get and post).
THEOREM NoAnswerCrossesSignOut == Spec => []AnswersAreCurrent
<1>1. ClientInv => AnswersAreCurrent
  BY DEF ClientInv
<1> QED BY <1>1, Inductive, PTL

\* The controllers tracked are those of the session's live requests
\* (trackController, resetApiSession).
THEOREM ResetsReachAll == Spec => []ResetReachesAll
<1>1. ClientInv => ResetReachesAll
  BY DEF ClientInv
<1> QED BY <1>1, Inductive, PTL

\* A prefetch key always has a prefetch that will clear it (prefetch).
THEOREM PrefetchCannotWedge == Spec => []PrefetchIsLive
<1>1. ClientInv => PrefetchIsLive
  BY DEF ClientInv
<1> QED BY <1>1, Inductive, PTL

\* The balance in storage is the signed-in account's, as long as nothing that does
\* not look at who is signed in has mixed two accounts (maybeSyncBalance,
\* setCredentials, the stash of the unlock screen).
THEOREM BalanceStaysOwners == Spec => []BalanceIsOwners
<1>1. StorageInv => BalanceIsOwners
  BY DEF StorageInv
<1> QED BY <1>1, Inductive, PTL

\* No server answer replaces a deduction that is still held (maybeSyncBalance).
THEOREM HeldDeductionStands == Spec => []HeldBalanceStands
<1>1. StorageInv => HeldBalanceStands
  BY DEF StorageInv
<1> QED BY <1>1, Inductive, PTL
=============================================================================
