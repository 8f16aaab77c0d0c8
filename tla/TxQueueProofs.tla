--------------------------- MODULE TxQueueProofs ---------------------------
(***************************************************************************)
(* The inductive invariant of TxQueue, how the operations and the steps    *)
(* preserve it and do what the properties say, and the theorems about      *)
(* TxQueue, for any accounts, intents, numbers of live transactions and of *)
(* loops, generations, retries and balances.  The steps reason from the    *)
(* laws of sums, which SumProofs supplies in the end.                      *)
(***************************************************************************)
EXTENDS TxQueue, TLAPS

-----------------------------------------------------------------------------
(* The shape of the records.                                               *)

QueueFields == {"transactions", "isProcessing", "pending", "reserved", "activePowWorker",
                "loose", "slack", "entry", "loop"}
IsQueue(q) == q = [f \in QueueFields |-> q[f]]
IsEntry(e) == e = [f \in {"state", "intent", "owner", "gen"} |-> e[f]]
IsRun(r) == r = [f \in {"pc", "cur", "paid", "pow", "try", "key", "worker"} |-> r[f]]

States == {"none", "queued", "flight", "ok", "failed", "cancelled"}
Failures == {"failed", "cancelled"}
Outcomes == Failures \cup {"ok"}
Settled(outcome) == [NoEntry EXCEPT !.state = outcome]

EntryType(e) == IsEntry(e) /\ e.state \in States /\ (Live(e) => e.intent \in Intents)
RunType(r) == /\ IsRun(r) /\ r.pc \in PCs /\ r.try \in 0..MAX_POW_RETRIES
              /\ r.worker \in BOOLEAN /\ (r.worker => r.pc = "pow")

QueueType(q) ==
    /\ IsQueue(q)
    /\ q.transactions \in Seq(Txs) /\ q.isProcessing \in BOOLEAN
    /\ q.pending \subseteq STRING /\ q.reserved \in Nat
    /\ q.activePowWorker \in Loops \cup {NoLoop} /\ q.slack \in BOOLEAN
    /\ DOMAIN q.entry = Txs /\ q.entry = [t \in Txs |-> q.entry[t]]
    /\ \A t \in Txs : EntryType(q.entry[t])
    /\ q.loop = [l \in Loops |-> q.loop[l]]
    /\ \A l \in Loops : RunType(q.loop[l])

\* The queue's entries are the queued ones, each once.
Lined(q) ==
    /\ IsInjective(q.transactions)
    /\ \A t \in Txs : q.entry[t].state = "queued" <=> t \in Range(q.transactions)

Busy(q, l) == q.loop[l].pc # "idle"

\* An equality that names a term and is expanded only where it is cited.
Names(x, term) == x = term

\* Every entry in flight is held by one loop.  The loops of `out' have let go of
\* theirs.
Holding(q, out) ==
    /\ \A l \in Loops \ out : Busy(q, l) =>
          q.loop[l].cur \in Txs /\ q.entry[q.loop[l].cur].state = "flight"
    /\ \A l, m \in Loops \ out :
          Busy(q, l) /\ Busy(q, m) /\ q.loop[l].cur = q.loop[m].cur => l = m
    /\ \A t \in Txs : q.entry[t].state = "flight" =>
          \E l \in Loops \ out : Busy(q, l) /\ q.loop[l].cur = t

\* Past its pre-sign check a loop holds the key of the entry's owner.
Keyed(q, out) ==
    \A l \in Loops \ out : q.loop[l].pc \notin {"idle", "params"} =>
        q.loop[l].key = q.entry[q.loop[l].cur].owner

\* A pending mark has its entry, and a live entry its mark, unless loose.
Marks(q) ==
    /\ \A m \in q.pending :
        \/ \E t \in Txs : Live(q.entry[t]) /\ q.entry[t].intent.mark = m
        \/ \E i \in Intents : i.mark = m /\ i.entry = "raw"
    /\ \A t \in Txs : Live(q.entry[t]) =>
        q.entry[t].intent.mark \in q.pending \cup q.loose \cup {NoMark}
    /\ \A t, u \in Txs :
        /\ t # u /\ Live(q.entry[t]) /\ Live(q.entry[u])
        /\ q.entry[t].intent.mark = q.entry[u].intent.mark
        => q.entry[t].intent.mark \in q.loose \cup {NoMark}

\* What sums over the places and the least of a set of numbers satisfy.  The
\* queue is reasoned about from these laws alone; TxQueueProofs proves them.
Laws ==
    /\ \A f \in [Txs -> Nat] :
          /\ SumFunction(f) \in Nat
          /\ (\A t \in Txs : f[t] = 0) => SumFunction(f) = 0
    /\ \A f, g \in [Txs -> Nat] : \A t \in Txs :
          (\A u \in Txs : u # t => g[u] = f[u]) =>
             f[t] <= SumFunction(f) /\ SumFunction(g) = (SumFunction(f) - f[t]) + g[t]
    /\ \A S \in SUBSET Nat : S # {} => Min(S) \in S

\* ReservationsAddUp, of any queue.
Adds(q) ==
    /\ q.reserved <= SumFunction(Reserves(q))
    /\ ~q.slack => q.reserved = SumFunction(Reserves(q))

\* The inductive invariant, of a queue whose loops `out' are between two entries.
QueueInv(q, out) ==
    /\ QueueType(q) /\ Lined(q) /\ Holding(q, out) /\ Keyed(q, out)
    /\ Marks(q) /\ Adds(q) /\ Laws

\* What one step of the client may do to the entries: a live one fails or is
\* cancelled, a settled one stays as it is.
Keeps(q, r) ==
    \A t \in Txs :
        IF Live(q.entry[t]) THEN Live(r.entry[t]) \/ r.entry[t].state \in {"failed", "cancelled"}
        ELSE r.entry[t] = q.entry[t]

\* No loop but those of `out' starts to sign.
Quiet(q, r, out) ==
    \A l \in Loops \ out : r.loop[l].pc = "crypto" => r.loop[l] = q.loop[l]

\* No queued entry is cancelled.
Spares(q, r) ==
    \A t \in Txs : q.entry[t].state = "queued" => r.entry[t].state # "cancelled"

\* The entry t, which was in flight, has settled, and no other one.
SettlesOne(q, r, t, o) ==
    /\ t \in Txs /\ q.entry[t].state = "flight"
    /\ r.entry[t] = Settled(o) /\ \A u \in Txs : u # t => r.entry[u] = q.entry[u]
    /\ r.transactions = q.transactions /\ r.loop = q.loop

\* The queue was emptied around the entries in flight and the loops.
Drained(q, r) ==
    /\ \A t \in Txs : q.entry[t].state = "flight" => r.entry[t] = q.entry[t]
    /\ \A l \in Loops : /\ r.loop[l].pc = q.loop[l].pc /\ r.loop[l].cur = q.loop[l].cur
                        /\ r.loop[l].key = q.loop[l].key

\* The loop ended.
Ended(q, r, l) == r.entry = q.entry /\ r.loop[l].pc = "idle"

-----------------------------------------------------------------------------
(* What the operators do to each field.                                    *)

\* A settled entry is not live.
LEMMA SettledEntry ==
  ASSUME NEW o \in Outcomes
  PROVE  EntryType(Settled(o)) /\ Settled(o).state = o /\ ~Live(Settled(o))
<1>1. IsEntry(Settled(o)) /\ Settled(o).state = o
  BY Zenon DEF Settled, NoEntry, IsEntry
<1> QED
  BY <1>1 DEF EntryType, States, Live, Outcomes, Failures

\* An idle loop.
LEMMA IdleRun == RunType(NoRun) /\ NoRun.pc = "idle"
<1>1. IsRun(NoRun)
  BY Zenon DEF NoRun, IsRun
<1> QED
  BY <1>1, QueueAssumption DEF NoRun, RunType, PCs


-----------------------------------------------------------------------------
(* The operators preserve the invariant.                                   *)

\* A live entry's intent.
LEMMA IntentFields ==
  ASSUME NEW i \in Intents
  PROVE  i.mark \in STRING \cup {NoMark} /\ i.reserve \in Nat
  BY QueueAssumption DEF IntentType

\* What is reserved is a number.
LEMMA ReservesType ==
  ASSUME NEW q, QueueType(q)
  PROVE  /\ Reserves(q) \in [Txs -> Nat]
         /\ \A t \in Txs :
              Reserves(q)[t] = IF Live(q.entry[t]) THEN q.entry[t].intent.reserve ELSE 0
<1>1. ASSUME NEW t \in Txs, Live(q.entry[t])
      PROVE  q.entry[t].intent.reserve \in Nat
  BY <1>1, IntentFields DEF QueueType, EntryType
<1> QED
  BY <1>1 DEF Reserves

\* Where no live entry reserves anything, nothing is left to add up.
LEMMA NothingReserved ==
  ASSUME NEW q, QueueType(q), Laws,
         \A t \in Txs : Live(q.entry[t]) => ~(q.entry[t].intent.reserve > 0)
  PROVE  SumFunction(Reserves(q)) = 0
<1>1. ASSUME NEW t \in Txs
      PROVE  Reserves(q)[t] = 0
  <2>1. CASE Live(q.entry[t])
    <3>1. q.entry[t].intent.reserve \in Nat /\ ~(q.entry[t].intent.reserve > 0)
      BY <2>1, IntentFields DEF QueueType, EntryType
    <3>2. Reserves(q)[t] = q.entry[t].intent.reserve
      BY <2>1, ReservesType
    <3> QED
      BY <3>1, <3>2
  <2>2. CASE ~Live(q.entry[t])
    BY <2>2, ReservesType
  <2> QED
    BY <2>1, <2>2
<1> QED
  BY <1>1, ReservesType DEF Laws

\* What is reserved depends on the live entries only.
LEMMA ReservesSame ==
  ASSUME NEW q, NEW r,
         \A t \in Txs : /\ Live(r.entry[t]) <=> Live(q.entry[t])
                        /\ Live(q.entry[t]) => r.entry[t].intent = q.entry[t].intent
  PROVE  Reserves(r) = Reserves(q)
  BY Zenon DEF Reserves

\* entry._resolve of the entry a loop holds: the loop holds nothing any more.
LEMMA ResolveInv ==
  ASSUME NEW q, QueueInv(q, {}), NEW l \in Loops, Busy(q, l),
         NEW o \in Outcomes,
         NEW t, Names(t, q.loop[l].cur), NEW r, Names(r, Resolve(q, t, o))
  PROVE  /\ QueueInv(r, {l})
         /\ SettlesOne(q, r, t, o)
<1> DEFINE i == q.entry[t].intent
           rest == {q.entry[u].intent : u \in {v \in Txs : v # t /\ Live(q.entry[v])}}
<1>1. t \in Txs /\ q.entry[t].state = "flight" /\ i \in Intents
  BY DEF QueueInv, Holding, QueueType, EntryType, Live, Names
<1>2. /\ IsQueue(r) /\ r.transactions = q.transactions /\ r.isProcessing = q.isProcessing
      /\ r.pending = q.pending \ {i.mark}
      /\ r.reserved = IF q.reserved > i.reserve THEN q.reserved - i.reserve ELSE 0
      /\ r.activePowWorker = q.activePowWorker
      /\ r.loose = q.loose \cap {j.mark : j \in rest}
      /\ r.slack = (q.slack /\ \E j \in rest : j.reserve > 0)
      /\ r.entry = [q.entry EXCEPT ![t] = Settled(o)]
      /\ r.loop = q.loop
  <2>1. IsQueue(q)
    BY DEF QueueInv, QueueType
  <2> QED
    BY <2>1, Zenon DEF Resolve, IsQueue, QueueFields, Settled, Names
<1>3. /\ r.entry[t] = Settled(o)
      /\ \A u \in Txs : u # t => r.entry[u] = q.entry[u]
      /\ DOMAIN r.entry = Txs /\ r.entry = [u \in Txs |-> r.entry[u]]
  <2>1. DOMAIN q.entry = Txs
    BY DEF QueueInv, QueueType
  <2> QED
    BY <2>1, <1>1, <1>2, Zenon
<1>4. EntryType(r.entry[t]) /\ ~Live(r.entry[t]) /\ r.entry[t].state = o
  BY <1>3, SettledEntry
<1>5. QueueType(r)
  <2>1. r.reserved \in Nat
    <3>1. i.reserve \in Nat /\ q.reserved \in Nat
      BY <1>1, IntentFields DEF QueueInv, QueueType
    <3> HIDE DEF i
    <3> QED
      BY <3>1, <1>2
  <2>2. r.slack \in BOOLEAN
    BY <1>2, Zenon DEF QueueInv, QueueType
  <2>3. \A u \in Txs : EntryType(r.entry[u])
    BY <1>3, <1>4 DEF QueueInv, QueueType
  <2>4. /\ r.transactions \in Seq(Txs) /\ r.isProcessing \in BOOLEAN
        /\ r.pending \subseteq STRING /\ r.activePowWorker \in Loops \cup {NoLoop}
        /\ r.loop = [m \in Loops |-> r.loop[m]] /\ \A m \in Loops : RunType(r.loop[m])
    BY <1>2, Zenon DEF QueueInv, QueueType
  <2> QED
    BY <1>2, <1>3, <2>1, <2>2, <2>3, <2>4, Zenon DEF QueueType
<1>6. Lined(r)
  <2>1. \A u \in Txs : r.entry[u].state = "queued" <=> q.entry[u].state = "queued"
    BY <1>1, <1>3, <1>4 DEF Outcomes, Failures
  <2> QED
    BY <2>1, <1>2, Zenon DEF QueueInv, Lined
<1>7. Holding(r, {l})
  <2>1. /\ \A m \in Loops : Busy(r, m) <=> Busy(q, m)
        /\ \A u \in Txs : r.entry[u].state = "flight" <=> u # t /\ q.entry[u].state = "flight"
    <3>1. r.entry[t].state # "flight"
      BY <1>4 DEF Outcomes, Failures
    <3> QED
      BY <1>2, <1>3, <3>1, Zenon DEF Busy
  <2>2. Holding(q, {})
    BY DEF QueueInv
  <2>3. \A m \in Loops : Busy(q, m) /\ q.loop[m].cur = t => m = l
    BY <2>2 DEF Holding, Names
  <2>4. ASSUME NEW m \in Loops \ {l}, Busy(r, m)
        PROVE  r.loop[m].cur \in Txs /\ r.entry[r.loop[m].cur].state = "flight"
    <3>1. q.loop[m].cur \in Txs /\ q.entry[q.loop[m].cur].state = "flight"
      BY <2>1, <2>2, <2>4 DEF Holding
    <3> QED
      BY <3>1, <2>1, <2>3, <2>4, <1>2
  <2>5. ASSUME NEW m \in Loops \ {l}, NEW n \in Loops \ {l}, Busy(r, m), Busy(r, n),
               r.loop[m].cur = r.loop[n].cur
        PROVE  m = n
    BY <2>1, <2>2, <2>5, <1>2 DEF Holding
  <2>6. ASSUME NEW u \in Txs, r.entry[u].state = "flight"
        PROVE  \E m \in Loops \ {l} : Busy(r, m) /\ r.loop[m].cur = u
    <3>1. u # t /\ q.entry[u].state = "flight"
      BY <2>1, <2>6
    <3>2. PICK m \in Loops : Busy(q, m) /\ q.loop[m].cur = u
      BY <3>1, <2>2 DEF Holding
    <3>3. m # l
      BY <3>1, <3>2 DEF Names
    <3> QED
      BY <3>2, <3>3, <2>1, <1>2
  <2> QED
    BY <2>4, <2>5, <2>6, Zenon DEF Holding
<1>8. Keyed(r, {l})
  <2> SUFFICES ASSUME NEW m \in Loops \ {l}, r.loop[m].pc \notin {"idle", "params"}
               PROVE  r.loop[m].key = r.entry[r.loop[m].cur].owner
    BY Zenon DEF Keyed
  <2>1. Busy(q, m) /\ q.loop[m].key = q.entry[q.loop[m].cur].owner
    BY <1>2 DEF QueueInv, Keyed, Busy
  <2>2. q.loop[m].cur \in Txs /\ q.loop[m].cur # t
    BY <2>1 DEF QueueInv, Holding, Names
  <2> QED
    BY <2>1, <2>2, <1>2, <1>3
<1>9. Marks(r)
  <2>1. \A u \in Txs : Live(r.entry[u]) => u # t /\ Live(q.entry[u]) /\ r.entry[u] = q.entry[u]
    BY <1>3, <1>4
  <2>2. \A u \in Txs : u # t /\ Live(q.entry[u]) =>
          r.entry[u] = q.entry[u] /\ q.entry[u].intent.mark \in {j.mark : j \in rest}
    BY <1>3
  <2> HIDE DEF rest
  <2>3. ASSUME NEW m \in r.pending
        PROVE  \/ \E u \in Txs : Live(r.entry[u]) /\ r.entry[u].intent.mark = m
               \/ \E j \in Intents : j.mark = m /\ j.entry = "raw"
    <3>1. m \in q.pending /\ m # i.mark
      BY <1>2, <2>3
    <3>2. \/ \E u \in Txs : Live(q.entry[u]) /\ q.entry[u].intent.mark = m
          \/ \E j \in Intents : j.mark = m /\ j.entry = "raw"
      BY <3>1 DEF QueueInv, Marks
    <3> QED
      BY <3>1, <3>2, <2>2, Zenon
  <2>4. ASSUME NEW u \in Txs, Live(r.entry[u])
        PROVE  r.entry[u].intent.mark \in r.pending \cup r.loose \cup {NoMark}
    <3>1. u # t /\ Live(q.entry[u]) /\ r.entry[u] = q.entry[u]
      BY <2>1, <2>4
    <3>2. q.entry[u].intent.mark \in q.pending \cup q.loose \cup {NoMark}
      BY <3>1 DEF QueueInv, Marks
    <3>3. CASE q.entry[u].intent.mark = i.mark
      <4>1. Live(q.entry[t])
        BY <1>1 DEF Live
      <4>2. q.entry[u].intent.mark \in q.loose \cup {NoMark}
        BY <3>1, <3>3, <4>1, <1>1 DEF QueueInv, Marks
      <4> QED
        BY <4>2, <3>1, <2>2, <1>2
    <3>4. CASE q.entry[u].intent.mark # i.mark
      BY <3>1, <3>2, <3>4, <2>2, <1>2
    <3> QED
      BY <3>3, <3>4
  <2>5. ASSUME NEW u \in Txs, NEW v \in Txs, u # v, Live(r.entry[u]), Live(r.entry[v]),
               r.entry[u].intent.mark = r.entry[v].intent.mark
        PROVE  r.entry[u].intent.mark \in r.loose \cup {NoMark}
    <3>1. /\ u # t /\ Live(q.entry[u]) /\ r.entry[u] = q.entry[u]
          /\ Live(q.entry[v]) /\ r.entry[v] = q.entry[v]
      BY <2>1, <2>5
    <3>2. q.entry[u].intent.mark \in q.loose \cup {NoMark}
      BY <3>1, <2>5 DEF QueueInv, Marks
    <3> QED
      BY <3>1, <3>2, <2>2, <1>2
  <2> QED
    BY <2>3, <2>4, <2>5 DEF Marks
<1>10. Adds(r)
  <2> DEFINE sq == SumFunction(Reserves(q))
             sr == SumFunction(Reserves(r))
             ir == i.reserve
  <2>1. Live(q.entry[t]) /\ QueueType(q)
    BY <1>1 DEF Live, QueueInv
  <2>2. /\ Reserves(q) \in [Txs -> Nat] /\ Reserves(r) \in [Txs -> Nat]
        /\ Reserves(q)[t] = ir /\ Reserves(r)[t] = 0
        /\ \A u \in Txs : u # t => Reserves(r)[u] = Reserves(q)[u]
    <3>1. /\ Reserves(q) \in [Txs -> Nat]
          /\ \A u \in Txs : Reserves(q)[u] = IF Live(q.entry[u]) THEN q.entry[u].intent.reserve ELSE 0
      BY <2>1, ReservesType
    <3>2. /\ Reserves(r) \in [Txs -> Nat]
          /\ \A u \in Txs : Reserves(r)[u] = IF Live(r.entry[u]) THEN r.entry[u].intent.reserve ELSE 0
      BY <1>5, ReservesType
    <3>3. \A u \in Txs : u # t => Reserves(r)[u] = Reserves(q)[u]
      BY <1>3, <3>1, <3>2
    <3> QED
      BY <1>1, <1>4, <2>1, <3>1, <3>2, <3>3, Zenon
  <2>3. sq \in Nat /\ ir <= sq /\ sr = (sq - ir) + 0
    <3>1. Laws
      BY DEF QueueInv
    <3> QED
      BY <1>1, <2>2, <3>1 DEF Laws
  <2>4. q.reserved \in Nat /\ ir \in Nat /\ q.reserved <= sq /\ (~q.slack => q.reserved = sq)
    BY <1>1, IntentFields DEF QueueInv, QueueType, Adds
  <2>5. r.reserved = IF q.reserved > ir THEN q.reserved - ir ELSE 0
    BY <1>2
  <2>6. CASE ~q.slack
    <3> HIDE DEF sq, sr, ir
    <3>1. r.reserved = sr
      BY <2>3, <2>4, <2>5, <2>6
    <3>2. sr <= sr
      BY <2>3, <2>4
    <3> QED
      BY <3>1, <3>2 DEF Adds, sr
  <2>7. CASE ~\E j \in rest : j.reserve > 0
    <3>1. ASSUME NEW u \in Txs, Live(r.entry[u])
          PROVE  ~(r.entry[u].intent.reserve > 0)
      <4>1. r.entry[u].intent \in rest
        BY <3>1, <1>3, <1>4
      <4> QED
        BY <4>1, <2>7
    <3>2. sr = 0
      BY <1>5, <3>1, NothingReserved DEF QueueInv
    <3> HIDE DEF sq, sr, ir
    <3>3. r.reserved <= sr /\ r.reserved = sr
      BY <3>2, <2>3, <2>4, <2>5
    <3> QED
      BY <3>3 DEF Adds, sr
  <2>8. CASE q.slack /\ \E j \in rest : j.reserve > 0
    <3>1. r.slack
      BY <1>2, <2>8
    <3> HIDE DEF sq, sr, ir
    <3>2. r.reserved <= sr
      BY <2>3, <2>4, <2>5
    <3> QED
      BY <3>1, <3>2 DEF Adds, sr
  <2> QED
    BY <2>6, <2>7, <2>8
<1> QED
  BY <1>1, <1>2, <1>3, <1>5, <1>6, <1>7, <1>8, <1>9, <1>10 DEF QueueInv, SettlesOne

\* _drainQueue cancels what is queued, and leaves what is in flight alone.
LEMMA DrainInv ==
  ASSUME NEW q, NEW out, QueueInv(q, out), NEW r, Names(r, Drain(q))
  PROVE  /\ QueueInv(r, out)
         /\ Keeps(q, r) /\ Quiet(q, r, {}) /\ Drained(q, r)
<1> DEFINE strays == {t \in Txs : q.entry[t].state = "flight"}
<1>1. QueueType(q) /\ Lined(q) /\ Holding(q, out) /\ Keyed(q, out) /\ Marks(q) /\ Laws
  BY DEF QueueInv
<1>2. /\ IsQueue(r) /\ r.transactions = <<>> /\ r.isProcessing = FALSE
      /\ r.pending = {} /\ r.reserved = 0 /\ r.activePowWorker = NoLoop
      /\ r.loose = {q.entry[t].intent.mark : t \in strays} \ {NoMark}
      /\ r.slack = \E t \in strays : q.entry[t].intent.reserve > 0
      /\ r.entry = [t \in Txs |-> IF t \in Range(q.transactions)
                                  THEN Settled("cancelled") ELSE q.entry[t]]
      /\ r.loop = [l \in Loops |-> IF l = q.activePowWorker
                                   THEN [q.loop[l] EXCEPT !.worker = FALSE] ELSE q.loop[l]]
  <2>1. IsQueue(q)
    BY <1>1 DEF QueueType
  <2> QED
    BY <2>1, Zenon DEF Drain, IsQueue, QueueFields, Settled, Names
<1>3. /\ DOMAIN r.entry = Txs /\ r.entry = [t \in Txs |-> r.entry[t]]
      /\ r.loop = [l \in Loops |-> r.loop[l]]
  BY <1>2, Zenon
<1>4. ASSUME NEW t \in Txs
      PROVE  /\ q.entry[t].state = "queued" => r.entry[t] = Settled("cancelled")
             /\ q.entry[t].state # "queued" => r.entry[t] = q.entry[t]
  BY <1>1, <1>2, Zenon DEF Lined
<1>5. ASSUME NEW t \in Txs
      PROVE  /\ EntryType(r.entry[t])
             /\ Live(r.entry[t]) <=> q.entry[t].state = "flight"
             /\ r.entry[t].state = "flight" <=> q.entry[t].state = "flight"
             /\ r.entry[t].state # "queued"
  <2>1. CASE q.entry[t].state = "queued"
    BY <1>4, <2>1, SettledEntry DEF Live, Outcomes, Failures
  <2>2. CASE q.entry[t].state # "queued"
    BY <1>4, <2>2, <1>1 DEF Live, QueueType
  <2> QED
    BY <2>1, <2>2
<1>6. ASSUME NEW l \in Loops
      PROVE  /\ RunType(r.loop[l])
             /\ r.loop[l].pc = q.loop[l].pc /\ r.loop[l].cur = q.loop[l].cur
             /\ r.loop[l].key = q.loop[l].key
             /\ r.loop[l].pc = "crypto" => r.loop[l] = q.loop[l]
  <2>1. RunType(q.loop[l])
    BY <1>1 DEF QueueType
  <2>2. CASE l = q.activePowWorker
    <3> DEFINE n == [q.loop[l] EXCEPT !.worker = FALSE]
    <3>1. r.loop[l] = n
      BY <1>2, <2>2
    <3>2. /\ IsRun(n) /\ n.pc = q.loop[l].pc /\ n.cur = q.loop[l].cur
          /\ n.key = q.loop[l].key /\ n.try = q.loop[l].try /\ n.worker = FALSE
      BY <2>1, Zenon DEF RunType, IsRun
    <3>3. RunType(n)
      <4> HIDE DEF n
      <4> QED
        BY <2>1, <3>2 DEF RunType
    <3>4. q.loop[l].pc = "crypto" => n = q.loop[l]
      <4> SUFFICES ASSUME q.loop[l].pc = "crypto" PROVE n = q.loop[l]
        OBVIOUS
      <4>1. q.loop[l].worker = FALSE
        BY <2>1 DEF RunType
      <4> QED
        BY <4>1, <2>1, Zenon DEF RunType, IsRun
    <3> QED
      BY <3>1, <3>2, <3>3, <3>4, Zenon
  <2>3. CASE l # q.activePowWorker
    <3>1. r.loop[l] = q.loop[l]
      BY <1>2, <2>3
    <3> QED
      BY <2>1, <3>1
  <2> QED
    BY <2>2, <2>3
<1>7. QueueType(r)
  <2>1. r.transactions \in Seq(Txs)
    BY <1>2
  <2>2. r.slack \in BOOLEAN
    BY <1>2, Zenon
  <2>3. /\ r.isProcessing \in BOOLEAN /\ r.pending \subseteq STRING /\ r.reserved \in Nat
        /\ r.activePowWorker \in Loops \cup {NoLoop}
    <3>1. 0 \in Nat
      OBVIOUS
    <3> QED
      BY <3>1, <1>2, Zenon
  <2> QED
    BY <1>2, <1>3, <1>5, <1>6, <2>1, <2>2, <2>3, Zenon DEF QueueType
<1>8. Lined(r)
  <2>1. Range(r.transactions) = {} /\ IsInjective(r.transactions)
    BY <1>2 DEF Range, IsInjective
  <2> QED
    BY <1>5, <2>1 DEF Lined
<1>9. Holding(r, out)
  <2>1. \A l \in Loops : (Busy(r, l) <=> Busy(q, l)) /\ r.loop[l].cur = q.loop[l].cur
    BY <1>6 DEF Busy
  <2>2. \A t \in Txs : r.entry[t].state = "flight" <=> q.entry[t].state = "flight"
    BY <1>5
  <2>3. ASSUME NEW l \in Loops \ out, Busy(r, l)
        PROVE  r.loop[l].cur \in Txs /\ r.entry[r.loop[l].cur].state = "flight"
    BY <1>1, <2>1, <2>2, <2>3 DEF Holding
  <2>4. ASSUME NEW l \in Loops \ out, NEW m \in Loops \ out, Busy(r, l), Busy(r, m),
               r.loop[l].cur = r.loop[m].cur
        PROVE  l = m
    BY <1>1, <2>1, <2>4 DEF Holding
  <2>5. ASSUME NEW t \in Txs, r.entry[t].state = "flight"
        PROVE  \E l \in Loops \ out : Busy(r, l) /\ r.loop[l].cur = t
    BY <1>1, <2>1, <2>2, <2>5 DEF Holding
  <2> QED
    BY <2>3, <2>4, <2>5, Zenon DEF Holding
<1>10. Keyed(r, out)
  <2> SUFFICES ASSUME NEW l \in Loops \ out, r.loop[l].pc \notin {"idle", "params"}
               PROVE  r.loop[l].key = r.entry[r.loop[l].cur].owner
    BY Zenon DEF Keyed
  <2>1. q.loop[l].pc \notin {"idle", "params"}
    BY <1>6
  <2>2. q.loop[l].cur \in Txs /\ q.entry[q.loop[l].cur].state = "flight"
    BY <1>1, <2>1 DEF Holding, Busy
  <2>3. q.loop[l].key = q.entry[q.loop[l].cur].owner
    BY <1>1, <2>1 DEF Keyed
  <2> QED
    BY <1>4, <1>6, <2>2, <2>3
<1>11. \A t \in Txs : q.entry[t].state = "flight" => r.entry[t] = q.entry[t]
  BY <1>4
<1>12. Marks(r)
  <2>1. \A t \in Txs : Live(r.entry[t]) =>
           t \in strays /\ r.entry[t] = q.entry[t]
    BY <1>5, <1>11
  <2>2. \A t \in Txs : Live(r.entry[t]) => r.entry[t].intent.mark \in r.loose \cup {NoMark}
    <3>1. ASSUME NEW t \in Txs, Live(r.entry[t])
          PROVE  r.entry[t].intent.mark \in {q.entry[u].intent.mark : u \in strays}
      BY <2>1, <3>1, Zenon
    <3> QED
      BY <3>1, <1>2
  <2> QED
    BY <2>2, <1>2 DEF Marks
<1>13. Adds(r)
  <2>1. CASE r.slack
    <3>1. SumFunction(Reserves(r)) \in Nat
      BY <1>1, <1>7, ReservesType DEF Laws
    <3>2. r.reserved <= SumFunction(Reserves(r))
      BY <1>2, <3>1
    <3> QED
      BY <2>1, <3>2, Zenon DEF Adds
  <2>2. CASE ~r.slack
    <3>1. ASSUME NEW t \in Txs, Live(r.entry[t])
          PROVE  ~(r.entry[t].intent.reserve > 0)
      <4>1. t \in strays /\ r.entry[t] = q.entry[t]
        BY <3>1, <1>5, <1>11
      <4> QED
        BY <4>1, <2>2, <1>2, Zenon
    <3>2. SumFunction(Reserves(r)) = 0
      BY <1>1, <1>7, <3>1, NothingReserved
    <3> QED
      BY <1>2, <3>2 DEF Adds
  <2> QED
    BY <2>1, <2>2
<1>14. Keeps(q, r)
  <2> SUFFICES ASSUME NEW t \in Txs
               PROVE  IF Live(q.entry[t])
                      THEN Live(r.entry[t]) \/ r.entry[t].state \in {"failed", "cancelled"}
                      ELSE r.entry[t] = q.entry[t]
    BY Zenon DEF Keeps
  <2>1. CASE q.entry[t].state = "queued"
    BY <1>4, <2>1, SettledEntry DEF Live, Outcomes, Failures
  <2>2. CASE q.entry[t].state # "queued"
    BY <1>4, <2>2
  <2> QED
    BY <2>1, <2>2
<1>15. Quiet(q, r, {})
  BY <1>6 DEF Quiet
<1>16. QueueInv(r, out)
  BY <1>7, <1>8, <1>9, <1>10, <1>12, <1>13 DEF QueueInv
<1> QED
  BY <1>6, <1>11, <1>14, <1>15, <1>16 DEF Drained

\* The loop that let go of its entry ends.
LEMMA LoopEndInv ==
  ASSUME NEW q, NEW l \in Loops, QueueInv(q, {l}), NEW r, Names(r, LoopEnd(q, l))
  PROVE  /\ QueueInv(r, {})
         /\ Keeps(q, r) /\ Quiet(q, r, {}) /\ Ended(q, r, l)
<1>1. QueueType(q) /\ Lined(q) /\ Holding(q, {l}) /\ Keyed(q, {l}) /\ Marks(q) /\ Adds(q)
  BY DEF QueueInv
<1>2. /\ IsQueue(r)
      /\ r.transactions = q.transactions /\ r.isProcessing = FALSE
      /\ r.pending = q.pending /\ r.reserved = q.reserved
      /\ r.activePowWorker = q.activePowWorker
      /\ r.loose = q.loose /\ r.slack = q.slack
      /\ r.entry = q.entry
      /\ r.loop = [q.loop EXCEPT ![l] = NoRun]
  <2>1. IsQueue(q)
    BY <1>1 DEF QueueType
  <2> QED
    BY <2>1, Zenon DEF LoopEnd, IsQueue, QueueFields, Names
<1>3. /\ r.loop = [m \in Loops |-> r.loop[m]]
      /\ r.loop[l] = NoRun /\ \A m \in Loops : m # l => r.loop[m] = q.loop[m]
  <2>1. q.loop = [m \in Loops |-> q.loop[m]]
    BY <1>1 DEF QueueType
  <2> HIDE <1>1
  <2> QED
    BY <2>1, <1>2, Zenon
<1>4. RunType(r.loop[l]) /\ r.loop[l].pc = "idle"
  BY <1>3, IdleRun
<1>5. QueueType(r)
  <2>1. \A m \in Loops : RunType(r.loop[m])
    BY <1>1, <1>3, <1>4 DEF QueueType
  <2> QED
    BY <1>1, <1>2, <1>3, <2>1, Zenon DEF QueueType
<1>6. Lined(r)
  BY <1>1, <1>2, Zenon DEF Lined
<1>7. Holding(r, {})
  <2>1. \A m \in Loops : Busy(r, m) <=> m # l /\ Busy(q, m)
    BY <1>3, <1>4 DEF Busy
  <2> QED
    BY <1>1, <1>2, <1>3, <2>1 DEF Holding
<1>8. Keyed(r, {})
  BY <1>1, <1>2, <1>3, <1>4 DEF Keyed
<1>9. Marks(r)
  <2>1. Marks(q)
    BY <1>1
  <2>2. r.pending = q.pending /\ r.loose = q.loose /\ r.entry = q.entry
    BY <1>2, Zenon
  <2> HIDE <1>1, <1>2
  <2> QED
    BY <2>1, <2>2, Zenon DEF Marks
<1>10. Adds(r)
  BY <1>1, <1>2, Zenon DEF Adds, Reserves
<1>11. Keeps(q, r) /\ Quiet(q, r, {})
  BY <1>2, <1>3, <1>4 DEF Keeps, Quiet
<1> QED
  BY <1>2, <1>4, <1>5, <1>6, <1>7, <1>8, <1>9, <1>10, <1>11 DEF QueueInv, Ended

-----------------------------------------------------------------------------
(* What a loop's stretch of code between two awaits does.                  *)

\* The entry the loop held has settled as o, and the loop is over.
Failed(q, r, l, t, o) ==
    /\ t \in Txs /\ q.entry[t].state = "flight"
    /\ r.entry[t].state = o /\ r.loop[l].pc = "idle"

\* The loop signs for the account that is current.
Signs(r, l) == r.loop[l].pc = "crypto" => Current(r.entry[r.loop[l].cur])

\* The entry failed, or was cancelled because its account is not current.
GivesUp(q, r, t) ==
    \/ r.entry[t].state = "failed"
    \/ r.entry[t].state = "cancelled" /\ ~Bound(q.entry[t])

\* The loop l, working on t, turned q into r.
Works(q, r, l, t) ==
    /\ QueueInv(r, {}) /\ Keeps(q, r) /\ Quiet(q, r, {l}) /\ Signs(r, l)
    /\ t \in Txs /\ q.entry[t].state = "flight"
    /\ \/ Spares(q, r) /\ r.entry[t].state # "cancelled"
       \/ GivesUp(q, r, t)

\* Keeps and Quiet compose.
LEMMA KeepsTwice ==
  ASSUME NEW p, NEW q, NEW r, Keeps(p, q), Keeps(q, r)
  PROVE  Keeps(p, r)
<1> SUFFICES ASSUME NEW t \in Txs
             PROVE  IF Live(p.entry[t])
                    THEN Live(r.entry[t]) \/ r.entry[t].state \in {"failed", "cancelled"}
                    ELSE r.entry[t] = p.entry[t]
  BY Zenon DEF Keeps
<1> QED
  BY DEF Keeps

\* A loop that does not sign in either step does not sign.
LEMMA QuietTwice ==
  ASSUME NEW p, NEW q, NEW r, NEW out, Quiet(p, q, out), Quiet(q, r, out)
  PROVE  Quiet(p, r, out)
  BY DEF Quiet

\* A claim about all loops holds of all but some.
LEMMA QuietWeaker ==
  ASSUME NEW q, NEW r, NEW out, Quiet(q, r, {})
  PROVE  Quiet(q, r, out)
  BY DEF Quiet

\* failAndDrain, then break: the entry settles as told and the loop ends.
LEMMA FailAndDrainInv ==
  ASSUME NEW q, QueueInv(q, {}), NEW l \in Loops, Busy(q, l), NEW o \in Failures,
         NEW t, Names(t, q.loop[l].cur), NEW r, Names(r, FailAndDrain(q, l, o))
  PROVE  QueueInv(r, {}) /\ Keeps(q, r) /\ Quiet(q, r, {}) /\ Failed(q, r, l, t, o)
<1>1. PICK a : Names(a, Resolve(q, t, o))
  BY DEF Names
<1>2. PICK b : Names(b, Drain(a))
  BY DEF Names
<1>3. Names(r, LoopEnd(b, l))
  BY <1>1, <1>2 DEF FailAndDrain, Names
<1>4. QueueInv(a, {l}) /\ SettlesOne(q, a, t, o)
  <2>1. o \in Outcomes
    BY DEF Outcomes, Failures
  <2> QED
    BY <1>1, <2>1, ResolveInv, Zenon
<1>5. Settled(o).state = o /\ ~Live(Settled(o)) /\ Live(q.entry[t])
  BY <1>4, SettledEntry DEF Live, Outcomes, Failures, SettlesOne
<1>6. Keeps(q, a) /\ Quiet(q, a, {})
  BY <1>4, <1>5 DEF Keeps, Quiet, SettlesOne, Failures
<1>7. QueueInv(b, {l}) /\ Keeps(a, b) /\ Quiet(a, b, {})
  BY <1>2, <1>4, DrainInv, Zenon
<1>8. QueueInv(r, {}) /\ Keeps(b, r) /\ Quiet(b, r, {}) /\ Ended(b, r, l)
  BY <1>3, <1>7, LoopEndInv, Zenon
<1>9. Keeps(a, r) /\ Quiet(a, r, {})
  BY <1>7, <1>8, KeepsTwice, QuietTwice
<1>10. Keeps(q, r) /\ Quiet(q, r, {})
  BY <1>6, <1>9, KeepsTwice, QuietTwice
<1>11. Failed(q, r, l, t, o)
  BY <1>4, <1>5, <1>8, <1>9 DEF Keeps, SettlesOne, Ended, Failed
<1> QED
  BY <1>8, <1>10, <1>11

\* A transaction that fails.
LEMMA FailWorks ==
  ASSUME NEW q, QueueInv(q, {}), NEW l \in Loops, Busy(q, l),
         NEW t, Names(t, q.loop[l].cur), NEW r, Names(r, FailAndDrain(q, l, "failed"))
  PROVE  Works(q, r, l, t) /\ r.entry[t].state = "failed"
<1>1. "failed" \in Failures
  BY DEF Failures
<1>2. QueueInv(r, {}) /\ Keeps(q, r) /\ Quiet(q, r, {}) /\ Failed(q, r, l, t, "failed")
  BY <1>1, FailAndDrainInv, Zenon
<1>3. Quiet(q, r, {l})
  BY <1>2, QuietWeaker
<1> QED
  BY <1>2, <1>3 DEF Works, Failed, Signs, GivesUp

\* An entry whose account is not current: the queue is drained, then the entry
\* is cancelled and the queue drained again.
LEMMA CancelWorks ==
  ASSUME NEW q, QueueInv(q, {}), NEW l \in Loops, Busy(q, l),
         NEW t, Names(t, q.loop[l].cur), ~Bound(q.entry[t]),
         NEW r, Names(r, FailAndDrain(Drain(q), l, "cancelled"))
  PROVE  Works(q, r, l, t)
<1>1. PICK d : Names(d, Drain(q))
  BY DEF Names
<1>2. QueueInv(d, {}) /\ Keeps(q, d) /\ Quiet(q, d, {}) /\ Drained(q, d)
  BY <1>1, DrainInv, Zenon
<1>3. /\ "cancelled" \in Failures /\ Busy(d, l)
      /\ Names(r, FailAndDrain(d, l, "cancelled")) /\ Names(t, d.loop[l].cur)
  BY <1>1, <1>2 DEF Busy, Names, Drained, Failures
<1>4. QueueInv(r, {}) /\ Keeps(d, r) /\ Quiet(d, r, {}) /\ Failed(d, r, l, t, "cancelled")
  BY <1>2, <1>3, FailAndDrainInv, Zenon
<1>5. Keeps(q, r) /\ Quiet(q, r, {l})
  BY <1>2, <1>4, KeepsTwice, QuietTwice, QuietWeaker
<1>6. t \in Txs /\ q.entry[t].state = "flight"
  BY DEF QueueInv, Holding, Names
<1> QED
  BY <1>4, <1>5, <1>6 DEF Works, Failed, Signs, GivesUp

-----------------------------------------------------------------------------
(* A loop that goes from one await to the next.                            *)

\* What the loop l may become without letting go of its entry.
Fits(q, l, n) ==
    /\ RunType(n) /\ n.cur = q.loop[l].cur /\ n.pc # "idle"
    /\ n.pc # "params" => n.key = q.entry[n.cur].owner

\* Only the loop l and the worker the queue knows of have changed.
Moved(q, r, l, n) ==
    /\ IsQueue(r) /\ r.transactions = q.transactions /\ r.isProcessing = q.isProcessing
    /\ r.pending = q.pending /\ r.reserved = q.reserved
    /\ r.activePowWorker \in Loops \cup {NoLoop}
    /\ r.loose = q.loose /\ r.slack = q.slack /\ r.entry = q.entry
    /\ r.loop = [q.loop EXCEPT ![l] = n]

\* The loop may sign: its key is the signer's or the owner's.
Ready(q, l, t) ==
    /\ QueueInv(q, {}) /\ Busy(q, l) /\ Names(t, q.loop[l].cur) /\ q.loop[l].worker = FALSE
    /\ q.loop[l].key \in {Signer(q.entry[t].intent), q.entry[t].owner}

\* A loop that moves on leaves the invariant and every entry as they were.
LEMMA MoveInv ==
  ASSUME NEW q, QueueInv(q, {}), NEW l \in Loops, Busy(q, l), NEW n, Fits(q, l, n),
         NEW r, Moved(q, r, l, n)
  PROVE  /\ QueueInv(r, {}) /\ Quiet(q, r, {l}) /\ Busy(r, l)
         /\ r.entry = q.entry /\ r.loop[l] = n
<1>1. QueueType(q) /\ Lined(q) /\ Holding(q, {}) /\ Keyed(q, {}) /\ Marks(q) /\ Adds(q)
  BY DEF QueueInv
<1>2. /\ r.loop = [m \in Loops |-> r.loop[m]]
      /\ r.loop[l] = n /\ \A m \in Loops : m # l => r.loop[m] = q.loop[m]
  <2>1. q.loop = [m \in Loops |-> q.loop[m]]
    BY <1>1 DEF QueueType
  <2>2. r.loop = [q.loop EXCEPT ![l] = n]
    BY DEF Moved
  <2> HIDE <1>1
  <2> QED
    BY <2>1, <2>2, Zenon
<1>3. r.entry = q.entry /\ r.transactions = q.transactions
  BY DEF Moved
<1>4. QueueType(r)
  <2>1. \A m \in Loops : RunType(r.loop[m])
    BY <1>1, <1>2 DEF QueueType, Fits
  <2> QED
    BY <1>1, <1>2, <2>1, Zenon DEF QueueType, Moved
<1>5. Lined(r)
  BY <1>1, <1>3, Zenon DEF Lined
<1>6. Holding(r, {})
  <2>1. \A m \in Loops : (Busy(r, m) <=> Busy(q, m)) /\ r.loop[m].cur = q.loop[m].cur
    BY <1>2 DEF Busy, Fits
  <2> QED
    BY <1>1, <1>3, <2>1 DEF Holding
<1>7. Keyed(r, {})
  BY <1>1, <1>2, <1>3 DEF Keyed, Fits
<1>8. Marks(r)
  BY <1>1, Zenon DEF Marks, Moved
<1>9. Adds(r)
  BY <1>1, Zenon DEF Adds, Reserves, Moved
<1>10. Quiet(q, r, {l}) /\ Busy(r, l)
  BY <1>2 DEF Quiet, Busy, Fits
<1> QED
  BY <1>2, <1>3, <1>4, <1>5, <1>6, <1>7, <1>8, <1>9, <1>10 DEF QueueInv

\* What a loop does after it moved on it has done to the queue before.
LEMMA WorksAfter ==
  ASSUME NEW q, NEW a, NEW r, NEW l, NEW t, a.entry = q.entry, Quiet(q, a, {l}),
         Works(a, r, l, t)
  PROVE  Works(q, r, l, t)
<1>1. Quiet(q, r, {l})
  BY QuietTwice DEF Works
<1> QED
  BY <1>1, Zenon DEF Works, Keeps, Spares, GivesUp

\* A loop that moved on has done no more than that.
LEMMA MoveWorks ==
  ASSUME NEW q, QueueInv(q, {}), NEW l \in Loops, Busy(q, l), NEW t, Names(t, q.loop[l].cur),
         NEW r, QueueInv(r, {}), Quiet(q, r, {l}), r.entry = q.entry, Signs(r, l)
  PROVE  Works(q, r, l, t)
<1>1. t \in Txs /\ q.entry[t].state = "flight"
  BY DEF QueueInv, Holding, Names
<1>2. Keeps(q, r)
  BY DEF Keeps
<1>3. Spares(q, r)
  BY DEF Spares
<1> QED
  BY <1>1, <1>2, <1>3 DEF Works

\* The entry a loop holds, and its run.
LEMMA HeldEntry ==
  ASSUME NEW q, QueueInv(q, {}), NEW l \in Loops, Busy(q, l)
  PROVE  /\ q.loop[l].cur \in Txs /\ q.entry[q.loop[l].cur].state = "flight"
         /\ q.entry[q.loop[l].cur].intent \in Intents
         /\ RunType(q.loop[l]) /\ IsRun(q.loop[l]) /\ IsQueue(q)
         /\ q.loop[l].worker => q.loop[l].pc = "pow"
         /\ q.loop[l].pc # "params" => q.loop[l].key = q.entry[q.loop[l].cur].owner
         /\ DOMAIN q.loop = Loops
<1>1. q.loop[l].cur \in Txs /\ q.entry[q.loop[l].cur].state = "flight"
  BY DEF QueueInv, Holding
<1>2. q.entry[q.loop[l].cur].intent \in Intents
  BY <1>1 DEF QueueInv, QueueType, EntryType, Live
<1>3. RunType(q.loop[l]) /\ IsQueue(q) /\ q.loop = [m \in Loops |-> q.loop[m]]
  BY DEF QueueInv, QueueType
<1>4. q.loop[l].pc # "params" => q.loop[l].key = q.entry[q.loop[l].cur].owner
  BY DEF QueueInv, Keyed, Busy
<1> QED
  BY <1>1, <1>2, <1>3, <1>4 DEF RunType

-----------------------------------------------------------------------------
(* From the pre-sign check to the signature.                               *)

\* handleTransactionResult, up to its first await.
LEMMA BeginSigningWorks ==
  ASSUME NEW q, NEW l \in Loops, NEW t, Ready(q, l, t), NEW r, Names(r, BeginSigning(q, l))
  PROVE  Works(q, r, l, t)
<1>1. QueueInv(q, {}) /\ Busy(q, l) /\ Names(t, q.loop[l].cur)
  BY DEF Ready
<1>2. CASE Bound(q.entry[t])
  <2> DEFINE n == [q.loop[l] EXCEPT !.pc = "crypto"]
  <2>1. RunType(q.loop[l]) /\ IsRun(q.loop[l]) /\ IsQueue(q)
    BY <1>1, HeldEntry
  <2>2. r = [q EXCEPT !.loop[l].pc = "crypto"]
    BY <1>1, <1>2 DEF BeginSigning, Names
  <2>3. Moved(q, r, l, n)
    <3>1. q.activePowWorker \in Loops \cup {NoLoop}
      BY <1>1 DEF QueueInv, QueueType
    <3> QED
      BY <2>1, <2>2, <3>1, Zenon DEF Moved, IsQueue, QueueFields
  <2>4. /\ IsRun(n) /\ n.pc = "crypto" /\ n.cur = q.loop[l].cur /\ n.key = q.loop[l].key
        /\ n.try = q.loop[l].try /\ n.worker = q.loop[l].worker
    BY <2>1, Zenon DEF IsRun
  <2>5. q.loop[l].key = q.entry[t].owner
    BY <1>2 DEF Ready, Bound
  <2>6. Fits(q, l, n)
    <3> HIDE DEF n
    <3> QED
      BY <2>1, <2>4, <2>5, <1>1 DEF Fits, RunType, Ready, PCs, Names
  <2>7. QueueInv(r, {}) /\ Quiet(q, r, {l}) /\ r.entry = q.entry /\ r.loop[l] = n
    BY <1>1, <2>3, <2>6, MoveInv
  <2>8. Signs(r, l)
    <3> HIDE DEF n
    <3> QED
      BY <1>1, <1>2, <2>4, <2>7 DEF Signs, Current, Bound, Names
  <2> QED
    BY <1>1, <2>7, <2>8, MoveWorks
<1>3. CASE ~Bound(q.entry[t])
  <2>1. Names(r, FailAndDrain(Drain(q), l, "cancelled"))
    BY <1>1, <1>3 DEF BeginSigning, Names
  <2> QED
    BY <1>1, <1>3, <2>1, CancelWorks
<1> QED
  BY <1>2, <1>3

\* performTransaction: no work, a refusal, or the start of the worker.
LEMMA PerformWorks ==
  ASSUME NEW q, NEW l \in Loops, NEW t, Ready(q, l, t), Bound(q.entry[t]),
         NEW r, Names(r, Perform(q, l))
  PROVE  Works(q, r, l, t)
<1> DEFINE i == q.entry[q.loop[l].cur].intent
           skip == ~i.forcePow /\ (session.level >= 1 \/ i.feeOnly)
           refuse == ~skip /\ (i.feeOnly \/ q.loop[l].paid)
           started == [q EXCEPT !.activePowWorker = l]
           freed == [q EXCEPT !.loop[l].pow = FALSE]
           mining == [started EXCEPT !.loop[l].pc = "pow", !.loop[l].pow = TRUE,
                                     !.loop[l].worker = TRUE]
<1>1. QueueInv(q, {}) /\ Busy(q, l) /\ Names(t, q.loop[l].cur) /\ q.loop[l].worker = FALSE
  BY DEF Ready
<1>2. /\ RunType(q.loop[l]) /\ IsRun(q.loop[l]) /\ IsQueue(q)
      /\ q.activePowWorker \in Loops \cup {NoLoop} /\ DOMAIN q.loop = Loops
      /\ q.loop = [m \in Loops |-> q.loop[m]]
      /\ q.loop[l].pc # "params" => q.loop[l].key = q.entry[q.loop[l].cur].owner
  BY <1>1, HeldEntry DEF QueueInv, QueueType
<1>3. q.loop[l].key = q.entry[t].owner
  BY DEF Ready, Bound
<1>4. CASE skip
  <2> DEFINE n == [q.loop[l] EXCEPT !.pow = FALSE]
  <2>1. Names(r, BeginSigning(freed, l))
    BY <1>4 DEF Perform, Names
  <2>2. Moved(q, freed, l, n)
    BY <1>2, Zenon DEF Moved, IsQueue, QueueFields
  <2>3. /\ IsRun(n) /\ n.pc = q.loop[l].pc /\ n.cur = q.loop[l].cur /\ n.key = q.loop[l].key
        /\ n.try = q.loop[l].try /\ n.worker = q.loop[l].worker
    BY <1>2, Zenon DEF IsRun
  <2>4. Fits(q, l, n)
    <3> HIDE DEF n
    <3> QED
      BY <1>1, <1>2, <1>3, <2>3 DEF Fits, RunType, Busy, Names
  <2> HIDE DEF freed
  <2>5. /\ QueueInv(freed, {}) /\ Quiet(q, freed, {l}) /\ Busy(freed, l)
        /\ freed.entry = q.entry /\ freed.loop[l] = n
    BY <1>1, <2>2, <2>4, MoveInv
  <2>6. Ready(freed, l, t)
    <3> HIDE DEF n
    <3> QED
      BY <1>1, <1>3, <2>3, <2>5 DEF Ready, Names
  <2>7. Works(freed, r, l, t)
    BY <2>1, <2>6, BeginSigningWorks
  <2> QED
    BY <2>5, <2>7, WorksAfter
<1>5. Moved(q, started, l, q.loop[l])
  <2>1. q.loop = [q.loop EXCEPT ![l] = q.loop[l]]
    BY <1>2, Zenon
  <2> QED
    BY <1>2, <2>1, Zenon DEF Moved, IsQueue, QueueFields
<1>6. Fits(q, l, q.loop[l])
  BY <1>1, <1>2, <1>3 DEF Fits, Busy
<1>7. CASE refuse
  <2>1. Names(r, FailAndDrain(started, l, "failed"))
    BY <1>7 DEF Perform, Names
  <2> HIDE DEF started
  <2>2. /\ QueueInv(started, {}) /\ Quiet(q, started, {l}) /\ Busy(started, l)
        /\ started.entry = q.entry /\ started.loop[l] = q.loop[l]
    BY <1>1, <1>5, <1>6, MoveInv
  <2>3. Names(t, started.loop[l].cur)
    BY <1>1, <2>2 DEF Names
  <2>4. Works(started, r, l, t)
    BY <2>1, <2>2, <2>3, FailWorks
  <2> QED
    BY <2>2, <2>4, WorksAfter
<1>8. CASE ~skip /\ ~refuse
  <2> DEFINE n == [q.loop[l] EXCEPT !.pc = "pow", !.pow = TRUE, !.worker = TRUE]
  <2>1. r = mining
    BY <1>8 DEF Perform, Names
  <2>2. Moved(q, mining, l, n)
    BY <1>2, Zenon DEF Moved, IsQueue, QueueFields, IsRun
  <2>3. /\ IsRun(n) /\ n.pc = "pow" /\ n.cur = q.loop[l].cur /\ n.key = q.loop[l].key
        /\ n.try = q.loop[l].try /\ n.worker = TRUE
    BY <1>2, Zenon DEF IsRun
  <2>4. Fits(q, l, n)
    <3> HIDE DEF n
    <3> QED
      BY <1>1, <1>2, <1>3, <2>3 DEF Fits, RunType, PCs, Names
  <2> HIDE DEF mining
  <2>5. QueueInv(r, {}) /\ Quiet(q, r, {l}) /\ r.entry = q.entry /\ r.loop[l] = n
    BY <1>1, <2>1, <2>2, <2>4, MoveInv
  <2>6. Signs(r, l)
    <3> HIDE DEF n
    <3> QED
      BY <2>3, <2>5 DEF Signs
  <2> QED
    BY <1>1, <2>5, <2>6, MoveWorks
<1> QED
  BY <1>4, <1>7, <1>8

\* One turn of the retry loop.
LEMMA AttemptWorks ==
  ASSUME NEW q, NEW l \in Loops, NEW t, Ready(q, l, t), NEW r, Names(r, Attempt(q, l))
  PROVE  Works(q, r, l, t)
<1>1. QueueInv(q, {}) /\ Busy(q, l) /\ Names(t, q.loop[l].cur)
  BY DEF Ready
<1>2. CASE Bound(q.entry[t])
  <2>1. Names(r, Perform(q, l))
    BY <1>1, <1>2 DEF Attempt, Names
  <2> QED
    BY <1>2, <2>1, PerformWorks
<1>3. CASE ~Bound(q.entry[t])
  <2>1. Names(r, FailAndDrain(Drain(q), l, "cancelled"))
    BY <1>1, <1>3 DEF Attempt, Names
  <2> QED
    BY <1>1, <1>3, <2>1, CancelWorks
<1> QED
  BY <1>2, <1>3

\* The key is derived, then the first attempt is made.
LEMMA DeriveWorks ==
  ASSUME NEW q, QueueInv(q, {}), NEW l \in Loops, q.loop[l].pc = "params",
         NEW t, Names(t, q.loop[l].cur), NEW r, Names(r, DeriveAndAttempt(q, l))
  PROVE  Works(q, r, l, t)
<1> DEFINE k == Signer(q.entry[t].intent)
           n == [q.loop[l] EXCEPT !.key = k, !.try = 0]
<1>1. Busy(q, l)
  BY DEF Busy
<1>2. CASE BindingThrows(q.entry[t])
  <2>1. Names(r, FailAndDrain(q, l, "failed"))
    BY <1>2 DEF DeriveAndAttempt, Names
  <2> QED
    BY <1>1, <2>1, FailWorks
<1>3. CASE ~BindingThrows(q.entry[t])
  <2>1. PICK a : Names(a, [q EXCEPT !.loop[l].key = k, !.loop[l].try = 0])
    BY DEF Names
  <2>2. Names(r, Attempt(a, l))
    BY <1>3, <2>1 DEF DeriveAndAttempt, Names
  <2>3. /\ RunType(q.loop[l]) /\ IsRun(q.loop[l]) /\ IsQueue(q)
        /\ q.activePowWorker \in Loops \cup {NoLoop} /\ DOMAIN q.loop = Loops
        /\ q.loop[l].worker => q.loop[l].pc = "pow"
    BY <1>1, HeldEntry DEF QueueInv, QueueType
  <2>4. Moved(q, a, l, n)
    <3> HIDE DEF k
    <3> QED
      BY <2>1, <2>3, Zenon DEF Moved, IsQueue, QueueFields, IsRun, Names
  <2>5. /\ IsRun(n) /\ n.pc = q.loop[l].pc /\ n.cur = q.loop[l].cur /\ n.key = k
        /\ n.try = 0 /\ n.worker = q.loop[l].worker
    <3> HIDE DEF k
    <3> QED
      BY <2>3, Zenon DEF IsRun
  <2> HIDE DEF n
  <2>6. Fits(q, l, n)
    <3>1. 0 \in 0..MAX_POW_RETRIES
      BY QueueAssumption
    <3> QED
      BY <1>1, <2>3, <2>5, <3>1, Zenon DEF Fits, RunType, Busy
  <2>7. /\ QueueInv(a, {}) /\ Quiet(q, a, {l}) /\ Busy(a, l)
        /\ a.entry = q.entry /\ a.loop[l] = n
    BY <1>1, <2>4, <2>6, MoveInv
  <2>8. Ready(a, l, t)
    <3>1. q.loop[l].worker = FALSE
      BY <2>3 DEF RunType
    <3> QED
      BY <2>5, <2>7, <3>1, Zenon DEF Ready, Names
  <2>9. Works(a, r, l, t)
    BY <2>2, <2>8, AttemptWorks
  <2> QED
    BY <2>7, <2>9, WorksAfter
<1> QED
  BY <1>2, <1>3

-----------------------------------------------------------------------------
(* The next entry of the queue.                                            *)

\* shift() of a queue without repetitions.
LEMMA TailLines ==
  ASSUME NEW S, NEW s \in Seq(S), s # <<>>, IsInjective(s)
  PROVE  /\ Head(s) \in S /\ Tail(s) \in Seq(S) /\ IsInjective(Tail(s))
         /\ Head(s) \in Range(s)
         /\ \A x \in S : x \in Range(Tail(s)) <=> x \in Range(s) /\ x # Head(s)
<1>1. /\ Len(s) \in Nat \ {0} /\ Head(s) = s[1] /\ Tail(s) \in Seq(S) /\ Head(s) \in S
      /\ Len(Tail(s)) = Len(s) - 1 /\ \A j \in 1..Len(Tail(s)) : Tail(s)[j] = s[j + 1]
      /\ DOMAIN s = 1..Len(s) /\ DOMAIN Tail(s) = 1..Len(Tail(s))
  OBVIOUS
<1>2. IsInjective(Tail(s))
  BY <1>1 DEF IsInjective
<1>3. Head(s) \in Range(s)
  BY <1>1 DEF Range
<1>4. ASSUME NEW x \in S, x \in Range(Tail(s))
      PROVE  x \in Range(s) /\ x # Head(s)
  <2>1. PICK j \in 1..Len(Tail(s)) : Tail(s)[j] = x
    BY <1>1, <1>4 DEF Range
  <2>2. j + 1 \in 1..Len(s) /\ s[j + 1] = x /\ j + 1 # 1 /\ 1 \in 1..Len(s)
    BY <1>1, <2>1
  <2> QED
    BY <1>1, <2>2 DEF Range, IsInjective
<1>5. ASSUME NEW x \in S, x \in Range(s), x # Head(s)
      PROVE  x \in Range(Tail(s))
  <2>1. PICK j \in 1..Len(s) : s[j] = x
    BY <1>1, <1>5 DEF Range
  <2>2. j - 1 \in 1..Len(Tail(s)) /\ (j - 1) + 1 = j
    BY <1>1, <1>5, <2>1
  <2>3. Tail(s)[j - 1] = x
    BY <1>1, <2>1, <2>2
  <2> QED
    BY <1>1, <2>2, <2>3 DEF Range
<1> QED
  BY <1>1, <1>2, <1>3, <1>4, <1>5

\* The entry t at the head of the queue is shifted by the loop l.
Took(q, r, l, t) ==
    /\ t \in Txs /\ q.entry[t].state = "queued" /\ r.entry[t].state = "flight"
    /\ r.entry[t].intent = q.entry[t].intent /\ r.entry[t].owner = q.entry[t].owner
    /\ r.entry[t].gen = q.entry[t].gen
    /\ \A u \in Txs : u # t => r.entry[u] = q.entry[u]
    /\ r.loop[l].pc = "params" /\ r.loop[l].cur = t

\* The head of q was not current, or has failed.
HeadFails(q, r, h) ==
    /\ h \in Txs /\ q.entry[h].state = "queued"
    /\ ~Bound(q.entry[h]) \/ r.entry[h].state = "failed"

\* The loop l went on to the next entry, or ended.
Advances(q, r, l) ==
    /\ QueueInv(r, {}) /\ Keeps(q, r) /\ Quiet(q, r, {l}) /\ Signs(r, l)
    /\ \/ Spares(q, r)
       \/ q.transactions # <<>> /\ HeadFails(q, r, Head(q.transactions))

\* The loop that held nothing holds the head of the queue.
LEMMA TakeInv ==
  ASSUME NEW q, NEW l \in Loops, QueueInv(q, {l}), q.transactions # <<>>,
         NEW t, Names(t, Head(q.transactions)), NEW p,
         NEW r, Names(r, [q EXCEPT !.transactions = Tail(@), !.entry[t].state = "flight",
                                   !.loop[l] = [NoRun EXCEPT !.pc = "params", !.cur = t,
                                                             !.paid = p]])
  PROVE  QueueInv(r, {}) /\ Quiet(q, r, {l}) /\ Took(q, r, l, t)
<1> DEFINE n == [NoRun EXCEPT !.pc = "params", !.cur = t, !.paid = p]
           e == [q.entry[t] EXCEPT !.state = "flight"]
<1>1. QueueType(q) /\ Lined(q) /\ Holding(q, {l}) /\ Keyed(q, {l}) /\ Marks(q) /\ Adds(q)
  BY DEF QueueInv
<1>2. /\ q.transactions \in Seq(Txs) /\ IsInjective(q.transactions) /\ IsQueue(q)
      /\ q.loop = [m \in Loops |-> q.loop[m]] /\ q.entry = [u \in Txs |-> q.entry[u]]
      /\ DOMAIN q.entry = Txs
  BY <1>1 DEF QueueType, Lined
<1>3. /\ t \in Txs /\ Tail(q.transactions) \in Seq(Txs) /\ IsInjective(Tail(q.transactions))
      /\ t \in Range(q.transactions)
      /\ \A x \in Txs : x \in Range(Tail(q.transactions)) <=> x \in Range(q.transactions) /\ x # t
  BY <1>2, TailLines DEF Names
<1>4. /\ IsQueue(r) /\ r.transactions = Tail(q.transactions)
      /\ r.isProcessing = q.isProcessing /\ r.pending = q.pending /\ r.reserved = q.reserved
      /\ r.activePowWorker = q.activePowWorker /\ r.loose = q.loose /\ r.slack = q.slack
      /\ r.entry = [q.entry EXCEPT ![t] = e] /\ r.loop = [q.loop EXCEPT ![l] = n]
  <2> HIDE <1>1, <1>3
  <2> HIDE DEF n
  <2>1. r = [q EXCEPT !.transactions = Tail(@), !.entry[t].state = "flight", !.loop[l] = n]
    BY DEF Names, n
  <2> QED
    BY <1>2, <2>1, Zenon DEF IsQueue, QueueFields
<1>5. q.entry[t].state = "queued" /\ EntryType(q.entry[t]) /\ IsEntry(q.entry[t])
  BY <1>1, <1>3 DEF Lined, QueueType, EntryType
<1>6. /\ IsEntry(e) /\ e.state = "flight" /\ e.intent = q.entry[t].intent
      /\ e.owner = q.entry[t].owner /\ e.gen = q.entry[t].gen
  BY <1>5, Zenon DEF IsEntry
<1>7. /\ IsRun(n) /\ n.pc = "params" /\ n.cur = t /\ n.try = 0 /\ n.worker = FALSE
  BY Zenon DEF NoRun, IsRun
<1> HIDE DEF e, n
<1>8. /\ r.entry[t] = e /\ \A u \in Txs : u # t => r.entry[u] = q.entry[u]
      /\ DOMAIN r.entry = Txs /\ r.entry = [u \in Txs |-> r.entry[u]]
  BY <1>2, <1>3, <1>4, Zenon
<1>9. /\ r.loop[l] = n /\ \A m \in Loops : m # l => r.loop[m] = q.loop[m]
      /\ r.loop = [m \in Loops |-> r.loop[m]]
  BY <1>2, <1>4, Zenon
<1>10. EntryType(e) /\ Live(e) /\ Live(q.entry[t]) /\ RunType(n)
  <2>1. EntryType(e) /\ Live(e) /\ Live(q.entry[t])
    BY <1>5, <1>6 DEF EntryType, Live, States
  <2>2. 0 \in 0..MAX_POW_RETRIES
    BY QueueAssumption
  <2> QED
    BY <1>7, <2>1, <2>2 DEF RunType, PCs
<1>11. QueueType(r)
  <2>1. \A u \in Txs : EntryType(r.entry[u])
    BY <1>1, <1>8, <1>10 DEF QueueType
  <2>2. \A m \in Loops : RunType(r.loop[m])
    BY <1>1, <1>9, <1>10 DEF QueueType
  <2> QED
    BY <1>1, <1>3, <1>4, <1>8, <1>9, <2>1, <2>2, Zenon DEF QueueType
<1>12. Lined(r)
  <2>1. \A u \in Txs : r.entry[u].state = "queued" <=> q.entry[u].state = "queued" /\ u # t
    BY <1>6, <1>8
  <2> QED
    BY <1>1, <1>3, <1>4, <2>1 DEF Lined
<1>13. Holding(r, {})
  <2>1. Busy(r, l) /\ r.loop[l].cur = t /\ r.entry[t].state = "flight"
    BY <1>6, <1>7, <1>8, <1>9 DEF Busy
  <2>2. \A m \in Loops \ {l} : (Busy(r, m) <=> Busy(q, m)) /\ r.loop[m].cur = q.loop[m].cur
    BY <1>9 DEF Busy
  <2>3. \A u \in Txs : u # t => (r.entry[u].state = "flight" <=> q.entry[u].state = "flight")
    BY <1>8
  <2>4. \A m \in Loops \ {l} : Busy(r, m) => r.loop[m].cur \in Txs /\ r.loop[m].cur # t
           /\ q.entry[r.loop[m].cur].state = "flight"
    BY <1>1, <1>5, <2>2 DEF Holding
  <2>5. ASSUME NEW m \in Loops, Busy(r, m)
        PROVE  r.loop[m].cur \in Txs /\ r.entry[r.loop[m].cur].state = "flight"
    BY <1>3, <2>1, <2>3, <2>4, <2>5
  <2>6. ASSUME NEW m \in Loops, NEW k \in Loops, Busy(r, m), Busy(r, k),
               r.loop[m].cur = r.loop[k].cur
        PROVE  m = k
    BY <1>1, <2>1, <2>2, <2>4, <2>6 DEF Holding
  <2>7. ASSUME NEW u \in Txs, r.entry[u].state = "flight"
        PROVE  \E m \in Loops : Busy(r, m) /\ r.loop[m].cur = u
    BY <1>1, <2>1, <2>2, <2>3, <2>7 DEF Holding
  <2> QED
    BY <2>5, <2>6, <2>7 DEF Holding
<1>14. Keyed(r, {})
  <2> SUFFICES ASSUME NEW m \in Loops, r.loop[m].pc \notin {"idle", "params"}
               PROVE  r.loop[m].key = r.entry[r.loop[m].cur].owner
    BY Zenon DEF Keyed
  <2>1. m # l /\ q.loop[m].pc \notin {"idle", "params"} /\ r.loop[m] = q.loop[m]
    BY <1>7, <1>9
  <2>2. q.loop[m].key = q.entry[q.loop[m].cur].owner /\ q.loop[m].cur \in Txs
    BY <1>1, <2>1 DEF Keyed, Holding, Busy
  <2> QED
    BY <1>6, <1>8, <2>1, <2>2
<1>15. \A u \in Txs : /\ Live(r.entry[u]) <=> Live(q.entry[u])
                      /\ r.entry[u].intent = q.entry[u].intent
  BY <1>6, <1>8, <1>10
<1>16. Marks(r)
  BY <1>1, <1>4, <1>15 DEF Marks
<1>17. Adds(r)
  <2>1. Reserves(r) = Reserves(q)
    BY <1>15, ReservesSame
  <2> QED
    BY <1>1, <1>4, <2>1, Zenon DEF Adds
<1>18. Quiet(q, r, {l})
  BY <1>9 DEF Quiet
<1>19. Took(q, r, l, t)
  BY <1>3, <1>5, <1>6, <1>7, <1>8, <1>9 DEF Took
<1> QED
  BY <1>11, <1>12, <1>13, <1>14, <1>16, <1>17, <1>18, <1>19 DEF QueueInv

\* What happens to the entry that was taken happens to the head of the queue.
LEMMA TakeAdvances ==
  ASSUME NEW q, NEW a, NEW r, NEW l, NEW t, q.transactions # <<>>,
         Names(t, Head(q.transactions)), Took(q, a, l, t), Quiet(q, a, {l}),
         Works(a, r, l, t), Bound(q.entry[t])
  PROVE  Advances(q, r, l)
<1>1. Quiet(q, r, {l}) /\ QueueInv(r, {}) /\ Signs(r, l)
  BY QuietTwice DEF Works
<1>2. Keeps(q, a)
  BY DEF Keeps, Took, Live
<1>3. Keeps(q, r)
  BY <1>2, KeepsTwice DEF Works
<1>4. Bound(a.entry[t])
  BY DEF Took, Bound
<1>5. CASE Spares(a, r) /\ r.entry[t].state # "cancelled"
  <2>1. Spares(q, r)
    BY <1>5 DEF Spares, Took
  <2> QED
    BY <1>1, <1>3, <2>1 DEF Advances
<1>6. CASE r.entry[t].state = "failed"
  <2>1. HeadFails(q, r, t)
    BY <1>6 DEF HeadFails, Took
  <2> QED
    BY <1>1, <1>3, <2>1 DEF Advances, Names
<1> QED
  BY <1>4, <1>5, <1>6 DEF Works, GivesUp

\* A loop that is over signs nothing.
LEMMA EndAdvances ==
  ASSUME NEW q, NEW l \in Loops, QueueInv(q, {l}), NEW r, Names(r, LoopEnd(q, l))
  PROVE  Advances(q, r, l)
<1>1. QueueInv(r, {}) /\ Keeps(q, r) /\ Quiet(q, r, {}) /\ Ended(q, r, l)
  BY LoopEndInv, Zenon
<1>2. Quiet(q, r, {l})
  BY <1>1, QuietWeaker
<1>3. Signs(r, l) /\ Spares(q, r)
  BY <1>1 DEF Ended, Signs, Spares
<1> QED
  BY <1>1, <1>2, <1>3 DEF Advances

\* The top of the while loop.
LEMMA DequeueAdvances ==
  ASSUME NEW q, NEW l \in Loops, QueueInv(q, {l}), NEW r, Names(r, Dequeue(q, l))
  PROVE  Advances(q, r, l)
<1>1. CASE q.transactions = <<>>
  <2>1. Names(r, LoopEnd(q, l))
    BY <1>1 DEF Dequeue, Names
  <2> QED
    BY <2>1, EndAdvances
<1>2. CASE q.transactions # <<>>
  <2>1. PICK t : Names(t, Head(q.transactions))
    BY DEF Names
  <2>2. PICK p : Names(p, session.level >= 1)
    BY DEF Names
  <2>3. PICK a : Names(a, [q EXCEPT !.transactions = Tail(@), !.entry[t].state = "flight",
                                    !.loop[l] = [NoRun EXCEPT !.pc = "params", !.cur = t,
                                                              !.paid = p]])
    BY DEF Names
  <2>4. QueueInv(a, {}) /\ Quiet(q, a, {l}) /\ Took(q, a, l, t)
    BY <1>2, <2>1, <2>3, TakeInv, Zenon
  <2>5. CASE ~Bound(q.entry[t])
    <3>1. PICK d : Names(d, Drain(q))
      BY DEF Names
    <3>2. Names(r, LoopEnd(d, l))
      BY <1>2, <2>1, <2>5, <3>1 DEF Dequeue, Names
    <3>3. QueueInv(d, {l}) /\ Keeps(q, d) /\ Quiet(q, d, {})
      BY <3>1, DrainInv, Zenon
    <3>4. Advances(d, r, l)
      BY <3>2, <3>3, EndAdvances
    <3>5. Keeps(q, r) /\ Quiet(q, r, {l})
      BY <3>3, <3>4, KeepsTwice, QuietTwice, QuietWeaker DEF Advances
    <3>6. HeadFails(q, r, Head(q.transactions))
      BY <2>1, <2>4, <2>5 DEF HeadFails, Took, Names
    <3> QED
      BY <1>2, <3>4, <3>5, <3>6 DEF Advances
  <2>6. CASE Bound(q.entry[t]) /\ session.level = 0 /\ ~q.entry[t].intent.feeOnly
    <3>1. r = a
      BY <1>2, <2>1, <2>2, <2>3, <2>6 DEF Dequeue, Names
    <3>2. Signs(a, l) /\ Busy(a, l) /\ Names(t, a.loop[l].cur)
      BY <2>4 DEF Took, Signs, Busy, Names
    <3>3. Quiet(a, a, {l})
      BY DEF Quiet
    <3>4. Works(a, r, l, t)
      BY <2>4, <3>1, <3>2, <3>3, MoveWorks
    <3> QED
      BY <1>2, <2>1, <2>4, <2>6, <3>4, TakeAdvances
  <2>7. CASE Bound(q.entry[t]) /\ ~(session.level = 0 /\ ~q.entry[t].intent.feeOnly)
    <3>1. Names(r, DeriveAndAttempt(a, l))
      BY <1>2, <2>1, <2>2, <2>3, <2>7 DEF Dequeue, Names
    <3>2. a.loop[l].pc = "params" /\ Names(t, a.loop[l].cur)
      BY <2>4 DEF Took, Names
    <3>3. Works(a, r, l, t)
      BY <2>4, <3>1, <3>2, DeriveWorks
    <3> QED
      BY <1>2, <2>1, <2>4, <2>7, <3>3, TakeAdvances
  <2> QED
    BY <2>5, <2>6, <2>7
<1> QED
  BY <1>1, <1>2

\* What a step of the loop l on t that ends with a success does.
Succeeds(q, r, l, t) ==
    /\ QueueInv(r, {}) /\ Quiet(q, r, {l}) /\ Signs(r, l)
    /\ t \in Txs /\ q.entry[t].state = "flight" /\ r.entry[t].state = "ok"
    /\ \A u \in Txs : u # t =>
          IF Live(q.entry[u]) THEN Live(r.entry[u]) \/ r.entry[u].state \in Failures
          ELSE r.entry[u] = q.entry[u]
    /\ \/ Spares(q, r)
       \/ q.transactions # <<>> /\ HeadFails(q, r, Head(q.transactions))

\* The transaction went through, and the loop turns to the next one.
LEMMA SucceedWorks ==
  ASSUME NEW q, QueueInv(q, {}), NEW l \in Loops, Busy(q, l),
         NEW t, Names(t, q.loop[l].cur), NEW r, Names(r, Succeed(q, l))
  PROVE  Succeeds(q, r, l, t)
<1>1. PICK a : Names(a, Resolve(q, t, "ok"))
  BY DEF Names
<1>2. Names(r, Dequeue(a, l))
  BY <1>1 DEF Succeed, Names
<1>3. QueueInv(a, {l}) /\ SettlesOne(q, a, t, "ok")
  <2>1. "ok" \in Outcomes
    BY DEF Outcomes
  <2> QED
    BY <1>1, <2>1, ResolveInv, Zenon
<1>4. Advances(a, r, l)
  BY <1>2, <1>3, DequeueAdvances
<1>5. Settled("ok").state = "ok" /\ ~Live(Settled("ok"))
  BY SettledEntry DEF Outcomes
<1>6. Quiet(q, r, {l})
  <2>1. Quiet(q, a, {l})
    BY <1>3 DEF SettlesOne, Quiet
  <2> QED
    BY <1>4, <2>1, QuietTwice DEF Advances
<1>7. t \in Txs /\ q.entry[t].state = "flight" /\ r.entry[t].state = "ok"
  BY <1>3, <1>4, <1>5 DEF SettlesOne, Advances, Keeps
<1>8. \A u \in Txs : u # t =>
          IF Live(q.entry[u]) THEN Live(r.entry[u]) \/ r.entry[u].state \in Failures
          ELSE r.entry[u] = q.entry[u]
  BY <1>3, <1>4 DEF SettlesOne, Advances, Keeps, Failures
<1>9. CASE Spares(a, r)
  <2>1. Spares(q, r)
    BY <1>3, <1>7, <1>9 DEF Spares, SettlesOne
  <2> QED
    BY <1>4, <1>6, <1>7, <1>8, <2>1 DEF Succeeds, Advances
<1>10. CASE a.transactions # <<>> /\ HeadFails(a, r, Head(a.transactions))
  <2>1. q.transactions # <<>> /\ Head(q.transactions) = Head(a.transactions)
    BY <1>3, <1>10 DEF SettlesOne
  <2>2. HeadFails(q, r, Head(a.transactions))
    BY <1>3, <1>5, <1>10 DEF HeadFails, SettlesOne
  <2> QED
    BY <1>4, <1>6, <1>7, <1>8, <2>1, <2>2 DEF Succeeds, Advances
<1> QED
  BY <1>4, <1>9, <1>10 DEF Advances

-----------------------------------------------------------------------------
(* What happens outside the loops.                                         *)

\* Where neither the queue nor an entry nor a loop has changed.
LEMMA SameEntries ==
  ASSUME NEW q, NEW r, NEW out, r.transactions = q.transactions, r.entry = q.entry,
         r.loop = q.loop, Lined(q), Holding(q, out), Keyed(q, out)
  PROVE  Lined(r) /\ Holding(r, out) /\ Keyed(r, out)
<1>1. Lined(r)
  BY Zenon DEF Lined
<1>2. Holding(r, out)
  BY DEF Holding, Busy
<1>3. Keyed(r, out)
  BY DEF Keyed
<1> QED
  BY <1>1, <1>2, <1>3

\* Only what is reserved has changed, downwards or not at all.
Lowers(q, r) ==
    /\ IsQueue(r) /\ r.transactions = q.transactions /\ r.isProcessing = q.isProcessing
    /\ r.pending = q.pending /\ r.activePowWorker = q.activePowWorker
    /\ r.loose = q.loose /\ r.entry = q.entry /\ r.loop = q.loop
    /\ r.reserved \in Nat /\ r.reserved <= q.reserved /\ r.slack \in BOOLEAN
    /\ ~r.slack => ~q.slack /\ r.reserved = q.reserved

\* A write-off or a release of what was never reserved leaves a slack behind.
LEMMA LowersInv ==
  ASSUME NEW q, QueueInv(q, {}), NEW r, Lowers(q, r)
  PROVE  QueueInv(r, {})
<1>1. QueueType(q) /\ Lined(q) /\ Holding(q, {}) /\ Keyed(q, {}) /\ Marks(q) /\ Adds(q)
  BY DEF QueueInv
<1>2. QueueType(r)
  BY <1>1, Zenon DEF QueueType, Lowers
<1>3. Lined(r) /\ Holding(r, {}) /\ Keyed(r, {}) /\ Marks(r)
  <2>1. Lined(r) /\ Holding(r, {}) /\ Keyed(r, {})
    BY <1>1, SameEntries DEF Lowers
  <2>2. Marks(r)
    BY <1>1, Zenon DEF Marks, Lowers
  <2> QED
    BY <2>1, <2>2
<1>4. Adds(r)
  <2> DEFINE s == SumFunction(Reserves(q))
  <2>1. SumFunction(Reserves(r)) = s
    BY Zenon DEF Reserves, Lowers
  <2>2. s \in Nat
    BY <1>1, ReservesType DEF Laws, QueueInv
  <2>3. q.reserved \in Nat /\ q.reserved <= s /\ (~q.slack => q.reserved = s)
    BY <1>1 DEF QueueType, Adds
  <2> HIDE DEF s
  <2>4. r.reserved <= s /\ (~r.slack => r.reserved = s)
    BY <2>2, <2>3 DEF Lowers
  <2> QED
    BY <2>1, <2>4 DEF Adds
<1> QED
  BY <1>2, <1>3, <1>4 DEF QueueInv

\* Only the pending marks have changed: a raw method has set its own.
MarksOnly(q, r, i) ==
    /\ IsQueue(r) /\ r.transactions = q.transactions /\ r.isProcessing = q.isProcessing
    /\ r.activePowWorker = q.activePowWorker /\ r.loose = q.loose /\ r.entry = q.entry
    /\ r.loop = q.loop /\ r.reserved = q.reserved /\ r.slack = q.slack
    /\ r.pending = q.pending \cup ({i.mark} \ {NoMark})

\* A mark that is left behind belongs to a raw method.
LEMMA MarksOnlyInv ==
  ASSUME NEW q, QueueInv(q, {}), NEW i \in Intents, i.entry = "raw", NEW r, MarksOnly(q, r, i)
  PROVE  QueueInv(r, {})
<1>1. QueueType(q) /\ Lined(q) /\ Holding(q, {}) /\ Keyed(q, {}) /\ Marks(q) /\ Adds(q)
  BY DEF QueueInv
<1>2. r.pending \subseteq STRING
  <2>1. i.mark \in STRING \cup {NoMark}
    BY IntentFields
  <2> QED
    BY <1>1, <2>1 DEF QueueType, MarksOnly
<1>3. QueueType(r)
  BY <1>1, <1>2, Zenon DEF QueueType, MarksOnly
<1>4. Lined(r) /\ Holding(r, {}) /\ Keyed(r, {}) /\ Adds(r)
  <2>1. Lined(r) /\ Holding(r, {}) /\ Keyed(r, {})
    BY <1>1, SameEntries DEF MarksOnly
  <2>2. Adds(r)
    BY <1>1, Zenon DEF Adds, Reserves, MarksOnly
  <2> QED
    BY <2>1, <2>2
<1>5. Marks(r)
  <2>1. r.entry = q.entry /\ r.loose = q.loose
    BY DEF MarksOnly
  <2>2. ASSUME NEW m \in r.pending
        PROVE  \/ \E t \in Txs : Live(r.entry[t]) /\ r.entry[t].intent.mark = m
               \/ \E j \in Intents : j.mark = m /\ j.entry = "raw"
    <3>1. m \in q.pending \/ m = i.mark
      BY <2>2 DEF MarksOnly
    <3> QED
      BY <1>1, <2>1, <3>1, Zenon DEF Marks
  <2>3. q.pending \subseteq r.pending
    BY DEF MarksOnly
  <2> QED
    BY <1>1, <2>1, <2>2, <2>3 DEF Marks
<1> QED
  BY <1>3, <1>4, <1>5 DEF QueueInv

\* push() of an entry that is not queued.
LEMMA AppendLines ==
  ASSUME NEW S, NEW s \in Seq(S), IsInjective(s), NEW t \in S, t \notin Range(s)
  PROVE  /\ Append(s, t) \in Seq(S) /\ IsInjective(Append(s, t))
         /\ \A x \in S : x \in Range(Append(s, t)) <=> x \in Range(s) \/ x = t
         /\ s # <<>> => Append(s, t) # <<>> /\ Head(Append(s, t)) = Head(s)
<1> DEFINE a == Append(s, t)
<1>1. /\ a \in Seq(S) /\ Len(s) \in Nat /\ Len(a) = Len(s) + 1 /\ a[Len(s) + 1] = t
      /\ \A j \in 1..Len(s) : a[j] = s[j]
      /\ DOMAIN s = 1..Len(s) /\ DOMAIN a = 1..Len(s) + 1
  OBVIOUS
<1>2. \A j \in 1..Len(s) : s[j] # t
  BY <1>1 DEF Range
<1> HIDE DEF a
<1>3. IsInjective(a)
  <2> SUFFICES ASSUME NEW j \in DOMAIN a, NEW k \in DOMAIN a, a[j] = a[k] PROVE j = k
    BY DEF IsInjective
  <2>1. CASE j \in 1..Len(s) /\ k \in 1..Len(s)
    BY <1>1, <2>1 DEF IsInjective
  <2>2. CASE ~(j \in 1..Len(s) /\ k \in 1..Len(s))
    BY <1>1, <1>2, <2>2
  <2> QED
    BY <2>1, <2>2
<1>4. ASSUME NEW x \in S
      PROVE  x \in Range(a) <=> x \in Range(s) \/ x = t
  <2>1. ASSUME x \in Range(a) PROVE x \in Range(s) \/ x = t
    <3>1. PICK j \in DOMAIN a : a[j] = x
      BY <2>1 DEF Range
    <3>2. j = Len(s) + 1 \/ j \in 1..Len(s)
      BY <1>1, <3>1
    <3> QED
      BY <1>1, <3>1, <3>2 DEF Range
  <2>2. ASSUME x \in Range(s) PROVE x \in Range(a)
    <3>1. PICK j \in 1..Len(s) : s[j] = x
      BY <1>1, <2>2 DEF Range
    <3> QED
      BY <1>1, <3>1 DEF Range
  <2>3. t \in Range(a)
    BY <1>1 DEF Range
  <2> QED
    BY <2>1, <2>2, <2>3
<1>5. s # <<>> => a # <<>> /\ Head(a) = Head(s)
  <2> SUFFICES ASSUME s # <<>> PROVE a # <<>> /\ Head(a) = Head(s)
    OBVIOUS
  <2>1. Len(s) # 0 /\ Head(s) = s[1]
    OBVIOUS
  <2>2. a # <<>> /\ Head(a) = a[1]
    BY <1>1
  <2> QED
    BY <1>1, <2>1, <2>2
<1> QED
  BY <1>1, <1>3, <1>4, <1>5 DEF a

\* The least element of a set of numbers is one of its elements.
LEMMA MinMember ==
  ASSUME NEW q, QueueInv(q, {}), NEW S, S \subseteq Nat, S # {}
  PROVE  Min(S) \in S
  BY DEF QueueInv, Laws

\* A loop that is idle holds nothing.
LEMMA IdleOut ==
  ASSUME NEW q, QueueInv(q, {}), NEW l \in Loops, ~Busy(q, l)
  PROVE  QueueInv(q, {l})
<1>1. Holding(q, {l})
  BY DEF QueueInv, Holding
<1>2. Keyed(q, {l})
  BY DEF QueueInv, Keyed
<1> QED
  BY <1>1, <1>2 DEF QueueInv

\* The entry t is new, in the queue, and has its mark and its reservation.
Stamped(q, r, t, i) ==
    /\ IsQueue(r) /\ r.isProcessing \in BOOLEAN
    /\ r.transactions = Append(q.transactions, t)
    /\ r.pending = q.pending \cup ({i.mark} \ {NoMark})
    /\ r.reserved = q.reserved + i.reserve
    /\ r.activePowWorker = q.activePowWorker /\ r.loose = q.loose /\ r.slack = q.slack
    /\ IsEntry(r.entry[t]) /\ r.entry[t].state = "queued" /\ r.entry[t].intent = i
    /\ \A u \in Txs : u # t => r.entry[u] = q.entry[u]
    /\ DOMAIN r.entry = Txs /\ r.entry = [u \in Txs |-> r.entry[u]]
    /\ r.loop = q.loop

\* _pushStampedTransaction, up to processTransactions.
LEMMA StampedInv ==
  ASSUME NEW q, QueueInv(q, {}), NEW i \in Intents, i.mark \notin q.pending,
         NEW t \in Txs, ~Live(q.entry[t]), NEW r, Stamped(q, r, t, i)
  PROVE  QueueInv(r, {})
<1>1. QueueType(q) /\ Lined(q) /\ Holding(q, {}) /\ Keyed(q, {}) /\ Marks(q) /\ Adds(q)
  BY DEF QueueInv
<1>2. i.mark \in STRING \cup {NoMark} /\ i.reserve \in Nat
  BY IntentFields
<1>3. /\ q.transactions \in Seq(Txs) /\ IsInjective(q.transactions)
      /\ t \notin Range(q.transactions)
  BY <1>1 DEF QueueType, Lined, Live
<1>4. /\ r.transactions \in Seq(Txs) /\ IsInjective(r.transactions)
      /\ \A x \in Txs : x \in Range(r.transactions) <=> x \in Range(q.transactions) \/ x = t
  BY <1>3, AppendLines DEF Stamped
<1>5. EntryType(r.entry[t]) /\ Live(r.entry[t]) /\ r.entry[t].intent = i
  BY DEF Stamped, EntryType, States, Live
<1>6. \A u \in Txs : u # t => r.entry[u] = q.entry[u]
  BY DEF Stamped
<1>7. QueueType(r)
  <2>1. \A u \in Txs : EntryType(r.entry[u])
    BY <1>1, <1>5, <1>6 DEF QueueType
  <2>2. r.pending \subseteq STRING
    BY <1>1, <1>2 DEF QueueType, Stamped
  <2>3. r.reserved \in Nat
    <3>1. q.reserved \in Nat /\ i.reserve \in Nat /\ r.reserved = q.reserved + i.reserve
      BY <1>1, <1>2, Zenon DEF QueueType, Stamped
    <3> QED
      BY <3>1
  <2> QED
    BY <1>1, <1>4, <2>1, <2>2, <2>3, Zenon DEF QueueType, Stamped
<1>8. Lined(r)
  <2>1. \A u \in Txs : r.entry[u].state = "queued" <=> q.entry[u].state = "queued" \/ u = t
    BY <1>6 DEF Stamped
  <2> QED
    BY <1>1, <1>4, <2>1 DEF Lined
<1>9. \A u \in Txs : r.entry[u].state = "flight" <=> q.entry[u].state = "flight"
  BY <1>6 DEF Stamped, Live
<1>10. Holding(r, {}) /\ Keyed(r, {})
  <2>1. r.loop = q.loop
    BY DEF Stamped
  <2>2. Holding(r, {})
    <3>1. \A l \in Loops : Busy(r, l) <=> Busy(q, l)
      BY <2>1, Zenon DEF Busy
    <3>2. \A l \in Loops : r.loop[l].cur = q.loop[l].cur
      BY <2>1
    <3> HIDE <2>1
    <3>3. Holding(q, {})
      BY <1>1
    <3> HIDE <1>1
    <3>4. \A l \in Loops : Busy(r, l) =>
             r.loop[l].cur \in Txs /\ r.entry[r.loop[l].cur].state = "flight"
      <4> SUFFICES ASSUME NEW l \in Loops, Busy(r, l)
                   PROVE  r.loop[l].cur \in Txs /\ r.entry[r.loop[l].cur].state = "flight"
        BY Zenon
      <4>1. q.loop[l].cur \in Txs /\ q.entry[q.loop[l].cur].state = "flight"
        BY <3>1, <3>3, Zenon DEF Holding
      <4>2. r.entry[q.loop[l].cur].state = "flight"
        BY <1>9, <4>1, Zenon
      <4> QED
        BY <3>2, <4>1, <4>2, Zenon
    <3>5. \A l, m \in Loops : Busy(r, l) /\ Busy(r, m) /\ r.loop[l].cur = r.loop[m].cur => l = m
      BY <3>1, <3>2, <3>3, Zenon DEF Holding
    <3>6. \A u \in Txs : r.entry[u].state = "flight" =>
             \E l \in Loops : Busy(r, l) /\ r.loop[l].cur = u
      BY <1>9, <3>1, <3>2, <3>3, Zenon DEF Holding
    <3> QED
      BY <3>4, <3>5, <3>6, Zenon DEF Holding
  <2>3. Keyed(r, {})
    <3> SUFFICES ASSUME NEW m \in Loops, r.loop[m].pc \notin {"idle", "params"}
                 PROVE  r.loop[m].key = r.entry[r.loop[m].cur].owner
      BY Zenon DEF Keyed
    <3>1. /\ q.loop[m].key = q.entry[q.loop[m].cur].owner
          /\ q.loop[m].cur \in Txs /\ q.entry[q.loop[m].cur].state = "flight"
      BY <1>1, <2>1 DEF Keyed, Holding, Busy
    <3>2. q.loop[m].cur # t
      BY <3>1 DEF Live
    <3> QED
      BY <1>6, <2>1, <3>1, <3>2
  <2> QED
    BY <2>2, <2>3
<1>11. Marks(r)
  <2>1. r.pending = q.pending \cup ({i.mark} \ {NoMark}) /\ r.loose = q.loose
    BY DEF Stamped
  <2>2. ASSUME NEW m \in r.pending
        PROVE  \/ \E u \in Txs : Live(r.entry[u]) /\ r.entry[u].intent.mark = m
               \/ \E j \in Intents : j.mark = m /\ j.entry = "raw"
    <3>1. CASE m \in q.pending
      <4>1. \/ \E u \in Txs : Live(q.entry[u]) /\ q.entry[u].intent.mark = m
            \/ \E j \in Intents : j.mark = m /\ j.entry = "raw"
        BY <1>1, <3>1 DEF Marks
      <4> QED
        BY <4>1, <1>6, Zenon
    <3>2. CASE m = i.mark
      BY <1>5, <3>2, Zenon
    <3> QED
      BY <2>1, <2>2, <3>1, <3>2
  <2>3. ASSUME NEW u \in Txs, u # t, Live(r.entry[u])
        PROVE  /\ Live(q.entry[u]) /\ r.entry[u].intent.mark = q.entry[u].intent.mark
               /\ r.entry[u].intent.mark \in q.pending \cup r.loose \cup {NoMark}
    BY <1>1, <1>6, <2>1, <2>3 DEF Marks
  <2>4. \A u \in Txs : Live(r.entry[u]) =>
           r.entry[u].intent.mark \in r.pending \cup r.loose \cup {NoMark}
    BY <1>5, <2>1, <2>3
  <2>5. ASSUME NEW u \in Txs, NEW v \in Txs, u # v, Live(r.entry[u]), Live(r.entry[v]),
               r.entry[u].intent.mark = r.entry[v].intent.mark
        PROVE  r.entry[u].intent.mark \in r.loose \cup {NoMark}
    <3>1. CASE u # t /\ v # t
      BY <1>1, <2>1, <2>3, <2>5, <3>1 DEF Marks
    <3>2. CASE u = t \/ v = t
      BY <1>5, <2>3, <2>5, <3>2
    <3> QED
      BY <3>1, <3>2
  <2> QED
    BY <2>2, <2>4, <2>5 DEF Marks
<1>12. Adds(r)
  <2> DEFINE sq == SumFunction(Reserves(q))
             sr == SumFunction(Reserves(r))
             ir == i.reserve
  <2>1. /\ Reserves(q) \in [Txs -> Nat] /\ Reserves(r) \in [Txs -> Nat]
        /\ Reserves(q)[t] = 0 /\ Reserves(r)[t] = ir
        /\ \A u \in Txs : u # t => Reserves(r)[u] = Reserves(q)[u]
    <3>1. /\ Reserves(q) \in [Txs -> Nat]
          /\ \A u \in Txs : Reserves(q)[u] = IF Live(q.entry[u]) THEN q.entry[u].intent.reserve ELSE 0
      BY <1>1, ReservesType
    <3>2. /\ Reserves(r) \in [Txs -> Nat]
          /\ \A u \in Txs : Reserves(r)[u] = IF Live(r.entry[u]) THEN r.entry[u].intent.reserve ELSE 0
      BY <1>7, ReservesType
    <3>3. \A u \in Txs : u # t => Reserves(r)[u] = Reserves(q)[u]
      BY <1>6, <3>1, <3>2, Zenon
    <3> QED
      BY <1>5, <3>1, <3>2, <3>3, Zenon
  <2>2. sq \in Nat /\ sr = (sq - 0) + ir
    <3>1. Laws
      BY DEF QueueInv
    <3> QED
      BY <2>1, <3>1 DEF Laws
  <2>3. /\ q.reserved \in Nat /\ q.reserved <= sq /\ (~q.slack => q.reserved = sq)
        /\ r.reserved = q.reserved + ir /\ r.slack = q.slack /\ ir \in Nat
    BY <1>1, <1>2 DEF QueueType, Adds, Stamped
  <2> HIDE DEF sq, sr, ir
  <2>4. r.reserved <= sr /\ (~r.slack => r.reserved = sr)
    BY <2>2, <2>3
  <2> QED
    BY <2>4 DEF Adds, sr
<1> QED
  BY <1>7, <1>8, <1>10, <1>11, <1>12 DEF QueueInv

-----------------------------------------------------------------------------
(* The steps.                                                              *)

\* Nothing the node has accepted is still live.
CountInv ==
    /\ accepted \in [Txs -> Nat]
    /\ \A t \in Txs : Live(tx.entry[t]) => accepted[t] = 0

\* What every step does.
StepOK ==
    /\ QueueInv(tx', {}) /\ CountInv'
    /\ \A l \in Loops : StartsSigning(l) => SignsAsOwner(l)
    /\ (\E t \in Txs : Drops(t)) => HasReason
    /\ Promise!Next

\* A loop that starts to sign is the one that took the step.
LEMMA SigningOK ==
  ASSUME NEW l \in Loops, QueueInv(tx', {}), Quiet(tx, tx', {l}), Signs(tx', l)
  PROVE  \A m \in Loops : StartsSigning(m) => SignsAsOwner(m)
<1> SUFFICES ASSUME NEW m \in Loops, StartsSigning(m)
             PROVE  SignsAsOwner(m)
  OBVIOUS
<1>1. m = l
  BY DEF Quiet, StartsSigning
<1>2. tx'.loop[m].pc = "crypto" /\ Current(tx'.entry[tx'.loop[m].cur])
  BY <1>1 DEF StartsSigning, Signs
<1>3. tx'.loop[m].key = tx'.entry[tx'.loop[m].cur].owner
  BY <1>2 DEF QueueInv, Keyed
<1> QED
  BY <1>2, <1>3 DEF SignsAsOwner, HasOwnersKey

\* What an entry's caller sees of a step that leaves the entry alone, keeps it
\* live, or ends it.
LEMMA PromiseOK ==
  ASSUME NEW t \in Txs, accepted \in [Txs -> Nat], accepted' \in [Txs -> Nat],
         Live(tx.entry[t]) => accepted[t] = 0,
         \/ tx'.entry[t] = tx.entry[t] /\ accepted'[t] = accepted[t]
         \/ Live(tx.entry[t]) /\ Live(tx'.entry[t]) /\ accepted'[t] = accepted[t]
         \/ /\ Live(tx.entry[t]) /\ ~Live(tx'.entry[t])
            /\ \/ tx'.entry[t].state = "ok" /\ accepted'[t] = 1
               \/ tx'.entry[t].state = "failed" /\ accepted'[t] \in {0, 1}
               \/ tx'.entry[t].state = "cancelled" /\ accepted'[t] = 0
         \/ /\ ~Live(tx.entry[t]) /\ tx.entry[t].state \in States /\ accepted'[t] = 0
            /\ Live(tx'.entry[t]) \/ tx'.entry[t].state \in Failures
  PROVE  Promise!Rest(t) \/ Promise!Issue(t) \/ Promise!Settle(t)
  BY DEF Promise!Rest, Promise!Issue, Promise!Settle, Live, States, Failures

\* A step of the loop l on its entry that does not succeed.
LEMMA WorksStep ==
  ASSUME QueueInv(tx, {}), CountInv, NEW l \in Loops, NEW t, Works(tx, tx', l, t),
         \/ accepted' = accepted
         \/ tx'.entry[t].state = "failed" /\ accepted' = [accepted EXCEPT ![t] = @ + 1]
  PROVE  StepOK
<1>1. /\ QueueInv(tx', {}) /\ Keeps(tx, tx') /\ Quiet(tx, tx', {l}) /\ Signs(tx', l)
      /\ t \in Txs /\ tx.entry[t].state = "flight" /\ Live(tx.entry[t])
  BY DEF Works, Live
<1>2. accepted[t] = 0 /\ accepted \in [Txs -> Nat]
  BY <1>1 DEF CountInv
<1>3. /\ accepted' \in [Txs -> Nat]
      /\ \A u \in Txs : u # t => accepted'[u] = accepted[u]
      /\ \/ accepted'[t] = 0
         \/ accepted'[t] = 1 /\ tx'.entry[t].state = "failed"
  BY <1>1, <1>2
<1>4. CountInv'
  <2>1. \A u \in Txs : Live(tx'.entry[u]) => accepted'[u] = 0
    BY <1>1, <1>3 DEF CountInv, Keeps, Live
  <2> QED
    BY <1>3, <2>1 DEF CountInv
<1>5. Promise!Next
  <2> SUFFICES ASSUME NEW u \in Txs
               PROVE  Promise!Rest(u) \/ Promise!Issue(u) \/ Promise!Settle(u)
    BY DEF Promise!Next
  <2>1. accepted'[u] = accepted[u] \/ u = t
    BY <1>3
  <2>2. CASE ~Live(tx.entry[u])
    <3>1. tx'.entry[u] = tx.entry[u] /\ accepted'[u] = accepted[u]
      BY <1>1, <2>1, <2>2 DEF Keeps
    <3> QED
      BY <1>2, <1>3, <2>2, <3>1, PromiseOK
  <2>3. CASE Live(tx.entry[u]) /\ Live(tx'.entry[u])
    <3>1. accepted[u] = 0 /\ accepted'[u] = accepted[u]
      BY <1>2, <1>3, <2>1, <2>3 DEF CountInv, Live
    <3> QED
      BY <1>2, <1>3, <2>3, <3>1, PromiseOK
  <2>4. CASE Live(tx.entry[u]) /\ ~Live(tx'.entry[u])
    <3>1. /\ accepted[u] = 0
          /\ \/ tx'.entry[u].state = "failed" /\ accepted'[u] \in {0, 1}
             \/ tx'.entry[u].state = "cancelled" /\ accepted'[u] = 0
      BY <1>1, <1>2, <1>3, <2>1, <2>4 DEF CountInv, Keeps
    <3> QED
      BY <1>2, <1>3, <2>4, <3>1, PromiseOK
  <2> QED
    BY <2>2, <2>3, <2>4
<1>6. (\E u \in Txs : Drops(u)) => HasReason
  <2>1. CASE Spares(tx, tx')
    BY <2>1 DEF Spares, Drops
  <2>2. CASE GivesUp(tx, tx', t)
    <3>1. Fails(t)
      BY <1>1, <2>2 DEF GivesUp, Fails
    <3> QED
      BY <1>1, <3>1 DEF HasReason
  <2> QED
    BY <2>1, <2>2 DEF Works
<1> QED
  BY <1>1, <1>4, <1>5, <1>6, SigningOK DEF StepOK

\* A step of the loop l on t that succeeds.
LEMMA SucceedsStep ==
  ASSUME QueueInv(tx, {}), CountInv, NEW l \in Loops, NEW t, Succeeds(tx, tx', l, t),
         accepted' = [accepted EXCEPT ![t] = @ + 1]
  PROVE  StepOK
<1>1. /\ QueueInv(tx', {}) /\ Quiet(tx, tx', {l}) /\ Signs(tx', l)
      /\ t \in Txs /\ Live(tx.entry[t]) /\ tx'.entry[t].state = "ok" /\ ~Live(tx'.entry[t])
  BY DEF Succeeds, Live
<1>2. \A u \in Txs : u # t =>
          IF Live(tx.entry[u]) THEN Live(tx'.entry[u]) \/ tx'.entry[u].state \in Failures
          ELSE tx'.entry[u] = tx.entry[u]
  BY DEF Succeeds
<1>3. /\ accepted \in [Txs -> Nat] /\ accepted' \in [Txs -> Nat]
      /\ accepted[t] = 0 /\ accepted'[t] = 1
      /\ \A u \in Txs : u # t => accepted'[u] = accepted[u]
  BY <1>1 DEF CountInv
<1>4. CountInv'
  <2>1. \A u \in Txs : Live(tx'.entry[u]) => accepted'[u] = 0
    BY <1>1, <1>2, <1>3 DEF CountInv
  <2> QED
    BY <1>3, <2>1 DEF CountInv
<1>5. Promise!Next
  <2> SUFFICES ASSUME NEW u \in Txs
               PROVE  Promise!Rest(u) \/ Promise!Issue(u) \/ Promise!Settle(u)
    BY DEF Promise!Next
  <2>1. CASE u = t
    BY <1>1, <1>3, <2>1, PromiseOK
  <2>2. CASE u # t /\ ~Live(tx.entry[u])
    BY <1>2, <1>3, <2>2, PromiseOK
  <2>3. CASE u # t /\ Live(tx.entry[u]) /\ Live(tx'.entry[u])
    BY <1>3, <2>3, PromiseOK DEF CountInv
  <2>4. CASE u # t /\ Live(tx.entry[u]) /\ ~Live(tx'.entry[u])
    <3>1. tx'.entry[u].state \in Failures /\ accepted[u] = 0 /\ accepted'[u] = 0
      BY <1>2, <1>3, <2>4 DEF CountInv
    <3> QED
      BY <1>3, <2>4, <3>1, PromiseOK DEF Failures
  <2> QED
    BY <2>1, <2>2, <2>3, <2>4
<1>6. (\E u \in Txs : Drops(u)) => HasReason
  <2>1. CASE Spares(tx, tx')
    BY <2>1 DEF Spares, Drops
  <2>2. CASE HeadFails(tx, tx', Head(tx.transactions))
    BY <2>2 DEF HeadFails, HasReason, Fails, Live
  <2> QED
    BY <2>1, <2>2 DEF Succeeds
<1> QED
  BY <1>1, <1>4, <1>5, <1>6, SigningOK DEF StepOK

\* A step in which no loop moves on.
LEMMA QuietStep ==
  ASSUME QueueInv(tx, {}), CountInv, QueueInv(tx', {}), Keeps(tx, tx'), Quiet(tx, tx', {}),
         Spares(tx, tx') \/ session.reset = "drain", accepted' = accepted
  PROVE  StepOK
<1>1. CountInv'
  <2>1. \A u \in Txs : Live(tx'.entry[u]) => accepted'[u] = 0
    BY DEF CountInv, Keeps
  <2> QED
    BY <2>1 DEF CountInv
<1>2. \A m \in Loops : StartsSigning(m) => SignsAsOwner(m)
  BY DEF StartsSigning, Quiet
<1>3. Promise!Next
  <2> SUFFICES ASSUME NEW u \in Txs
               PROVE  Promise!Rest(u) \/ Promise!Issue(u) \/ Promise!Settle(u)
    BY DEF Promise!Next
  <2>1. accepted \in [Txs -> Nat] /\ (Live(tx.entry[u]) => accepted[u] = 0)
    BY DEF CountInv
  <2>2. CASE ~Live(tx.entry[u])
    BY <2>1, <2>2, PromiseOK DEF Keeps
  <2>3. CASE Live(tx.entry[u]) /\ Live(tx'.entry[u])
    BY <2>1, <2>3, PromiseOK
  <2>4. CASE Live(tx.entry[u]) /\ ~Live(tx'.entry[u])
    <3>1. tx'.entry[u].state \in {"failed", "cancelled"}
      BY <2>4 DEF Keeps
    <3> QED
      BY <2>1, <2>4, <3>1, PromiseOK
  <2> QED
    BY <2>2, <2>3, <2>4
<1>4. (\E u \in Txs : Drops(u)) => HasReason
  BY DEF Spares, Drops, HasReason
<1> QED
  BY <1>1, <1>2, <1>3, <1>4 DEF StepOK

\* A loop that goes to another await than that of the crypto module.
LEMMA MovedWorks ==
  ASSUME NEW q, QueueInv(q, {}), NEW l \in Loops, Busy(q, l), NEW t, Names(t, q.loop[l].cur),
         NEW n, Fits(q, l, n), n.pc # "crypto", NEW r, Moved(q, r, l, n)
  PROVE  Works(q, r, l, t)
<1>1. QueueInv(r, {}) /\ Quiet(q, r, {l}) /\ r.entry = q.entry /\ r.loop[l] = n
  BY MoveInv
<1>2. Signs(r, l)
  BY <1>1 DEF Signs
<1> QED
  BY <1>1, <1>2, MoveWorks

\* get_parameters answers, or does not.
LEMMA ParamsOK ==
  ASSUME QueueInv(tx, {}), CountInv, NEW l \in Loops, ParamsArrive(l) \/ ParamsFail(l)
  PROVE  StepOK
<1>1. PICK t : Names(t, tx.loop[l].cur)
  BY DEF Names
<1>2. tx.loop[l].pc = "params" /\ Busy(tx, l) /\ accepted' = accepted
  BY DEF ParamsArrive, ParamsFail, Busy
<1>3. CASE ParamsArrive(l)
  <2>1. PICK spent \in {FALSE, tx.reserved > 0} :
           tx' = DeriveAndAttempt([tx EXCEPT !.reserved = IF spent THEN 0 ELSE @,
                                             !.slack = @ \/ spent], l)
    BY <1>3 DEF ParamsArrive
  <2>2. PICK a : Names(a, [tx EXCEPT !.reserved = IF spent THEN 0 ELSE @,
                                     !.slack = @ \/ spent])
    BY DEF Names
  <2>3. Names(tx', DeriveAndAttempt(a, l))
    BY <2>1, <2>2 DEF Names
  <2> HIDE <2>1
  <2>4. IsQueue(tx) /\ tx.reserved \in Nat /\ tx.slack \in BOOLEAN
    BY DEF QueueInv, QueueType
  <2>5. /\ IsQueue(a) /\ a.transactions = tx.transactions /\ a.isProcessing = tx.isProcessing
        /\ a.pending = tx.pending /\ a.activePowWorker = tx.activePowWorker
        /\ a.loose = tx.loose /\ a.entry = tx.entry /\ a.loop = tx.loop
        /\ a.reserved = IF spent THEN 0 ELSE tx.reserved
        /\ a.slack = (tx.slack \/ spent)
    BY <2>2, <2>4, Zenon DEF IsQueue, QueueFields, Names
  <2>6. Lowers(tx, a)
    <3>1. spent \in BOOLEAN
      <4>1. (tx.reserved > 0) \in BOOLEAN
        BY <2>4
      <4> QED
        BY <4>1, Zenon
    <3>2. a.reserved \in Nat /\ a.reserved <= tx.reserved /\ (~spent => a.reserved = tx.reserved)
      BY <2>4, <2>5
    <3>3. a.slack \in BOOLEAN /\ (~a.slack => ~tx.slack /\ ~spent)
      BY <2>4, <2>5, <3>1, Zenon
    <3> QED
      BY <2>5, <3>2, <3>3, Zenon DEF Lowers
  <2>7. QueueInv(a, {})
    BY <2>6, LowersInv
  <2>8. a.loop[l].pc = "params" /\ Names(t, a.loop[l].cur)
    BY <1>1, <1>2, <2>5 DEF Names
  <2>9. Works(a, tx', l, t)
    BY <2>3, <2>7, <2>8, DeriveWorks
  <2>10. Quiet(tx, a, {l})
    BY <2>5 DEF Quiet
  <2>11. Works(tx, tx', l, t)
    BY <2>5, <2>9, <2>10, WorksAfter
  <2> QED
    BY <1>2, <2>11, WorksStep
<1>4. CASE ParamsFail(l)
  <2>1. Names(tx', FailAndDrain(tx, l, "failed"))
    BY <1>4 DEF ParamsFail, Names
  <2>2. Works(tx, tx', l, t)
    BY <1>1, <1>2, <2>1, FailWorks
  <2> QED
    BY <1>2, <2>2, WorksStep
<1> QED
  BY <1>3, <1>4

\* The worker answers, or does not.
LEMMA PowOK ==
  ASSUME QueueInv(tx, {}), CountInv, NEW l \in Loops, PowFound(l) \/ PowGivesUp(l)
  PROVE  StepOK
<1>1. PICK t : Names(t, tx.loop[l].cur)
  BY DEF Names
<1>2. tx.loop[l].pc = "pow" /\ Busy(tx, l) /\ accepted' = accepted
  BY DEF PowFound, PowGivesUp, Busy
<1>3. /\ RunType(tx.loop[l]) /\ IsRun(tx.loop[l]) /\ IsQueue(tx) /\ DOMAIN tx.loop = Loops
      /\ tx.loop[l].key = tx.entry[tx.loop[l].cur].owner
      /\ tx.loop = [m \in Loops |-> tx.loop[m]]
  BY <1>2, HeldEntry DEF QueueInv, QueueType
<1>4. CASE PowFound(l)
  <2> DEFINE n == [tx.loop[l] EXCEPT !.worker = FALSE]
  <2>1. PICK a : Names(a, [tx EXCEPT !.activePowWorker = NoLoop, !.loop[l].worker = FALSE])
    BY DEF Names
  <2>2. Names(tx', BeginSigning(a, l))
    BY <1>4, <2>1 DEF PowFound, Names
  <2>3. Moved(tx, a, l, n)
    <3>1. NoLoop \in Loops \cup {NoLoop}
      OBVIOUS
    <3> QED
      BY <1>3, <2>1, <3>1, Zenon DEF Moved, IsQueue, QueueFields, Names
  <2>4. /\ IsRun(n) /\ n.pc = tx.loop[l].pc /\ n.cur = tx.loop[l].cur
        /\ n.key = tx.loop[l].key /\ n.try = tx.loop[l].try /\ n.worker = FALSE
    BY <1>3, Zenon DEF IsRun
  <2> HIDE DEF n
  <2>5. Fits(tx, l, n)
    BY <1>2, <1>3, <2>4 DEF Fits, RunType
  <2>6. /\ QueueInv(a, {}) /\ Quiet(tx, a, {l}) /\ Busy(a, l)
        /\ a.entry = tx.entry /\ a.loop[l] = n
    BY <1>2, <2>3, <2>5, MoveInv
  <2>7. Ready(a, l, t)
    BY <1>1, <1>3, <2>4, <2>6 DEF Ready, Names
  <2>8. Works(a, tx', l, t)
    BY <2>2, <2>7, BeginSigningWorks
  <2>9. Works(tx, tx', l, t)
    BY <2>6, <2>8, WorksAfter
  <2> QED
    BY <1>2, <2>9, WorksStep
<1>5. CASE PowGivesUp(l)
  <2>1. PICK a : Names(a, [tx EXCEPT !.activePowWorker = NoLoop])
    BY DEF Names
  <2>2. Names(tx', FailAndDrain(a, l, "failed"))
    BY <1>5, <2>1 DEF PowGivesUp, Names
  <2>3. Moved(tx, a, l, tx.loop[l])
    <3>1. NoLoop \in Loops \cup {NoLoop}
      OBVIOUS
    <3>2. tx.loop = [tx.loop EXCEPT ![l] = tx.loop[l]]
      BY <1>3, Zenon
    <3> QED
      BY <1>3, <2>1, <3>1, <3>2, Zenon DEF Moved, IsQueue, QueueFields, Names
  <2>4. Fits(tx, l, tx.loop[l])
    BY <1>2, <1>3 DEF Fits
  <2>5. /\ QueueInv(a, {}) /\ Quiet(tx, a, {l}) /\ Busy(a, l)
        /\ a.entry = tx.entry /\ a.loop[l] = tx.loop[l]
    BY <1>2, <2>3, <2>4, MoveInv
  <2>6. Names(t, a.loop[l].cur)
    BY <1>1, <2>5 DEF Names
  <2>7. Works(a, tx', l, t)
    BY <2>2, <2>5, <2>6, FailWorks
  <2>8. Works(tx, tx', l, t)
    BY <2>5, <2>7, WorksAfter
  <2> QED
    BY <1>2, <2>8, WorksStep
<1> QED
  BY <1>4, <1>5

\* The crypto module is loaded, or not.
LEMMA CryptoOK ==
  ASSUME QueueInv(tx, {}), CountInv, NEW l \in Loops, Sign(l) \/ CryptoFails(l)
  PROVE  StepOK
<1>1. PICK t : Names(t, tx.loop[l].cur)
  BY DEF Names
<1>2. tx.loop[l].pc = "crypto" /\ Busy(tx, l) /\ accepted' = accepted
  BY DEF Sign, CryptoFails, Busy
<1>3. /\ RunType(tx.loop[l]) /\ IsRun(tx.loop[l]) /\ IsQueue(tx) /\ DOMAIN tx.loop = Loops
      /\ tx.loop[l].key = tx.entry[tx.loop[l].cur].owner
      /\ tx.activePowWorker \in Loops \cup {NoLoop}
  BY <1>2, HeldEntry DEF QueueInv, QueueType
<1>4. CASE Sign(l)
  <2> DEFINE n == [tx.loop[l] EXCEPT !.pc = "relay", !.pow = FALSE]
  <2>1. tx' = [tx EXCEPT !.loop[l].pc = "relay", !.loop[l].pow = FALSE]
    BY <1>4 DEF Sign
  <2>2. Moved(tx, tx', l, n)
    BY <1>3, <2>1, Zenon DEF Moved, IsQueue, QueueFields, IsRun
  <2>3. /\ IsRun(n) /\ n.pc = "relay" /\ n.cur = tx.loop[l].cur
        /\ n.key = tx.loop[l].key /\ n.try = tx.loop[l].try /\ n.worker = tx.loop[l].worker
    BY <1>3, Zenon DEF IsRun
  <2> HIDE DEF n
  <2> HIDE <2>1
  <2>4. Fits(tx, l, n) /\ n.pc # "crypto"
    BY <1>2, <1>3, <2>3 DEF Fits, RunType, PCs
  <2>5. Works(tx, tx', l, t)
    BY <1>1, <1>2, <2>2, <2>4, MovedWorks
  <2> QED
    BY <1>2, <2>5, WorksStep
<1>5. CASE CryptoFails(l) /\ tx.loop[l].pow
  <2> DEFINE n == [tx.loop[l] EXCEPT !.pc = "hung"]
  <2>1. tx' = [tx EXCEPT !.loop[l].pc = "hung"]
    BY <1>5 DEF CryptoFails
  <2>2. Moved(tx, tx', l, n)
    BY <1>3, <2>1, Zenon DEF Moved, IsQueue, QueueFields
  <2>3. /\ IsRun(n) /\ n.pc = "hung" /\ n.cur = tx.loop[l].cur
        /\ n.key = tx.loop[l].key /\ n.try = tx.loop[l].try /\ n.worker = tx.loop[l].worker
    BY <1>3, Zenon DEF IsRun
  <2> HIDE DEF n
  <2> HIDE <2>1
  <2>4. Fits(tx, l, n) /\ n.pc # "crypto"
    BY <1>2, <1>3, <2>3 DEF Fits, RunType, PCs
  <2>5. Works(tx, tx', l, t)
    BY <1>1, <1>2, <2>2, <2>4, MovedWorks
  <2> QED
    BY <1>2, <2>5, WorksStep
<1>6. CASE CryptoFails(l) /\ ~tx.loop[l].pow
  <2>1. Names(tx', FailAndDrain(tx, l, "failed"))
    BY <1>6 DEF CryptoFails, Names
  <2>2. Works(tx, tx', l, t)
    BY <1>1, <1>2, <2>1, FailWorks
  <2> QED
    BY <1>2, <2>2, WorksStep
<1> QED
  BY <1>4, <1>5, <1>6

\* One more attempt is noted.
LEMMA SpendWorks ==
  ASSUME QueueInv(tx, {}), NEW l \in Loops, NEW t, Names(t, tx.loop[l].cur),
         tx.loop[l].pc \in {"relay", "retry"}, tx.loop[l].try < MAX_POW_RETRIES,
         NEW n, Names(n, [tx.loop[l] EXCEPT !.pc = "retry", !.try = @ + 1]),
         NEW r, Moved(tx, r, l, n)
  PROVE  Works(tx, r, l, t)
<1>1. Busy(tx, l)
  BY DEF Busy
<1>2. /\ RunType(tx.loop[l]) /\ IsRun(tx.loop[l])
      /\ tx.loop[l].key = tx.entry[tx.loop[l].cur].owner
  BY <1>1, HeldEntry
<1>3. /\ IsRun(n) /\ n.pc = "retry" /\ n.cur = tx.loop[l].cur
      /\ n.key = tx.loop[l].key /\ n.try = tx.loop[l].try + 1 /\ n.worker = tx.loop[l].worker
  BY <1>2, Zenon DEF IsRun, Names
<1>4. n.try \in 0..MAX_POW_RETRIES
  BY <1>2, <1>3, QueueAssumption DEF RunType
<1>5. Fits(tx, l, n) /\ n.pc # "crypto"
  BY <1>2, <1>3, <1>4 DEF Fits, RunType, PCs
<1> QED
  BY <1>1, <1>5, MovedWorks

\* The relay answers, or does not.
LEMMA RelayOK ==
  ASSUME QueueInv(tx, {}), CountInv, NEW l \in Loops,
         RelayAccepted(l) \/ RelayLost(l) \/ RelayStale(l) \/ RelayRefused(l)
  PROVE  StepOK
<1>1. PICK t : Names(t, tx.loop[l].cur)
  BY DEF Names
<1>2. tx.loop[l].pc = "relay" /\ Busy(tx, l)
  BY DEF RelayAccepted, RelayLost, RelayStale, RelayRefused, Busy
<1>3. CASE RelayAccepted(l)
  <2>1. Names(tx', Succeed(tx, l)) /\ accepted' = [accepted EXCEPT ![t] = @ + 1]
    BY <1>1, <1>3 DEF RelayAccepted, Names
  <2>2. Succeeds(tx, tx', l, t)
    BY <1>1, <1>2, <2>1, SucceedWorks
  <2> QED
    BY <2>1, <2>2, SucceedsStep
<1>4. ASSUME tx' = FailAndDrain(tx, l, "failed")
      PROVE  Works(tx, tx', l, t) /\ tx'.entry[t].state = "failed"
  <2>1. Names(tx', FailAndDrain(tx, l, "failed"))
    BY <1>4 DEF Names
  <2> HIDE <1>4
  <2> QED
    BY <1>1, <1>2, <2>1, FailWorks
<1>5. CASE RelayLost(l)
  <2>1. Works(tx, tx', l, t) /\ tx'.entry[t].state = "failed"
    BY <1>4, <1>5 DEF RelayLost
  <2>2. accepted' = accepted \/ accepted' = [accepted EXCEPT ![t] = @ + 1]
    BY <1>1, <1>5 DEF RelayLost, Names
  <2> QED
    BY <2>1, <2>2, WorksStep
<1>6. CASE RelayStale(l) /\ tx.loop[l].try < MAX_POW_RETRIES
  <2>1. PICK n : Names(n, [tx.loop[l] EXCEPT !.pc = "retry", !.try = @ + 1])
    BY DEF Names
  <2>2. tx' = [tx EXCEPT !.loop[l].pc = "retry", !.loop[l].try = @ + 1] /\ accepted' = accepted
    BY <1>6 DEF RelayStale
  <2>3. Moved(tx, tx', l, n)
    <3>1. /\ IsRun(tx.loop[l]) /\ IsQueue(tx) /\ DOMAIN tx.loop = Loops
          /\ tx.activePowWorker \in Loops \cup {NoLoop}
      BY <1>2, HeldEntry DEF QueueInv, QueueType
    <3> QED
      BY <2>1, <2>2, <3>1, Zenon DEF Moved, IsQueue, QueueFields, IsRun, Names
  <2>4. Works(tx, tx', l, t)
    BY <1>1, <1>2, <1>6, <2>1, <2>3, SpendWorks
  <2> QED
    BY <2>2, <2>4, WorksStep
<1>7. CASE RelayStale(l) /\ ~(tx.loop[l].try < MAX_POW_RETRIES)
  <2>1. Works(tx, tx', l, t) /\ accepted' = accepted
    BY <1>4, <1>7 DEF RelayStale
  <2> QED
    BY <2>1, WorksStep
<1>8. CASE RelayRefused(l)
  <2>1. Works(tx, tx', l, t) /\ accepted' = accepted
    BY <1>4, <1>8 DEF RelayRefused
  <2> QED
    BY <2>1, WorksStep
<1> QED
  BY <1>3, <1>5, <1>6, <1>7, <1>8

\* The delay of a retry is over.
LEMMA RetryOK ==
  ASSUME QueueInv(tx, {}), CountInv, NEW l \in Loops, RetryReady(l) \/ RetryFetchFails(l)
  PROVE  StepOK
<1>1. PICK t : Names(t, tx.loop[l].cur)
  BY DEF Names
<1>2. tx.loop[l].pc = "retry" /\ Busy(tx, l) /\ accepted' = accepted
  BY DEF RetryReady, RetryFetchFails, Busy
<1>3. /\ RunType(tx.loop[l]) /\ IsRun(tx.loop[l]) /\ IsQueue(tx) /\ DOMAIN tx.loop = Loops
      /\ tx.loop[l].key = tx.entry[tx.loop[l].cur].owner
      /\ tx.activePowWorker \in Loops \cup {NoLoop}
  BY <1>2, HeldEntry DEF QueueInv, QueueType
<1>4. CASE RetryReady(l)
  <2>1. Names(tx', Attempt(tx, l))
    BY <1>4 DEF RetryReady, Names
  <2>2. Ready(tx, l, t)
    BY <1>1, <1>2, <1>3 DEF Ready, Names, RunType
  <2>3. Works(tx, tx', l, t)
    BY <2>1, <2>2, AttemptWorks
  <2> QED
    BY <1>2, <2>3, WorksStep
<1>5. CASE RetryFetchFails(l) /\ tx.loop[l].try < MAX_POW_RETRIES
  <2>1. PICK n : Names(n, [tx.loop[l] EXCEPT !.pc = "retry", !.try = @ + 1])
    BY DEF Names
  <2>2. tx' = [tx EXCEPT !.loop[l].try = @ + 1]
    BY <1>5 DEF RetryFetchFails
  <2>3. Moved(tx, tx', l, n)
    <3>1. n = [tx.loop[l] EXCEPT !.try = @ + 1]
      BY <1>2, <1>3, <2>1, Zenon DEF IsRun, Names
    <3> QED
      BY <1>3, <2>2, <3>1, Zenon DEF Moved, IsQueue, QueueFields
  <2>4. Works(tx, tx', l, t)
    BY <1>1, <1>2, <1>5, <2>1, <2>3, SpendWorks
  <2> QED
    BY <1>2, <2>4, WorksStep
<1>6. CASE RetryFetchFails(l) /\ ~(tx.loop[l].try < MAX_POW_RETRIES)
  <2>1. Names(tx', FailAndDrain(tx, l, "failed"))
    BY <1>6 DEF RetryFetchFails, Names
  <2>2. Works(tx, tx', l, t)
    BY <1>1, <1>2, <2>1, FailWorks
  <2> QED
    BY <1>2, <2>2, WorksStep
<1> QED
  BY <1>4, <1>5, <1>6

\* A method that stamps its entry.
LEMMA EnqueueOK ==
  ASSUME QueueInv(tx, {}), CountInv, NEW i \in Intents, Enqueue(i)
  PROVE  StepOK
<1>1. PICK t : Names(t, Min(Unused))
  BY DEF Names
<1>2. t \in Txs /\ ~Live(tx.entry[t])
  <2>1. Unused \subseteq Nat /\ Unused # {}
    BY QueueAssumption DEF Unused, Txs, Enqueue
  <2> QED
    BY <1>1, <2>1, MinMember DEF Unused, Names
<1>3. /\ i.mark \notin tx.pending /\ accepted' = [accepted EXCEPT ![t] = 0]
      /\ tx' = PushStamped(Marked(i), t, i) /\ (~tx.isProcessing => FreeLoops # {})
  BY <1>1 DEF Enqueue, MarkFree, Names
<1>4. IsQueue(tx) /\ DOMAIN tx.entry = Txs /\ tx.isProcessing \in BOOLEAN
  BY DEF QueueInv, QueueType
<1> DEFINE e == [NoEntry EXCEPT !.state = "queued", !.intent = i,
                                !.owner = Signer(i), !.gen = session.gen]
<1>5. IsEntry(e) /\ e.state = "queued" /\ e.intent = i
  BY Zenon DEF NoEntry, IsEntry
<1>6. PICK s : Names(s, [Marked(i) EXCEPT !.entry[t] = e, !.reserved = @ + i.reserve,
                                          !.transactions = Append(@, t)])
  BY DEF Names
<1>7. /\ tx.isProcessing => tx' = s
      /\ ~tx.isProcessing => tx' = Dequeue([s EXCEPT !.isProcessing = TRUE], Min(FreeLoops))
  <2>1. Marked(i).isProcessing = tx.isProcessing
    BY <1>4, Zenon DEF Marked, IsQueue, QueueFields
  <2> QED
    BY <1>3, <1>6, <2>1, Zenon DEF PushStamped, Names
<1> HIDE DEF e
<1>8. /\ IsQueue(s) /\ s.isProcessing = tx.isProcessing
      /\ s.transactions = Append(tx.transactions, t)
      /\ s.pending = tx.pending \cup ({i.mark} \ {NoMark})
      /\ s.reserved = tx.reserved + i.reserve
      /\ s.activePowWorker = tx.activePowWorker /\ s.loose = tx.loose /\ s.slack = tx.slack
      /\ s.entry = [tx.entry EXCEPT ![t] = e] /\ s.loop = tx.loop
  <2>1. PICK m : Names(m, Marked(i))
    BY DEF Names
  <2>2. /\ IsQueue(m) /\ m.isProcessing = tx.isProcessing /\ m.transactions = tx.transactions
        /\ m.pending = tx.pending \cup ({i.mark} \ {NoMark}) /\ m.reserved = tx.reserved
        /\ m.activePowWorker = tx.activePowWorker /\ m.loose = tx.loose /\ m.slack = tx.slack
        /\ m.entry = tx.entry /\ m.loop = tx.loop
    BY <1>4, <2>1, Zenon DEF Marked, IsQueue, QueueFields, Names
  <2>3. s = [m EXCEPT !.entry[t] = e, !.reserved = @ + i.reserve,
                      !.transactions = Append(@, t)]
    BY <1>6, <2>1, Zenon DEF Names
  <2>4. /\ IsQueue(s) /\ s.isProcessing = m.isProcessing
        /\ s.transactions = Append(m.transactions, t)
        /\ s.pending = m.pending /\ s.reserved = m.reserved + i.reserve
        /\ s.activePowWorker = m.activePowWorker /\ s.loose = m.loose /\ s.slack = m.slack
        /\ s.entry = [m.entry EXCEPT ![t] = e] /\ s.loop = m.loop
    BY <2>2, <2>3, Zenon DEF IsQueue, QueueFields
  <2> QED
    BY <2>2, <2>4, Zenon
<1>9. /\ s.entry[t] = e /\ \A u \in Txs : u # t => s.entry[u] = tx.entry[u]
      /\ DOMAIN s.entry = Txs /\ s.entry = [u \in Txs |-> s.entry[u]]
  <2>1. tx.entry = [u \in Txs |-> tx.entry[u]]
    BY DEF QueueInv, QueueType
  <2> QED
    BY <1>2, <1>4, <1>8, <2>1, Zenon
<1>10. Stamped(tx, s, t, i)
  BY <1>4, <1>5, <1>8, <1>9, Zenon DEF Stamped
<1>11. /\ tx.transactions # <<>> => s.transactions # <<>>
                                      /\ Head(s.transactions) = Head(tx.transactions)
       /\ tx.transactions = <<>> => \A u \in Txs : tx.entry[u].state # "queued"
  <2>1. /\ tx.transactions \in Seq(Txs) /\ IsInjective(tx.transactions)
        /\ t \notin Range(tx.transactions)
    BY <1>2 DEF QueueInv, QueueType, Lined, Live
  <2>2. tx.transactions = <<>> => Range(tx.transactions) = {}
    BY DEF Range
  <2>3. tx.transactions # <<>> => /\ Append(tx.transactions, t) # <<>>
                                  /\ Head(Append(tx.transactions, t)) = Head(tx.transactions)
    BY <2>1, AppendLines
  <2>4. \A u \in Txs : tx.entry[u].state = "queued" <=> u \in Range(tx.transactions)
    BY <1>2, Zenon DEF QueueInv, Lined
  <2> QED
    BY <1>8, <2>2, <2>3, <2>4, Zenon
<1> HIDE <1>3, <1>6, <1>8
<1>12. /\ accepted \in [Txs -> Nat] /\ accepted' \in [Txs -> Nat] /\ accepted'[t] = 0
       /\ \A u \in Txs : u # t => accepted'[u] = accepted[u]
  BY <1>2, <1>3 DEF CountInv
<1>13. ASSUME NEW a, Stamped(tx, a, t, i), Keeps(a, tx')
       PROVE  CountInv' /\ Promise!Next
  <2>1. /\ Live(a.entry[t]) /\ \A u \in Txs : u # t => a.entry[u] = tx.entry[u]
    BY <1>13 DEF Stamped, Live
  <2>2. Live(tx'.entry[t]) \/ tx'.entry[t].state \in Failures
    BY <1>2, <1>13, <2>1 DEF Keeps, Failures
  <2>3. ASSUME NEW u \in Txs, u # t
        PROVE  IF Live(tx.entry[u]) THEN Live(tx'.entry[u]) \/ tx'.entry[u].state \in Failures
               ELSE tx'.entry[u] = tx.entry[u]
    BY <1>13, <2>1, <2>3 DEF Keeps, Failures
  <2>4. \A u \in Txs : Live(tx'.entry[u]) => accepted'[u] = 0
    BY <1>12, <2>3 DEF CountInv
  <2>5. CountInv'
    BY <1>12, <2>4 DEF CountInv
  <2>6. Promise!Next
    <3> SUFFICES ASSUME NEW u \in Txs
                 PROVE  Promise!Rest(u) \/ Promise!Issue(u) \/ Promise!Settle(u)
      BY DEF Promise!Next
    <3>1. CASE u = t
      <4>1. tx.entry[t].state \in States
        BY <1>2 DEF QueueInv, QueueType, EntryType
      <4> QED
        BY <1>2, <1>12, <2>2, <3>1, <4>1, PromiseOK
    <3>2. CASE u # t /\ ~Live(tx.entry[u])
      BY <1>12, <2>3, <3>2, PromiseOK
    <3>3. CASE u # t /\ Live(tx.entry[u]) /\ Live(tx'.entry[u])
      BY <1>12, <3>3, PromiseOK DEF CountInv
    <3>4. CASE u # t /\ Live(tx.entry[u]) /\ ~Live(tx'.entry[u])
      <4>1. tx'.entry[u].state \in Failures /\ accepted[u] = 0 /\ accepted'[u] = 0
        BY <1>12, <2>3, <3>4 DEF CountInv
      <4> QED
        BY <1>12, <3>4, <4>1, PromiseOK DEF Failures
    <3> QED
      BY <3>1, <3>2, <3>3, <3>4
  <2> QED
    BY <2>5, <2>6
<1>14. CASE tx.isProcessing
  <2>1. tx' = s
    BY <1>7, <1>14
  <2>2. QueueInv(tx', {})
    BY <1>2, <1>3, <1>10, <2>1, StampedInv
  <2>3. Keeps(s, tx')
    BY <2>1 DEF Keeps
  <2>4. CountInv' /\ Promise!Next
    BY <1>10, <1>13, <2>3
  <2>5. \A m \in Loops : StartsSigning(m) => SignsAsOwner(m)
    BY <1>10, <2>1 DEF Stamped, StartsSigning
  <2>6. ~\E u \in Txs : Drops(u)
    BY <1>10, <2>1 DEF Stamped, Drops
  <2> QED
    BY <2>2, <2>4, <2>5, <2>6 DEF StepOK
<1>15. CASE ~tx.isProcessing
  <2>1. PICK l : Names(l, Min(FreeLoops))
    BY DEF Names
  <2>2. l \in Loops /\ ~Busy(tx, l)
    <3>1. FreeLoops \subseteq Nat /\ FreeLoops # {}
      BY <1>3, <1>15, QueueAssumption DEF FreeLoops, Loops
    <3> QED
      BY <2>1, <3>1, MinMember DEF FreeLoops, Names, Busy
  <2>3. PICK a : Names(a, [s EXCEPT !.isProcessing = TRUE])
    BY DEF Names
  <2>4. Names(tx', Dequeue(a, l))
    BY <1>7, <1>15, <2>1, <2>3 DEF Names
  <2>5. /\ IsQueue(a) /\ a.isProcessing = TRUE /\ a.transactions = s.transactions
        /\ a.pending = s.pending /\ a.reserved = s.reserved
        /\ a.activePowWorker = s.activePowWorker /\ a.loose = s.loose /\ a.slack = s.slack
        /\ a.entry = s.entry /\ a.loop = s.loop
    <3>1. IsQueue(s)
      BY <1>10 DEF Stamped
    <3> QED
      BY <2>3, <3>1, Zenon DEF IsQueue, QueueFields, Names
  <2>6. Stamped(tx, a, t, i)
    BY <1>10, <2>5, Zenon DEF Stamped
  <2>7. QueueInv(a, {}) /\ ~Busy(a, l)
    <3>1. QueueInv(a, {})
      BY <1>2, <1>3, <2>6, StampedInv
    <3>2. a.loop = tx.loop
      BY <2>6 DEF Stamped
    <3> QED
      BY <2>2, <3>1, <3>2 DEF Busy
  <2>8. Advances(a, tx', l)
    BY <2>2, <2>4, <2>7, IdleOut, DequeueAdvances
  <2>9. CountInv' /\ Promise!Next
    BY <1>13, <2>6, <2>8 DEF Advances
  <2>10. Quiet(tx, tx', {l})
    <3>1. Quiet(tx, a, {l})
      BY <2>6 DEF Stamped, Quiet
    <3> QED
      BY <2>8, <3>1, QuietTwice DEF Advances
  <2>11. \A m \in Loops : StartsSigning(m) => SignsAsOwner(m)
    BY <2>2, <2>8, <2>10, SigningOK DEF Advances
  <2>12. (\E u \in Txs : Drops(u)) => HasReason
    <3> SUFFICES ASSUME NEW u \in Txs, Drops(u) PROVE HasReason
      OBVIOUS
    <3>1. /\ tx.transactions # <<>> /\ a.transactions # <<>>
          /\ Head(a.transactions) = Head(tx.transactions)
      BY <1>11, <2>5 DEF Drops
    <3>2. u # t
      BY <1>2 DEF Drops, Live
    <3>3. ~Spares(a, tx')
      BY <2>6, <3>2 DEF Drops, Spares, Stamped
    <3>4. HeadFails(a, tx', Head(tx.transactions))
      BY <2>8, <3>1, <3>3 DEF Advances
    <3>5. Head(tx.transactions) \in Txs /\ tx.entry[Head(tx.transactions)].state = "queued"
      <4>1. /\ tx.transactions \in Seq(Txs) /\ IsInjective(tx.transactions)
            /\ \A x \in Txs : x \in Range(tx.transactions) => tx.entry[x].state = "queued"
        BY DEF QueueInv, QueueType, Lined
      <4>2. Head(tx.transactions) \in Txs /\ Head(tx.transactions) \in Range(tx.transactions)
        BY <3>1, <4>1, TailLines
      <4> QED
        BY <4>1, <4>2
    <3>6. Head(tx.transactions) # t
      BY <1>2, <3>5 DEF Live
    <3>7. a.entry[Head(tx.transactions)] = tx.entry[Head(tx.transactions)]
      BY <2>6, <3>5, <3>6 DEF Stamped
    <3> QED
      BY <3>4, <3>5, <3>7 DEF HeadFails, HasReason, Fails, Live
  <2> QED
    BY <2>8, <2>9, <2>11, <2>12 DEF StepOK, Advances
<1> QED
  BY <1>14, <1>15

\* A method that finds no seed.
LEMMA NoSeedOK ==
  ASSUME QueueInv(tx, {}), CountInv, NEW i \in Intents, StampFails(i) \/ MarkOnly(i)
  PROVE  StepOK
<1>1. IsQueue(tx) /\ tx.reserved \in Nat /\ tx.slack \in BOOLEAN /\ i.reserve \in Nat
  BY IntentFields DEF QueueInv, QueueType
<1>2. ASSUME QueueInv(tx', {}), tx'.entry = tx.entry, tx'.loop = tx.loop, accepted' = accepted
      PROVE  StepOK
  <2>1. Keeps(tx, tx') /\ Quiet(tx, tx', {}) /\ Spares(tx, tx')
    BY <1>2 DEF Keeps, Quiet, Spares
  <2> QED
    BY <1>2, <2>1, QuietStep
<1>3. CASE StampFails(i)
  <2>1. /\ accepted' = accepted
        /\ tx' = [tx EXCEPT !.reserved = IF @ > i.reserve THEN @ - i.reserve ELSE 0,
                            !.slack = @ \/ (i.reserve > 0 /\ tx.reserved > 0)]
    BY <1>3 DEF StampFails
  <2>2. /\ IsQueue(tx') /\ tx'.transactions = tx.transactions
        /\ tx'.isProcessing = tx.isProcessing
        /\ tx'.pending = tx.pending /\ tx'.activePowWorker = tx.activePowWorker
        /\ tx'.loose = tx.loose /\ tx'.entry = tx.entry /\ tx'.loop = tx.loop
        /\ tx'.reserved = IF tx.reserved > i.reserve THEN tx.reserved - i.reserve ELSE 0
        /\ tx'.slack = (tx.slack \/ (i.reserve > 0 /\ tx.reserved > 0))
    BY <1>1, <2>1, Zenon DEF IsQueue, QueueFields
  <2> HIDE <2>1
  <2>3. /\ tx'.reserved \in Nat /\ tx'.reserved <= tx.reserved
        /\ ~(i.reserve > 0 /\ tx.reserved > 0) => tx'.reserved = tx.reserved
    BY <1>1, <2>2
  <2>4. /\ tx'.slack \in BOOLEAN
        /\ ~tx'.slack => ~tx.slack /\ ~(i.reserve > 0 /\ tx.reserved > 0)
    BY <1>1, <2>2, Zenon
  <2>5. Lowers(tx, tx')
    BY <2>2, <2>3, <2>4, Zenon DEF Lowers
  <2> QED
    BY <1>2, <2>1, <2>2, <2>5, LowersInv
<1>4. CASE MarkOnly(i)
  <2>1. accepted' = accepted /\ tx' = Marked(i) /\ i.entry = "raw"
    BY <1>4 DEF MarkOnly
  <2>2. MarksOnly(tx, tx', i)
    BY <1>1, <2>1, Zenon DEF Marked, MarksOnly, IsQueue, QueueFields
  <2>3. tx'.entry = tx.entry /\ tx'.loop = tx.loop
    BY <2>2 DEF MarksOnly
  <2>4. QueueInv(tx', {})
    BY <2>1, <2>2, MarksOnlyInv
  <2> QED
    BY <1>2, <2>1, <2>3, <2>4
<1> QED
  BY <1>3, <1>4

\* A step that leaves the queue alone, or drains it for a sign-out.
LEMMA SessionOK ==
  ASSUME QueueInv(tx, {}), CountInv, SessionStep \/ UNCHANGED vars
  PROVE  StepOK
<1>1. /\ accepted' = accepted
      /\ tx' = tx \/ (tx' = Drain(tx) /\ session.reset = "drain")
  BY DEF SessionStep, ResetBegin, ResetDrain, ResetClear, StoreSeed, Lock, CreateHandoff,
         ClearHandoff, CacheUserLevel, Switch, vars
<1>2. CASE tx' = tx
  <2>1. Keeps(tx, tx') /\ Quiet(tx, tx', {}) /\ Spares(tx, tx') /\ QueueInv(tx', {})
    BY <1>2 DEF Keeps, Quiet, Spares
  <2> QED
    BY <1>1, <2>1, QuietStep
<1>3. CASE tx' = Drain(tx) /\ session.reset = "drain"
  <2>1. Names(tx', Drain(tx))
    BY <1>3 DEF Names
  <2>2. QueueInv(tx', {}) /\ Keeps(tx, tx') /\ Quiet(tx, tx', {})
    BY <2>1, DrainInv, Zenon
  <2> QED
    BY <1>1, <1>3, <2>2, QuietStep
<1> QED
  BY <1>1, <1>2, <1>3

-----------------------------------------------------------------------------
(* The session.                                                            *)

SessionInv ==
    /\ session = [f \in {"gen", "vault", "handoff", "level", "reset", "switches"} |-> session[f]]
    /\ session.vault \in Owners \cup {NoOne} /\ session.gen \in 1..MaxGen

\* Whoever's seed is in the vault is an account, and the generation is bounded.
LEMMA SessionStepInv ==
  ASSUME SessionInv, [Next]_vars
  PROVE  SessionInv'
<1> DEFINE F == {"gen", "vault", "handoff", "level", "reset", "switches"}
           Shape(s) == s = [f \in F |-> s[f]]
<1>1. Shape(session) /\ session.vault \in Owners \cup {NoOne} /\ session.gen \in 1..MaxGen
  BY DEF SessionInv
<1>2. ASSUME session' = session PROVE SessionInv'
  BY <1>2 DEF SessionInv
<1>3. ASSUME NEW i \in Intents, Enqueue(i) \/ StampFails(i) \/ MarkOnly(i)
      PROVE  SessionInv'
  BY <1>2, <1>3 DEF Enqueue, StampFails, MarkOnly
<1>4. ASSUME Shape(session'), session'.vault \in Owners \cup {NoOne}, session'.gen \in 1..MaxGen
      PROVE  SessionInv'
  BY <1>4, Zenon DEF SessionInv
<1>5. ASSUME NEW l \in Loops, LoopStep(l) PROVE SessionInv'
  <2>1. CASE RelayRefused(l)
    <3>1. PICK v : session' = [session EXCEPT !.level = v]
      BY <2>1 DEF RelayRefused
    <3>2. Shape(session') /\ session'.vault = session.vault /\ session'.gen = session.gen
      BY <1>1, <3>1, Zenon
    <3> QED
      BY <1>1, <1>4, <3>2
  <2>2. CASE ~RelayRefused(l)
    <3>1. session' = session
      BY <1>5, <2>2 DEF LoopStep, ParamsArrive, ParamsFail, PowFound, PowGivesUp, Sign,
                        CryptoFails, RelayAccepted, RelayLost, RelayStale, RetryReady,
                        RetryFetchFails
    <3> QED
      BY <1>2, <3>1
  <2> QED
    BY <2>1, <2>2
<1>6. CASE ResetBegin
  <2>1. session.gen < MaxGen /\ session' = [session EXCEPT !.gen = @ + 1, !.reset = "drain"]
    BY <1>6 DEF ResetBegin
  <2>2. Shape(session') /\ session'.vault = session.vault /\ session'.gen = session.gen + 1
    BY <1>1, <2>1, Zenon
  <2>3. session.gen + 1 \in 1..MaxGen
    BY <1>1, <2>1, QueueAssumption
  <2> QED
    BY <1>1, <1>4, <2>2, <2>3
<1>7. CASE ResetDrain
  <2>1. session' = [session EXCEPT !.reset = "clear"]
    BY <1>7 DEF ResetDrain
  <2>2. Shape(session') /\ session'.vault = session.vault /\ session'.gen = session.gen
    BY <1>1, <2>1, Zenon
  <2> QED
    BY <1>1, <1>4, <2>2
<1>8. CASE ResetClear
  <2>1. session' = [session EXCEPT !.reset = "none", !.handoff = NoOne,
                                   !.vault = NoOne, !.level = 0]
    BY <1>8 DEF ResetClear
  <2>2. Shape(session') /\ session'.vault = NoOne /\ session'.gen = session.gen
    BY <1>1, <2>1, Zenon
  <2> QED
    BY <1>1, <1>4, <2>2
<1>9. ASSUME NEW v, NEW f \in F, Switch([session EXCEPT ![f] = v]),
             f \in {"handoff", "level"} \/ (f = "vault" /\ v \in Owners \cup {NoOne})
      PROVE  SessionInv'
  <2> DEFINE a == [session EXCEPT ![f] = v]
  <2>1. session' = [a EXCEPT !.switches = @ + 1]
    BY <1>9 DEF Switch
  <2>2. Shape(a) /\ a[f] = v /\ \A g \in F : g # f => a[g] = session[g]
    BY <1>1, Zenon
  <2>3. Shape(session') /\ session'.vault = a.vault /\ session'.gen = a.gen
    <3> HIDE DEF a
    <3> QED
      BY <2>1, <2>2, Zenon
  <2> HIDE DEF a
  <2>4. a.gen = session.gen /\ a.vault \in Owners \cup {NoOne}
    BY <1>1, <1>9, <2>2
  <2> QED
    BY <1>1, <1>4, <2>3, <2>4
<1>10. ASSUME NEW o \in Owners, StoreSeed(o) PROVE SessionInv'
  <2>1. "vault" \in F /\ Switch([session EXCEPT !["vault"] = o])
    BY <1>10 DEF StoreSeed
  <2> QED
    BY <1>9, <2>1
<1>11. ASSUME NEW o \in Newcomers, CreateHandoff(o) PROVE SessionInv'
  <2>1. "handoff" \in F /\ Switch([session EXCEPT !["handoff"] = o])
    BY <1>11 DEF CreateHandoff
  <2> QED
    BY <1>9, <2>1
<1>12. CASE Lock
  <2>1. "vault" \in F /\ Switch([session EXCEPT !["vault"] = NoOne])
    BY <1>12 DEF Lock
  <2> QED
    BY <1>9, <2>1
<1>13. CASE ClearHandoff
  <2>1. session' = [session EXCEPT !.handoff = NoOne]
    BY <1>13 DEF ClearHandoff
  <2>2. Shape(session') /\ session'.vault = session.vault /\ session'.gen = session.gen
    BY <1>1, <2>1, Zenon
  <2> QED
    BY <1>1, <1>4, <2>2
<1>14. CASE CacheUserLevel
  <2>1. "level" \in F /\ Switch([session EXCEPT !["level"] = 1 - session.level])
    BY <1>14 DEF CacheUserLevel
  <2> QED
    BY <1>9, <2>1
<1>15. CASE UNCHANGED vars
  BY <1>2, <1>15 DEF vars
<1> QED
  BY <1>3, <1>5, <1>6, <1>7, <1>8, <1>10, <1>11, <1>12, <1>13, <1>14, <1>15
     DEF Next, SessionStep

-----------------------------------------------------------------------------
(* The theorems.                                                           *)

INSTANCE SumProofs

\* The inductive invariant.
Inv == QueueInv(tx, {}) /\ CountInv /\ SessionInv

\* The laws the queue is reasoned about from.
LEMMA LawsHold == Laws
<1>1. IsFiniteSet(Txs)
  BY QueueAssumption, FS_Interval DEF Txs
<1>2. ASSUME NEW f \in [Txs -> Nat]
      PROVE  /\ SumFunction(f) \in Nat
             /\ (\A t \in Txs : f[t] = 0) => SumFunction(f) = 0
  <2>1. DOMAIN f = Txs /\ \A t \in Txs : f[t] \in Nat
    OBVIOUS
  <2> QED
    BY <1>1, <2>1, SumNatural, SumZero DEF SumFunction
<1>3. ASSUME NEW f \in [Txs -> Nat], NEW g \in [Txs -> Nat], NEW t \in Txs,
             \A u \in Txs : u # t => g[u] = f[u]
      PROVE  f[t] <= SumFunction(f) /\ SumFunction(g) = (SumFunction(f) - f[t]) + g[t]
  <2>1. /\ DOMAIN f = Txs /\ DOMAIN g = Txs
        /\ \A u \in Txs : f[u] \in Nat /\ g[u] \in Nat /\ (u # t => g[u] = f[u])
    BY <1>3
  <2> QED
    BY <1>1, <2>1, SumChange DEF SumFunction
<1>4. ASSUME NEW S \in SUBSET Nat, S # {}
      PROVE  Min(S) \in S
  <2>1. \E x \in S : \A y \in S : x =< y
    BY <1>4, LeastNumber
  <2> QED
    BY <2>1, Zenon DEF Min
<1> QED
  BY <1>2, <1>3, <1>4 DEF Laws

\* An empty queue satisfies it.
LEMMA InitInv == Init => Inv
<1> SUFFICES ASSUME Init PROVE Inv
  OBVIOUS
<1>1. tx = [transactions |-> <<>>, isProcessing |-> FALSE, pending |-> {},
            reserved |-> 0, activePowWorker |-> NoLoop, loose |-> {}, slack |-> FALSE,
            entry |-> [t \in Txs |-> NoEntry], loop |-> [l \in Loops |-> NoRun]]
  BY DEF Init
<1>2. /\ IsQueue(tx) /\ tx.transactions = <<>> /\ tx.isProcessing = FALSE /\ tx.pending = {}
      /\ tx.reserved = 0 /\ tx.activePowWorker = NoLoop /\ tx.loose = {} /\ tx.slack = FALSE
      /\ tx.entry = [t \in Txs |-> NoEntry] /\ tx.loop = [l \in Loops |-> NoRun]
  BY <1>1, Zenon DEF IsQueue, QueueFields
<1>3. IsEntry(NoEntry) /\ NoEntry.state = "none"
  BY Zenon DEF IsEntry, NoEntry
<1>4. EntryType(NoEntry) /\ ~Live(NoEntry) /\ RunType(NoRun) /\ NoRun.pc = "idle"
  BY <1>3, IdleRun DEF EntryType, Live, States
<1>5. QueueType(tx)
  <2>1. tx.transactions \in Seq(Txs) /\ tx.reserved \in Nat
    BY <1>2
  <2>2. /\ DOMAIN tx.entry = Txs /\ tx.entry = [t \in Txs |-> tx.entry[t]]
        /\ \A t \in Txs : EntryType(tx.entry[t])
        /\ tx.loop = [l \in Loops |-> tx.loop[l]] /\ \A l \in Loops : RunType(tx.loop[l])
    BY <1>2, <1>4, Zenon
  <2>3. /\ tx.isProcessing \in BOOLEAN /\ tx.pending \subseteq STRING
        /\ tx.activePowWorker \in Loops \cup {NoLoop} /\ tx.slack \in BOOLEAN
    BY <1>2, Zenon
  <2> QED
    BY <1>2, <2>1, <2>2, <2>3, Zenon DEF QueueType
<1>6. /\ \A t \in Txs : ~Live(tx.entry[t]) /\ tx.entry[t].state = "none"
      /\ \A l \in Loops : ~Busy(tx, l) /\ tx.loop[l].pc = "idle"
  BY <1>2, <1>3, <1>4 DEF Busy
<1>7. Lined(tx)
  BY <1>2, <1>6 DEF Lined, IsInjective, Range
<1>8. Holding(tx, {}) /\ Keyed(tx, {}) /\ Marks(tx)
  BY <1>2, <1>6 DEF Holding, Keyed, Marks
<1>9. Adds(tx)
  <2>1. SumFunction(Reserves(tx)) = 0
    BY <1>5, <1>6, NothingReserved, LawsHold
  <2> QED
    BY <1>2, <2>1 DEF Adds
<1>10. CountInv
  BY <1>6 DEF CountInv, Init
<1>11. SessionInv
  <2>1. session \in [gen : {1}, vault : Owners \cup {NoOne}, handoff : {NoOne},
                     level : {0, 1}, reset : {"none"}, switches : {0}]
    BY DEF Init
  <2>2. session = [f \in {"gen", "vault", "handoff", "level", "reset", "switches"} |-> session[f]]
    BY <2>1, Zenon
  <2>3. session.vault \in Owners \cup {NoOne} /\ session.gen = 1
    BY <2>1
  <2> QED
    BY <2>2, <2>3, QueueAssumption DEF SessionInv
<1> QED
  BY <1>5, <1>7, <1>8, <1>9, <1>10, <1>11, LawsHold DEF Inv, QueueInv

\* Every step keeps the invariant and does what the action properties say.
LEMMA StepInv ==
  ASSUME Inv, [Next]_vars
  PROVE  Inv' /\ StepOK
<1>1. QueueInv(tx, {}) /\ CountInv /\ SessionInv
  BY DEF Inv
<1>2. StepOK
  <2>1. CASE \E i \in Intents : Enqueue(i)
    BY <1>1, <2>1, EnqueueOK
  <2>2. CASE \E i \in Intents : StampFails(i) \/ MarkOnly(i)
    BY <1>1, <2>2, NoSeedOK
  <2>3. ASSUME NEW l \in Loops, LoopStep(l) PROVE StepOK
    <3>1. CASE ParamsArrive(l) \/ ParamsFail(l)
      BY <1>1, <3>1, ParamsOK
    <3>2. CASE PowFound(l) \/ PowGivesUp(l)
      BY <1>1, <3>2, PowOK
    <3>3. CASE Sign(l) \/ CryptoFails(l)
      BY <1>1, <3>3, CryptoOK
    <3>4. CASE RelayAccepted(l) \/ RelayLost(l) \/ RelayStale(l) \/ RelayRefused(l)
      BY <1>1, <3>4, RelayOK
    <3>5. CASE RetryReady(l) \/ RetryFetchFails(l)
      BY <1>1, <3>5, RetryOK
    <3> QED
      BY <2>3, <3>1, <3>2, <3>3, <3>4, <3>5 DEF LoopStep
  <2>4. CASE SessionStep \/ UNCHANGED vars
    BY <1>1, <2>4, SessionOK
  <2> QED
    BY <2>1, <2>2, <2>3, <2>4 DEF Next
<1>3. SessionInv'
  BY <1>1, SessionStepInv
<1> QED
  BY <1>2, <1>3 DEF Inv, StepOK

\* The invariant holds in every state the client reaches.
THEOREM QueueInvariant == Spec => []Inv
<1>1. Inv /\ [Next]_vars => Inv'
  BY StepInv
<1> QED
  BY InitInv, <1>1, PTL DEF Spec

\* The queue, its entries and its loops have their types: a live entry has an
\* intent, and a loop counts no more attempts than MAX_POW_RETRIES.
THEOREM TxQueueTypes == Spec => []TypeOK
<1>1. Inv => TypeOK
  <2> SUFFICES ASSUME Inv PROVE TypeOK
    OBVIOUS
  <2>1. QueueType(tx) /\ accepted \in [Txs -> Nat]
    BY DEF Inv, QueueInv, CountInv
  <2> QED
    BY <2>1 DEF Inv, SessionInv, QueueType, EntryType, RunType, States, TypeOK
<1> QED
  BY <1>1, QueueInvariant, PTL

\* An entry is in the queue once or with exactly one loop of processTransactions,
\* however many loops a drain has left behind.
THEOREM EntriesHaveOneHolder == Spec => []OneHolder
<1>1. Inv => OneHolder
  <2> SUFFICES ASSUME Inv PROVE OneHolder
    OBVIOUS
  <2>1. Lined(tx) /\ Holding(tx, {})
    BY DEF Inv, QueueInv
  <2>2. ASSUME NEW t \in Txs
        PROVE  Cardinality({l \in Loops : tx.loop[l].pc # "idle" /\ tx.loop[l].cur = t})
                 = IF tx.entry[t].state = "flight" THEN 1 ELSE 0
    <3> DEFINE H == {l \in Loops : tx.loop[l].pc # "idle" /\ tx.loop[l].cur = t}
    <3>1. CASE tx.entry[t].state = "flight"
      <4>1. PICK l \in Loops : Busy(tx, l) /\ tx.loop[l].cur = t
        BY <2>1, <3>1 DEF Holding
      <4>2. \A m \in Loops : Busy(tx, m) /\ tx.loop[m].cur = t => m = l
        BY <2>1, <4>1 DEF Holding
      <4>3. H = {l}
        BY <4>1, <4>2 DEF Busy
      <4> QED
        BY <3>1, <4>3, FS_Singleton
    <3>2. CASE tx.entry[t].state # "flight"
      <4>1. H = {}
        BY <2>1, <3>2 DEF Holding, Busy
      <4> QED
        BY <3>2, <4>1, FS_EmptySet
    <3> QED
      BY <3>1, <3>2
  <2> QED
    BY <2>1, <2>2 DEF Lined, OneHolder
<1> QED
  BY <1>1, QueueInvariant, PTL

\* _reservedUmirage is never more than the live entries reserve, and exactly
\* that unless one of the three named causes left a slack.
THEOREM ReservationsAreExact == Spec => []ReservationsAddUp
<1>1. Inv => ReservationsAddUp
  BY DEF Inv, QueueInv, Adds, ReservationsAddUp, LiveReserve
<1> QED
  BY <1>1, QueueInvariant, PTL

\* A pending mark belongs to a live entry, or to a raw method that found no seed.
THEOREM MarksHaveEntries == Spec => []MarksAreLive
<1>1. Inv => MarksAreLive
  BY DEF Inv, QueueInv, Marks, MarksAreLive
<1> QED
  BY <1>1, QueueInvariant, PTL

\* The same action is not live twice unless a drain overtook one in flight.
THEOREM ActionsAreNotDoubled == Spec => []NoDuplicateAction
<1>1. Inv => NoDuplicateAction
  BY DEF Inv, QueueInv, Marks, NoDuplicateAction
<1> QED
  BY <1>1, QueueInvariant, PTL

\* A loop starts to sign only while the entry's owner and its session generation
\* are current, and what it then signs and posts has the owner's key, whoever is
\* signed in by then.
THEOREM SignsForCurrentOwner == Spec => SigningIsCurrent
<1>1. ASSUME Inv, NEW l \in Loops, Posts(l)
      PROVE  Inv' => HasOwnersKey(l)
  <2>1. tx'.loop[l].pc \notin {"idle", "params"}
    BY <1>1 DEF Posts
  <2> QED
    BY <2>1 DEF Inv, QueueInv, Keyed, HasOwnersKey
<1>2. Inv /\ [Next]_vars =>
        [\A l \in Loops : /\ StartsSigning(l) => SignsAsOwner(l)
                          /\ Posts(l) => HasOwnersKey(l)]_vars
  BY <1>1, StepInv DEF StepOK
<1> QED
  BY <1>2, QueueInvariant, PTL DEF Spec, SigningIsCurrent

\* Queued entries are cancelled only for a reason the code gives.
THEOREM DropsHaveReasons == Spec => NoSilentDrop
<1>1. Inv /\ [Next]_vars => [(\E t \in Txs : Drops(t)) => HasReason]_vars
  BY StepInv DEF StepOK
<1> QED
  BY <1>1, QueueInvariant, PTL DEF Spec, NoSilentDrop

\* The queue implements TxPromise: every promise settles at most once, and what
\* it says of the node's acceptance is true.
THEOREM QueueKeepsPromises == Spec => KeepsPromises
<1>1. Init => Promise!Init
  BY DEF Init, Promise!Init, Live, NoEntry
<1>2. Inv /\ [Next]_vars => [Promise!Next]_(Promise!vars)
  BY StepInv DEF StepOK
<1> QED
  BY <1>1, <1>2, QueueInvariant, PTL DEF Spec, KeepsPromises, Promise!Spec
=============================================================================
