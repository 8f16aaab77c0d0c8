-------------------------- MODULE TxEnvelopeProofs --------------------------
(***************************************************************************)
(* What TxEnvelope states of the parameters and the freshness of an        *)
(* attempt, proved for any actions, retries and pace of the chain.  What   *)
(* the tables of the seven encodings say is left to TLC.                   *)
(***************************************************************************)
EXTENDS TxEnvelope, TLAPS

-----------------------------------------------------------------------------
(***************************************************************************)
(* The inductive invariant.  A transaction that was relayed before, and    *)
(* so has a body, gets a later timestamp when it is retried and a later    *)
(* nonce when it is performed.                                             *)
(***************************************************************************)
TxFields == {"stage", "action", "req", "final", "env", "levelNow", "attempt", "nonce",
             "preimage", "mined", "proof", "signed", "body", "at", "changes"}

Shape ==
  /\ DOMAIN tx = TxFields /\ DOMAIN tx.env = {"hash", "diff", "base", "time"}
  /\ DOMAIN chain = {"now", "height", "need", "paid"}
  /\ chain.now \in Nat

\* Base bits are known only together with the hash of a block, and the worker is
\* asked only when they are known.
EnvKnown ==
  /\ tx.env.base \in {0, 1} /\ (tx.env.base = 1 => tx.env.hash[1] = "block")
  /\ tx.stage = "mining" => tx.env.base = 1

\* When the attempt at hand began.
Clocks ==
  /\ tx.at \in Nat /\ tx.at <= chain.now
  /\ tx.env.time \in Nat /\ tx.env.time <= chain.now
  /\ tx.stage \in {"mining", "signing"} => tx.nonce = tx.at + 1 /\ tx.env.time <= tx.at

\* The attempt relayed last is older than the one at hand.
Older ==
  LET nonce == tx.body.nonce
      time == tx.body.env.time
  IN  /\ nonce \in Nat /\ time \in Nat
      /\ \/ tx.stage \in {"posted", "retrying"} /\ nonce <= tx.at + 1 /\ time <= tx.at
         \/ tx.stage = "built" /\ nonce <= tx.env.time /\ time < tx.env.time
         \/ tx.stage \in {"mining", "signing"} /\ nonce < tx.nonce /\ time < tx.env.time

EnvelopeInv == Shape /\ EnvKnown /\ Clocks /\ (tx.body = <<>> \/ Older)

\* A transaction that is over, or not begun, carries nothing.
LEMMA BlankKeeps ==
  ASSUME EnvelopeInv, NEW stage \in {"idle", "refused", "failed", "accepted"},
         tx' = Blank(stage), UNCHANGED chain
  PROVE  EnvelopeInv'
  <1>1. /\ tx'.stage = stage /\ tx'.env = NoEnv /\ tx'.at = 0 /\ tx'.body = <<>>
        /\ DOMAIN tx' = TxFields
    BY DEF Blank, TxFields
  <1>2. NoEnv.base = 0 /\ NoEnv.time = 0 /\ DOMAIN NoEnv = {"hash", "diff", "base", "time"}
    BY DEF NoEnv
  <1>3. Shape'
    BY <1>1, <1>2 DEF EnvelopeInv, Shape
  <1>4. EnvKnown' /\ Clocks'
    BY <1>1, <1>2 DEF EnvelopeInv, Shape, EnvKnown, Clocks
  <1>5. QED
    BY <1>1, <1>3, <1>4 DEF EnvelopeInv

\* What is left to show of a step of a transaction in flight.
LEMMA FlightKeeps ==
  ASSUME EnvelopeInv, UNCHANGED chain, DOMAIN tx' = TxFields,
         DOMAIN tx'.env = {"hash", "diff", "base", "time"},
         EnvKnown', Clocks', tx'.body = <<>> \/ Older'
  PROVE  EnvelopeInv'
  BY DEF EnvelopeInv, Shape

\* Taking a request into the queue.
LEMMA RequestKeeps ==
  ASSUME EnvelopeInv, NEW a, NEW req, Request(a, req)
  PROVE  EnvelopeInv'
  <1>1. CASE Refuses(a, req)
    BY <1>1, BlankKeeps DEF Request
  <1>2. CASE ~Refuses(a, req)
    <2>1. /\ tx' = [tx EXCEPT !.stage = "queued", !.action = a, !.req = req]
          /\ tx.stage = "idle" /\ chain' = chain
      BY <1>2 DEF Request
    <2>2. Shape /\ EnvKnown /\ Clocks /\ (tx.body = <<>> \/ Older)
      BY DEF EnvelopeInv
    <2>3. /\ DOMAIN tx' = TxFields /\ tx'.stage = "queued" /\ tx'.env = tx.env /\ tx'.at = tx.at
          /\ tx'.body = tx.body
      BY <2>1, <2>2 DEF Shape, TxFields
    <2>4. tx.body = <<>>
      BY <2>1, <2>2 DEF Older
    <2>5. EnvKnown' /\ Clocks'
      BY <2>1, <2>2, <2>3 DEF EnvKnown, Clocks
    <2>6. QED
      BY <2>1, <2>2, <2>3, <2>4, <2>5, FlightKeeps DEF Shape
  <1>3. QED
    BY <1>1, <1>2

\* The head of the loop: parameters for the free, the clock for the others.
LEMMA DequeueKeeps ==
  ASSUME EnvelopeInv, Dequeue \/ ParamsArrive
  PROVE  EnvelopeInv'
  <1>1. Shape /\ EnvKnown /\ Clocks /\ (tx.body = <<>> \/ Older)
    BY DEF EnvelopeInv
  <1>2. tx.stage \in {"queued", "fetching"} /\ chain' = chain
    BY DEF Dequeue, ParamsArrive
  <1>3. tx.body = <<>>
    BY <1>1, <1>2 DEF Older
  <1>4. CASE tx' = [tx EXCEPT !.stage = "fetching", !.levelNow = level]
    <2>1. /\ DOMAIN tx' = TxFields /\ tx'.stage = "fetching" /\ tx'.env = tx.env
          /\ tx'.at = tx.at /\ tx'.body = tx.body
      BY <1>1, <1>4 DEF Shape, TxFields
    <2>2. EnvKnown' /\ Clocks'
      BY <1>1, <1>2, <2>1 DEF EnvKnown, Clocks
    <2>3. QED
      BY <1>1, <1>2, <1>3, <2>1, <2>2, FlightKeeps DEF Shape
  <1>5. ASSUME DOMAIN tx' = TxFields, tx'.stage = "built", tx'.at = tx.at, tx'.body = tx.body,
               DOMAIN tx'.env = {"hash", "diff", "base", "time"}, tx'.env.time = chain.now,
               tx'.env.base = 0 \/ (tx'.env.base = 1 /\ tx'.env.hash[1] = "block")
        PROVE  EnvelopeInv'
    <2>1. EnvKnown'
      BY <1>5 DEF EnvKnown
    <2>2. Clocks'
      BY <1>1, <1>2, <1>5 DEF Clocks, Shape
    <2>3. QED
      BY <1>2, <1>3, <1>5, <2>1, <2>2, FlightKeeps
  <1>6. CASE Dequeue /\ ~(level = 0 /\ tx.action \notin NoPowActions)
    <2> DEFINE env == [hash |-> IF tx.action \in NoPowActions THEN NoHash ELSE <<"clock", chain.now>>,
                       diff |-> 0, base |-> 0, time |-> chain.now]
    <2>1. tx' = [tx EXCEPT !.stage = "built", !.levelNow = level, !.final = Final, !.env = env]
      BY <1>6 DEF Dequeue
    <2>2. /\ DOMAIN env = {"hash", "diff", "base", "time"} /\ env.time = chain.now
          /\ env.base = 0
      OBVIOUS
    <2> HIDE DEF env
    <2>3. /\ DOMAIN tx' = TxFields /\ tx'.stage = "built" /\ tx'.env = env
          /\ tx'.at = tx.at /\ tx'.body = tx.body
      BY <1>1, <2>1 DEF Shape, TxFields
    <2>4. QED
      BY <1>5, <2>2, <2>3
  <1>7. CASE ParamsArrive
    <2>1. tx' = [tx EXCEPT !.stage = "built", !.final = Final, !.env = Fetched]
      BY <1>7 DEF ParamsArrive
    <2>2. /\ DOMAIN Fetched = {"hash", "diff", "base", "time"} /\ Fetched.time = chain.now
          /\ Fetched.base = 1 /\ Fetched.hash[1] = "block"
      BY DEF Fetched
    <2>3. /\ DOMAIN tx' = TxFields /\ tx'.stage = "built" /\ tx'.env = Fetched
          /\ tx'.at = tx.at /\ tx'.body = tx.body
      BY <1>1, <2>1 DEF Shape, TxFields
    <2>4. QED
      BY <1>5, <2>2, <2>3
  <1>8. QED
    BY <1>4, <1>6, <1>7 DEF Dequeue

\* performTransaction: a nonce of now, and the worker only with parameters.
LEMMA PerformKeeps ==
  ASSUME EnvelopeInv, Perform
  PROVE  EnvelopeInv'
  <1>1. Shape /\ EnvKnown /\ Clocks /\ (tx.body = <<>> \/ Older)
    BY DEF EnvelopeInv
  <1> DEFINE t == [tx EXCEPT !.nonce = Nonce, !.at = chain.now, !.preimage = <<>>, !.mined = 0, !.proof = 0]
  <1>2. /\ tx.stage = "built" /\ chain' = chain
        /\ tx' = IF CanSkipPow THEN [t EXCEPT !.stage = "signing", !.env.diff = 0]
                 ELSE IF PowThrows THEN Blank("failed")
                 ELSE [t EXCEPT !.stage = "mining",
                                !.preimage = EnvelopeOf(tx.env, Nonce)
                                               \o Encode(PowRows[tx.action], tx.final)]
    BY Zenon DEF Perform
  <1>3. /\ DOMAIN t = TxFields /\ t.env = tx.env /\ t.at = chain.now /\ t.nonce = chain.now + 1
        /\ t.body = tx.body
    BY <1>1 DEF Shape, TxFields, Nonce
  <1> HIDE DEF t
  <1>4. ASSUME DOMAIN tx' = TxFields, tx'.at = chain.now, tx'.nonce = chain.now + 1,
               tx'.body = tx.body, tx'.stage \in {"mining", "signing"},
               DOMAIN tx'.env = {"hash", "diff", "base", "time"},
               tx'.env.hash = tx.env.hash, tx'.env.base = tx.env.base, tx'.env.time = tx.env.time,
               tx'.stage = "mining" => tx.env.base = 1
        PROVE  EnvelopeInv'
    <2>1. EnvKnown'
      BY <1>1, <1>4 DEF EnvKnown
    <2>2. chain.now \in Nat /\ tx.env.time \in Nat /\ tx.env.time <= chain.now
      BY <1>1 DEF Shape, Clocks
    <2>3. Clocks'
      BY <1>2, <1>4, <2>2 DEF Clocks
    <2>4. ASSUME Older PROVE Older'
      <3>1. /\ tx.body.nonce \in Nat /\ tx.body.env.time \in Nat
            /\ tx.body.nonce <= tx.env.time /\ tx.body.env.time < tx.env.time
        BY <1>2, <2>4 DEF Older
      <3>2. QED
        BY <1>4, <2>2, <3>1 DEF Older
    <2>5. QED
      BY <1>1, <1>2, <1>4, <2>1, <2>3, <2>4, FlightKeeps
  <1>5. CASE tx' = [t EXCEPT !.stage = "signing", !.env.diff = 0]
    <2>1. /\ DOMAIN tx' = TxFields /\ tx'.at = t.at /\ tx'.nonce = t.nonce /\ tx'.body = t.body
          /\ tx'.stage = "signing" /\ tx'.env = [t.env EXCEPT !.diff = 0]
      BY <1>3, <1>5 DEF TxFields
    <2>2. /\ DOMAIN tx'.env = {"hash", "diff", "base", "time"}
          /\ tx'.env.hash = tx.env.hash /\ tx'.env.base = tx.env.base /\ tx'.env.time = tx.env.time
      BY <1>1, <1>3, <2>1 DEF Shape
    <2>3. QED
      BY <1>3, <1>4, <2>1, <2>2
  <1>6. CASE /\ ~PowThrows
             /\ tx' = [t EXCEPT !.stage = "mining",
                                !.preimage = EnvelopeOf(tx.env, Nonce)
                                               \o Encode(PowRows[tx.action], tx.final)]
    <2>1. /\ DOMAIN tx' = TxFields /\ tx'.at = t.at /\ tx'.nonce = t.nonce /\ tx'.body = t.body
          /\ tx'.stage = "mining" /\ tx'.env = t.env
      BY <1>3, <1>6 DEF TxFields
    <2>2. tx.env.base = 1
      BY <1>1, <1>6 DEF PowThrows, EnvKnown
    <2>3. QED
      BY <1>1, <1>3, <1>4, <2>1, <2>2 DEF Shape
  <1>7. CASE tx' = Blank("failed")
    BY <1>2, <1>7, BlankKeeps
  <1>8. QED
    BY <1>2, <1>5, <1>6, <1>7, Zenon

\* A found proof, a signed body, a refusal that is retried and a failed fetch
\* change none of the parameters.
LEMMA RelayKeeps ==
  ASSUME EnvelopeInv, \/ \E count : PowFound(count)
                      \/ Sign \/ RefuseWork \/ RetryFetchFails
  PROVE  EnvelopeInv'
  <1>1. Shape /\ EnvKnown /\ Clocks /\ (tx.body = <<>> \/ Older)
    BY DEF EnvelopeInv
  <1>2. chain' = chain /\ chain.now \in Nat
    BY <1>1 DEF PowFound, Sign, RefuseWork, RetryFetchFails, Shape
  <1>3. ASSUME DOMAIN tx' = TxFields, tx'.env = tx.env, tx'.stage # "mining",
               Clocks', tx'.body = <<>> \/ Older'
        PROVE  EnvelopeInv'
    <2>1. EnvKnown'
      BY <1>1, <1>3 DEF EnvKnown
    <2>2. QED
      BY <1>1, <1>2, <1>3, <2>1, FlightKeeps DEF Shape
  <1>4. CASE tx' = Blank("failed")
    BY <1>2, <1>4, BlankKeeps
  <1>5. ASSUME NEW count, PowFound(count)
        PROVE  EnvelopeInv'
    <2>1. /\ tx.stage = "mining"
          /\ tx' = [tx EXCEPT !.stage = "signing", !.mined = count % 2^W, !.proof = count % 2^W]
      BY <1>5 DEF PowFound
    <2>2. /\ DOMAIN tx' = TxFields /\ tx'.stage = "signing" /\ tx'.env = tx.env
          /\ tx'.at = tx.at /\ tx'.nonce = tx.nonce /\ tx'.body = tx.body
      BY <1>1, <2>1 DEF Shape, TxFields
    <2>3. Clocks'
      BY <1>1, <1>2, <2>1, <2>2 DEF Clocks
    <2>4. Older => Older'
      BY <2>1, <2>2 DEF Older
    <2>5. QED
      BY <1>1, <1>3, <2>2, <2>3, <2>4
  <1>6. CASE Sign
    <2> DEFINE body == [fields |-> Relay(tx.action, tx.final), env |-> tx.env,
                        nonce |-> tx.nonce, pow |-> tx.proof]
    <2>1. /\ tx.stage = "signing" /\ DOMAIN tx' = TxFields /\ tx'.stage = "posted"
          /\ tx'.env = tx.env /\ tx'.at = tx.at /\ tx'.body = body
      BY <1>1, <1>6 DEF Sign, Shape, TxFields
    <2>2. tx'.body.nonce = tx.nonce /\ tx'.body.env.time = tx.env.time
      BY <2>1
    <2>3. /\ tx.nonce = tx.at + 1 /\ tx.env.time <= tx.at /\ tx.at \in Nat
          /\ tx.env.time \in Nat
      BY <1>1, <2>1 DEF Clocks
    <2>4. Clocks'
      BY <1>1, <1>2, <2>1 DEF Clocks
    <2>5. Older'
      BY <2>1, <2>2, <2>3 DEF Older
    <2>6. QED
      BY <1>3, <2>1, <2>4, <2>5
  <1>7. CASE RefuseWork /\ tx' = [tx EXCEPT !.stage = "retrying", !.attempt = @ + 1]
    <2>1. /\ tx.stage = "posted" /\ DOMAIN tx' = TxFields /\ tx'.stage = "retrying"
          /\ tx'.env = tx.env /\ tx'.at = tx.at /\ tx'.body = tx.body
      BY <1>1, <1>7 DEF RefuseWork, Shape, TxFields
    <2>2. Clocks'
      BY <1>1, <1>2, <2>1 DEF Clocks
    <2>3. Older => Older'
      BY <2>1 DEF Older
    <2>4. QED
      BY <1>1, <1>3, <2>1, <2>2, <2>3
  <1>8. CASE RetryFetchFails /\ tx' = [tx EXCEPT !.attempt = @ + 1, !.at = chain.now]
    <2>1. /\ tx.stage = "retrying" /\ tx.at < chain.now /\ DOMAIN tx' = TxFields
          /\ tx'.stage = "retrying" /\ tx'.env = tx.env /\ tx'.at = chain.now /\ tx'.body = tx.body
      BY <1>1, <1>2, <1>8 DEF RetryFetchFails, Shape, TxFields, Clocks
    <2>2. Clocks'
      BY <1>1, <1>2, <2>1 DEF Clocks
    <2>3. ASSUME Older PROVE Older'
      <3>1. /\ tx.body.nonce \in Nat /\ tx.body.env.time \in Nat /\ tx.at \in Nat
            /\ tx.body.nonce <= tx.at + 1 /\ tx.body.env.time <= tx.at
        BY <1>1, <2>1, <2>3 DEF Older, Clocks
      <3>2. QED
        BY <1>2, <2>1, <3>1 DEF Older
    <2>4. QED
      BY <1>1, <1>3, <2>1, <2>2, <2>3
  <1>9. QED
    BY <1>4, <1>5, <1>6, <1>7, <1>8 DEF RefuseWork, RetryFetchFails

\* A retry starts over with the time of now, which is later than the attempt.
LEMMA RetryKeeps ==
  ASSUME EnvelopeInv, RetryReady
  PROVE  EnvelopeInv'
  <1>1. Shape /\ EnvKnown /\ Clocks /\ (tx.body = <<>> \/ Older)
    BY DEF EnvelopeInv
  <1>2. /\ tx.stage = "retrying" /\ chain' = chain /\ chain.now \in Nat /\ tx.at \in Nat
        /\ tx.at < chain.now
    BY <1>1 DEF RetryReady, Shape, Clocks
  <1> DEFINE env == IF tx.levelNow = 0 THEN Fetched ELSE [tx.env EXCEPT !.diff = 0, !.time = chain.now]
  <1>3. /\ DOMAIN tx' = TxFields /\ tx'.stage = "built" /\ tx'.env = env
        /\ tx'.at = tx.at /\ tx'.body = tx.body
    BY <1>1 DEF RetryReady, Shape, TxFields
  <1>4. /\ DOMAIN env = {"hash", "diff", "base", "time"} /\ env.time = chain.now
        /\ env.base \in {0, 1} /\ (env.base = 1 => env.hash[1] = "block")
    <2>1. CASE tx.levelNow = 0
      BY <2>1 DEF Fetched
    <2>2. CASE tx.levelNow # 0
      <3>1. /\ DOMAIN env = {"hash", "diff", "base", "time"} /\ env.time = chain.now
            /\ env.base = tx.env.base /\ env.hash = tx.env.hash
        BY <1>1, <2>2 DEF Shape
      <3> HIDE DEF env
      <3>2. QED
        BY <1>1, <3>1 DEF EnvKnown
    <2>3. QED
      BY <2>1, <2>2
  <1> HIDE DEF env
  <1>5. EnvKnown'
    BY <1>3, <1>4 DEF EnvKnown
  <1>6. Clocks'
    BY <1>2, <1>3, <1>4 DEF Clocks
  <1>7. ASSUME Older PROVE Older'
    <2>1. /\ tx.body.nonce \in Nat /\ tx.body.env.time \in Nat
          /\ tx.body.nonce <= tx.at + 1 /\ tx.body.env.time <= tx.at
      BY <1>2, <1>7 DEF Older
    <2>2. QED
      BY <1>2, <1>3, <1>4, <2>1 DEF Older
  <1>8. QED
    BY <1>1, <1>2, <1>3, <1>4, <1>5, <1>6, <1>7, FlightKeeps

\* Time, blocks and the subscription move on.
LEMMA ChainKeeps ==
  ASSUME EnvelopeInv, \/ \E newBlock \in 0..1, need \in 0..1 : Tick(newBlock, need)
                      \/ SubscriptionChanges \/ CacheUserStatus \/ UNCHANGED vars
  PROVE  EnvelopeInv'
  <1>1. Shape /\ EnvKnown /\ Clocks /\ (tx.body = <<>> \/ Older)
    BY DEF EnvelopeInv
  <1>2. ASSUME DOMAIN chain' = DOMAIN chain, chain'.now \in Nat, chain.now <= chain'.now,
               DOMAIN tx' = TxFields, tx'.stage = tx.stage, tx'.env = tx.env, tx'.at = tx.at,
               tx'.nonce = tx.nonce, tx'.body = tx.body
        PROVE  EnvelopeInv'
    <2>1. Shape'
      BY <1>1, <1>2 DEF Shape
    <2>2. EnvKnown'
      BY <1>1, <1>2 DEF EnvKnown
    <2>3. chain.now \in Nat
      BY <1>1 DEF Shape
    <2>4. Clocks'
      BY <1>1, <1>2, <2>3 DEF Clocks
    <2>5. Older => Older'
      BY <1>2 DEF Older
    <2>6. QED
      BY <1>1, <1>2, <2>1, <2>2, <2>4, <2>5 DEF EnvelopeInv
  <1>3. DOMAIN tx = TxFields /\ chain.now \in Nat /\ DOMAIN chain = {"now", "height", "need", "paid"}
    BY <1>1 DEF Shape
  <1>4. ASSUME NEW newBlock \in 0..1, NEW need \in 0..1, Tick(newBlock, need)
        PROVE  EnvelopeInv'
    <2>1. tx' = tx /\ DOMAIN chain' = DOMAIN chain /\ chain'.now = chain.now + 1
      BY <1>3, <1>4 DEF Tick
    <2>2. QED
      BY <1>2, <1>3, <2>1
  <1>5. CASE SubscriptionChanges
    <2>1. /\ DOMAIN chain' = DOMAIN chain /\ chain'.now = chain.now
          /\ DOMAIN tx' = TxFields /\ tx'.stage = tx.stage /\ tx'.env = tx.env /\ tx'.at = tx.at
          /\ tx'.nonce = tx.nonce /\ tx'.body = tx.body
      BY <1>3, <1>5 DEF SubscriptionChanges, TxFields
    <2>2. QED
      BY <1>2, <1>3, <2>1
  <1>6. CASE CacheUserStatus \/ UNCHANGED vars
    <2>1. tx' = tx /\ chain' = chain
      BY <1>6 DEF CacheUserStatus, vars
    <2>2. QED
      BY <1>2, <1>3, <2>1
  <1>7. QED
    BY <1>4, <1>5, <1>6

\* A transaction ends.
LEMMA EndKeeps ==
  ASSUME EnvelopeInv, ParamsFail \/ PowGivesUp \/ Accept \/ RefuseOtherwise
  PROVE  EnvelopeInv'
  BY BlankKeeps DEF ParamsFail, PowGivesUp, Accept, RefuseOtherwise

\* At first there is no transaction.
LEMMA EnvelopeInit == Init => EnvelopeInv
  <1> SUFFICES ASSUME Init PROVE EnvelopeInv
    OBVIOUS
  <1>1. chain.now = 0 /\ DOMAIN chain = {"now", "height", "need", "paid"} /\ tx = Blank("idle")
    BY DEF Init
  <1>2. /\ tx.stage = "idle" /\ tx.env = NoEnv /\ tx.at = 0 /\ tx.body = <<>>
        /\ DOMAIN tx = TxFields
    BY <1>1 DEF Blank, TxFields
  <1>3. NoEnv.base = 0 /\ NoEnv.time = 0 /\ DOMAIN NoEnv = {"hash", "diff", "base", "time"}
    BY DEF NoEnv
  <1>4. QED
    BY <1>1, <1>2, <1>3 DEF EnvelopeInv, Shape, EnvKnown, Clocks

-----------------------------------------------------------------------------
(***************************************************************************)
(* The theorems.                                                           *)
(***************************************************************************)
\* The parameters and the clocks of the transaction in flight agree in every
\* reachable state, for any actions, retries and bounds.
THEOREM EnvelopeInvariant == Spec => []EnvelopeInv
  <1>1. EnvelopeInv /\ [Next]_vars => EnvelopeInv'
    <2> SUFFICES ASSUME EnvelopeInv, [Next]_vars PROVE EnvelopeInv'
      OBVIOUS
    <2>1. CASE \E a \in Actions : \E req \in Requests(a) : Request(a, req)
      BY <2>1, RequestKeeps
    <2>2. CASE \E count \in {1, 2^W} : PowFound(count)
      BY <2>2, RelayKeeps
    <2>3. QED
      BY <2>1, <2>2, DequeueKeeps, PerformKeeps, RelayKeeps, RetryKeeps, ChainKeeps, EndKeeps
         DEF Next
  <1>2. QED
    BY <1>1, EnvelopeInit, PTL DEF Spec

\* The worker is set only on the hash of a block and on base bits that were fetched,
\* however the tier changes between the dequeue and performTransaction.
THEOREM WorkerHasParams == Spec => []MinesOnFetchedParams
  <1>1. EnvelopeInv => MinesOnFetchedParams
    BY DEF EnvelopeInv, EnvKnown, MinesOnFetchedParams
  <1>2. QED
    BY <1>1, EnvelopeInvariant, PTL

\* Only signing relays a transaction that was being signed.
LEMMA OnlySignRelays ==
  ASSUME Shape, [Next]_vars, tx.stage = "signing", tx'.stage = "posted"
  PROVE  Sign
  <1>1. DOMAIN tx = TxFields
    BY DEF Shape
  <1>2. ~UNCHANGED tx
    OBVIOUS
  <1>3. CASE SubscriptionChanges
    BY <1>1, <1>3 DEF SubscriptionChanges, TxFields
  <1>4. ASSUME NEW newBlock, NEW need, Tick(newBlock, need) PROVE FALSE
    BY <1>2, <1>4 DEF Tick
  <1>5. ~CacheUserStatus /\ ~UNCHANGED vars
    BY <1>2 DEF CacheUserStatus, vars
  <1>6. ASSUME NEW a, NEW req, Request(a, req) PROVE FALSE
    BY <1>6 DEF Request
  <1>7. ASSUME NEW count, PowFound(count) PROVE FALSE
    BY <1>7 DEF PowFound
  <1>8. ~Dequeue /\ ~ParamsArrive /\ ~ParamsFail /\ ~PowGivesUp /\ ~RetryReady /\ ~RetryFetchFails
    BY DEF Dequeue, ParamsArrive, ParamsFail, PowGivesUp, RetryReady, RetryFetchFails
  <1>9. ~Perform /\ ~Accept /\ ~RefuseWork /\ ~RefuseOtherwise
    BY DEF Perform, Accept, RefuseWork, RefuseOtherwise
  <1>10. QED
    BY <1>3, <1>4, <1>5, <1>6, <1>7, <1>8, <1>9 DEF Next

\* Every attempt that is relayed carries a nonce and a timestamp later than any
\* attempt before it.
THEOREM RetriesAreFresh == Spec => AttemptsAreFresh
  <1>1. EnvelopeInv /\ [Next]_vars =>
            [tx.stage = "signing" /\ tx'.stage = "posted" /\ tx.body # <<>> =>
               tx'.body.nonce > tx.body.nonce /\ tx'.body.env.time > tx.body.env.time]_vars
    <2> SUFFICES ASSUME EnvelopeInv, [Next]_vars, tx.stage = "signing", tx'.stage = "posted",
                        tx.body # <<>>
                 PROVE  tx'.body.nonce > tx.body.nonce /\ tx'.body.env.time > tx.body.env.time
      OBVIOUS
    <2>1. Shape /\ Clocks /\ Older
      BY DEF EnvelopeInv
    <2>2. Sign /\ DOMAIN tx = TxFields
      BY <2>1, OnlySignRelays DEF Shape
    <2>3. tx'.body = [fields |-> Relay(tx.action, tx.final), env |-> tx.env,
                      nonce |-> tx.nonce, pow |-> tx.proof]
      BY <2>2 DEF Sign, TxFields
    <2>4. tx'.body.nonce = tx.nonce /\ tx'.body.env.time = tx.env.time
      BY <2>3
    <2>5. /\ tx.body.nonce \in Nat /\ tx.body.nonce < tx.nonce
          /\ tx.body.env.time \in Nat /\ tx.body.env.time < tx.env.time
          /\ tx.nonce \in Nat /\ tx.env.time \in Nat
      BY <2>1 DEF Older, Clocks
    <2>6. QED
      BY <2>4, <2>5
  <1>2. QED
    BY <1>1, EnvelopeInvariant, PTL DEF Spec, AttemptsAreFresh
=============================================================================
