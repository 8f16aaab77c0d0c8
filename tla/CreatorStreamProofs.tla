------------------------- MODULE CreatorStreamProofs ------------------------
(***************************************************************************)
(* Proofs about CreatorStream, for any epoch lengths, budgets, shares,     *)
(* lengths of tranches and bounds on time.                                 *)
(***************************************************************************)
EXTENDS CreatorStream, SumProofs

-----------------------------------------------------------------------------
(* The inductive invariant.                                                *)

IsTranche(tr) == tr.share \in Nat /\ tr.start \in Nat /\ tr.end \in Nat /\ tr.start < tr.end

\* Breakpoints are those of booked tranches, and none is behind the cursor.
PointsInv ==
    /\ IsFiniteSet(points) /\ IsFiniteSet(tranches)
    /\ \A p \in points : IsPoint(p) /\ cursor <= p.at /\ p.key <= 2 * Cardinality(tranches) + 1
    /\ \A p, q \in points : p.key = q.key => p = q
    /\ \A s, e \in points : Paired(s, e) => s.at < e.at
    /\ \A tr \in tranches : IsTranche(tr) /\ tr.id \in 1..Cardinality(tranches)

\* The accumulator is exact at every instant to come.
Exact == \A t \in Nat : cursor <= t => ExactAt(t)

\* The part of the invariant that is about the accumulator.
StreamInv ==
    /\ cursor \in Nat /\ rate \in Nat /\ acc \in Nat
    /\ PointsInv /\ Flows(points, cursor, rate) /\ Exact

\* The clock is on the grid and not ahead of time, the cursor not ahead of the
\* boundary it is about to visit.
ClockInv ==
    /\ sched.epoch <= clock /\ clock <= EpochAt(now)
    /\ sched.unix <= cursor /\ cursor <= EpochEnd(clock)

\* Only the clock's epoch has yet to be paid, on the grid of today.
WindowInv ==
    \A e \in DOMAIN epochs :
        /\ e \in 0..clock /\ epochs[e].start <= EpochStart(clock)
        /\ e < clock => epochs[e].end <= EpochStart(clock)
        /\ e = clock => epochs[e] = NewCreatorEpoch(clock)

\* The pools of a book of epochs.
Pools(book) == SumFunction([e \in DOMAIN book |-> book[e].pool])

\* What was drawn is in the pools, and was in the accumulator.
PaidInv ==
    /\ paid * Scale <= acc
    /\ IsFiniteSet(DOMAIN epochs)
    /\ paid = Pools(epochs)

\* While budgets suffice the accumulator stands at the start of the clock's
\* epoch, and its whole tokens are drawn.
FedInv ==
    ~starved =>
        /\ cursor <= EpochStart(clock)
        /\ \A p \in points : p.acc > 0 => p.at > EpochStart(clock)
        /\ acc = Streamed(EpochStart(clock))
        /\ paid = acc \div Scale

\* Epochs in settlement are behind the clock.
SettleInv == EpochGetsItsShare /\ \A e \in settle : e < clock

Inv == /\ TypeOK /\ StreamInv /\ ClockInv /\ WindowsDisjoint /\ WindowInv
       /\ PaidInv /\ FedInv /\ SettleInv

-----------------------------------------------------------------------------
(* Settlements.                                                            *)

\* What a settlement up to an instant does to the breakpoints.
SettlesWell(upto) ==
    /\ Due(upto) \in SUBSET points
    /\ Reached(upto) \in Nat /\ cursor <= Reached(upto) /\ Reached(upto) <= upto
    /\ \A p \in Due(upto) : p.at <= Reached(upto)
    /\ \A p \in points \ Due(upto) : Reached(upto) <= p.at
    /\ \A p \in Due(upto) : \A q \in points : Before(q, p) => q \in Due(upto)
    /\ ~Exhausted(upto) => /\ Reached(upto) = upto
                           /\ upto = cursor \/ \A p \in points \ Due(upto) : upto < p.at

\* The breakpoints due come before the others.
LEMMA DueFirst ==
  ASSUME PointsInv, cursor \in Nat, NEW upto \in Nat, cursor <= upto
  PROVE  SettlesWell(upto)
<1> DEFINE D == Due(upto)
           all == {p \in points : p.at <= upto}
<1>1. /\ \A p \in points : IsPoint(p) /\ cursor <= p.at
      /\ \A p, q \in points : p.key = q.key => p = q
      /\ IsPoints(points) /\ IsPoints(all) /\ RecordsPerBlock \in Nat \ {0}
  <2>1. IsPoints(points)
    BY DEF PointsInv, IsPoints
  <2>2. IsPoints(all)
    BY <2>1, SomePoints
  <2> QED
    BY <2>1, <2>2, StreamAssumption DEF PointsInv
<1>2. CASE upto = cursor
  <2>1. D = {} /\ ~Exhausted(upto)
    BY <1>1, <1>2, FS_EmptySet DEF Due, Exhausted
  <2>2. Reached(upto) = upto
    BY <2>1 DEF Reached
  <2> QED
    BY <1>1, <1>2, <2>1, <2>2 DEF SettlesWell
<1>3. CASE upto # cursor
  <2>1. D = First(all, RecordsPerBlock)
    BY <1>3 DEF Due, Ahead, First
  <2>2. \A p, q \in all : p.key = q.key => p = q
    BY <1>1
  <2>3. D \subseteq all /\ all \subseteq points /\ \A p \in all : p.at <= upto
    BY <2>1 DEF First
  <2>4. \A p \in points : p \in all <=> p.at <= upto
    OBVIOUS
  <2> HIDE DEF D, all
  <2>5. /\ \A p \in D : \A q \in all : Before(q, p) => q \in D
        /\ D # all => Cardinality(D) = RecordsPerBlock
    <3>1. Leads(First(all, RecordsPerBlock), all, RecordsPerBlock)
      BY <1>1, <2>2, FirstFew, Zenon
    <3> QED
      BY <2>1, <3>1, Zenon DEF Leads
  <2>6. \A p \in D : \A q \in points : Before(q, p) => q \in D
    <3> SUFFICES ASSUME NEW p \in D, NEW q \in points, Before(q, p) PROVE q \in D
      OBVIOUS
    <3>1. IsPoint(p) /\ IsPoint(q) /\ p.at <= upto
      BY <1>1, <2>3
    <3>2. q.at <= p.at
      BY <3>1, BeforeOrder, Zenon
    <3>3. q \in all
      BY <2>4, <3>1, <3>2 DEF IsPoint
    <3> QED
      BY <2>5, <3>3
  <2>7. CASE ~Exhausted(upto)
    <3>1. D = all
      BY <2>5, <2>7 DEF Exhausted, D
    <3>2. Reached(upto) = upto
      BY <2>7 DEF Reached
    <3>3. \A p \in points \ D : upto < p.at
      BY <1>1, <2>4, <3>1 DEF IsPoint
    <3>4. \A p \in points \ D : upto <= p.at
      BY <1>1, <3>3 DEF IsPoint
    <3> QED
      BY <2>3, <2>6, <3>2, <3>3, <3>4 DEF SettlesWell, D
  <2>8. CASE Exhausted(upto)
    <3> DEFINE T == {cursor} \cup {p.at : p \in D}
               r == Reached(upto)
    <3>1. T \subseteq Nat /\ T # {} /\ \A y \in T : y <= upto
      BY <1>1, <2>3 DEF IsPoint
    <3>2. r = Max(T)
      BY <2>8 DEF Reached, D
    <3> HIDE DEF T
    <3>3. r \in T /\ \A y \in T : y <= r
      BY <3>1, <3>2, Greatest, Zenon
    <3>4. r \in Nat /\ r <= upto
      BY <3>1, <3>3, Zenon
    <3>5. cursor \in T /\ \A p \in D : p.at \in T
      BY DEF T
    <3>6. cursor <= r /\ \A p \in D : p.at <= r
      BY <3>3, <3>5, Zenon
    <3>7. ASSUME NEW p \in points \ D PROVE r <= p.at
      <4>1. r = cursor \/ \E q \in D : r = q.at
        BY <3>3 DEF T
      <4>2. CASE r = cursor
        BY <1>1, <4>2
      <4>3. ASSUME NEW q \in D, r = q.at PROVE r <= p.at
        <5>1. IsPoint(p) /\ IsPoint(q) /\ ~Before(p, q)
          BY <1>1, <2>3, <2>6
        <5>2. ~(p.at < q.at)
          BY <5>1, BeforeOrder, Zenon
        <5> QED
          BY <4>3, <5>1, <5>2 DEF IsPoint
      <4> QED
        BY <4>1, <4>2, <4>3
    <3> HIDE DEF r
    <3> QED
      BY <2>3, <2>6, <2>8, <3>4, <3>6, <3>7 DEF SettlesWell, D, r
  <2> QED
    BY <2>7, <2>8
<1> QED
  BY <1>2, <1>3

\* A tranche starts before it stops, so a settlement applies its first
\* breakpoint before the second.
LEMMA DueClosed ==
  ASSUME PointsInv, NEW upto, SettlesWell(upto)
  PROVE  /\ Closed(Due(upto), points)
         /\ \A p \in Due(upto) : Closed({q \in Due(upto) : q = p \/ Before(q, p)}, points)
<1>1. /\ \A s, e \in points : Paired(s, e) => s.at < e.at
      /\ \A p \in points : IsPoint(p)
      /\ Due(upto) \in SUBSET points
      /\ \A p \in Due(upto) : \A q \in points : Before(q, p) => q \in Due(upto)
  BY DEF PointsInv, SettlesWell
<1>2. \A s, e \in points : Paired(s, e) => Before(s, e)
  BY <1>1, BeforeOrder, Zenon
<1>3. Closed(Due(upto), points)
  BY <1>1, <1>2 DEF Closed
<1>4. ASSUME NEW p \in Due(upto)
      PROVE  Closed({q \in Due(upto) : q = p \/ Before(q, p)}, points)
  <2> SUFFICES ASSUME NEW s \in points, NEW e \in Due(upto), e = p \/ Before(e, p), Paired(s, e)
               PROVE  s \in Due(upto) /\ Before(s, p)
    BY DEF Closed
  <2>1. Before(s, e) /\ IsPoint(s) /\ IsPoint(e) /\ IsPoint(p)
    BY <1>1, <1>2, <1>4
  <2>2. Before(s, p)
    BY <2>1, BeforeOrder, Zenon
  <2> QED
    BY <1>1, <2>1, <2>2
<1> QED
  BY <1>3, <1>4

-----------------------------------------------------------------------------
(* What a settlement keeps.                                                *)

\* Pending breakpoints that are applied in a possible order leave a rate.
LEMMA RateStays ==
  ASSUME StreamInv, NEW D \in SUBSET points, Closed(D, points),
         NEW r \in Nat, cursor <= r, \A p \in D : p.at <= r
  PROVE  RateOf(D) \in Int /\ rate + RateOf(D) >= 0
<1>1. IsPoints(points) /\ rate \in Nat /\ Flows(points, cursor, rate)
  BY DEF StreamInv, PointsInv, IsPoints
<1>2. IsPoints(D)
  BY <1>1, SomePoints
<1>3. r + 1 \in Nat /\ r <= r + 1
  OBVIOUS
<1>4. rate * ((r + 1) - r) + Flow(D, r, r + 1) >= 0
  BY <1>1, <1>3, Zenon DEF Flows
<1>5. RateOf(D) \in Int /\ Flow(D, r, r + 1) = ((r + 1) - r) * RateOf(D)
  BY <1>2, <1>3, FlowPast
<1> QED
  BY <1>1, <1>4, <1>5

\* A settlement goes forwards.
Forwards(upto) ==
    /\ SettlesWell(upto)
    /\ SettledRate(upto) \in Nat /\ SettledAcc(upto) \in Nat /\ acc <= SettledAcc(upto)
    /\ \A p \in Due(upto) : ~(RateAt(p, Due(upto)) < 0)

\* The rate stays positive and the accumulator does not fall.
LEMMA SettlesForwards ==
  ASSUME StreamInv, NEW upto \in Nat, cursor <= upto
  PROVE  Forwards(upto)
<1> DEFINE D == Due(upto)
           r == Reached(upto)
<1>1. PointsInv /\ cursor \in Nat /\ rate \in Nat /\ acc \in Nat
  BY DEF StreamInv
<1>2. SettlesWell(upto)
  BY <1>1, DueFirst
<1>3. Closed(D, points) /\ \A p \in D : Closed({q \in D : q = p \/ Before(q, p)}, points)
  BY <1>1, <1>2, DueClosed
<1>4. /\ D \in SUBSET points /\ r \in Nat /\ cursor <= r /\ \A p \in D : p.at <= r
      /\ \A p \in points : IsPoint(p) /\ cursor <= p.at
  BY <1>1, <1>2 DEF SettlesWell, PointsInv
<1>5. IsPoints(D)
  BY <1>1, <1>4, SomePoints DEF PointsInv, IsPoints
<1> HIDE DEF D, r
<1>6. SettledRate(upto) \in Nat
  <2>1. RateOf(D) \in Int /\ rate + RateOf(D) >= 0
    BY <1>3, <1>4, RateStays
  <2> QED
    BY <1>1, <2>1 DEF SettledRate, D
<1>7. ASSUME NEW p \in D PROVE ~(RateAt(p, D) < 0)
  <2> DEFINE E == {q \in D : q = p \/ Before(q, p)}
  <2>1. E \in SUBSET points /\ Closed(E, points) /\ \A q \in E : q.at <= r
    BY <1>3, <1>4
  <2>2. RateAt(p, D) = rate + RateOf(E)
    BY DEF RateAt
  <2> HIDE DEF E
  <2>3. RateOf(E) \in Int /\ rate + RateOf(E) >= 0
    BY <1>4, <2>1, RateStays
  <2> QED
    BY <1>1, <2>2, <2>3
<1>8. SettledAcc(upto) \in Nat /\ acc <= SettledAcc(upto)
  <2>1. Accrued(D, cursor, r) = Amounts(D, r)
    BY <1>1, <1>4, AccruedAhead
  <2>2. /\ Amounts(D, r) \in Int /\ Flow(D, cursor, r) \in Int
        /\ Flow(D, cursor, r) <= Amounts(D, r)
    BY <1>1, <1>4, <1>5, AmountsFlow
  <2>3. rate * (r - cursor) + Flow(D, cursor, r) >= 0
    <3>1. Flows(points, cursor, rate) /\ cursor <= cursor
      BY <1>1 DEF StreamInv
    <3> QED
      BY <1>1, <1>3, <1>4, <3>1, Zenon DEF Flows
  <2>4. SettledAcc(upto) = acc + rate * (r - cursor) + Amounts(D, r)
    BY <2>1 DEF SettledAcc, D, r
  <2>5. rate * (r - cursor) \in Int
    BY <1>1, <1>4
  <2> QED
    BY <1>1, <2>2, <2>3, <2>4, <2>5
<1> QED
  BY <1>2, <1>6, <1>7, <1>8 DEF Forwards, D

\* Integrating to t at once or with a stop at the instant reached is the same.
LEMMA SettleExact ==
  ASSUME StreamInv, NEW upto \in Nat, cursor <= upto,
         SettleCreatorStream(upto), tranches' = tranches
  PROVE  Exact'
<1> SUFFICES ASSUME NEW t \in Nat, cursor' <= t PROVE ExactAt(t)'
  BY DEF Exact
<1> DEFINE D == Due(upto)
           r == Reached(upto)
           R == {p \in points : p.at <= t}
           Q == {p \in points \ D : p.at <= t}
<1>1. /\ cursor \in Nat /\ rate \in Nat /\ acc \in Nat /\ IsPoints(points)
      /\ \A p \in points : IsPoint(p) /\ cursor <= p.at
  BY DEF StreamInv, PointsInv, IsPoints
<1>2. Forwards(upto)
  BY SettlesForwards
<1>3. /\ D \in SUBSET points /\ r \in Nat /\ cursor <= r /\ \A p \in D : p.at <= r
      /\ \A p \in points \ D : r <= p.at
  BY <1>2 DEF Forwards, SettlesWell
<1>4. /\ rate' = rate + RateOf(D) /\ acc' = acc + rate * (r - cursor) + Accrued(D, cursor, r)
      /\ cursor' = r /\ points' = points \ D
  BY DEF SettleCreatorStream, SettledRate, SettledAcc
<1>5. R = D \cup Q /\ D \cap Q = {} /\ R \subseteq points /\ Q \subseteq points
  <2>1. \A p \in D : p.at <= t
    BY <1>1, <1>3, <1>4 DEF IsPoint
  <2> QED
    BY <1>3, <2>1
<1>6. IsPoints(D) /\ IsPoints(Q) /\ Apart(D, Q)
  BY <1>1, <1>3, <1>5, SomePoints DEF Apart
<1>7. ExactAt(t)
  <2>1. cursor <= t
    BY <1>1, <1>3, <1>4
  <2> QED
    BY <2>1 DEF StreamInv, Exact
<1>8. \A p \in Q : IsPoint(p) /\ r <= p.at
  BY <1>1, <1>3
<1>9. Accrued(R, cursor, t) = Amounts(R, t)
  <2>1. \A p \in R : IsPoint(p) /\ cursor <= p.at
    BY <1>1
  <2> HIDE DEF R
  <2> QED
    BY <1>1, <2>1, AccruedAhead
<1>10. ExactAt(t)' <=>
         acc' + rate' * (t - cursor') + Accrued(Q, r, t) = Streamed(t)
  BY <1>4 DEF ExactAt, Streamed
<1>11. acc + rate * (t - cursor) + Accrued(R, cursor, t) = Streamed(t)
  BY <1>7 DEF ExactAt
<1> HIDE DEF D, r, R, Q
<1>12. Accrued(Q, r, t) = Amounts(Q, t)
  BY <1>3, <1>8, AccruedAhead
<1>13. Accrued(D, cursor, r) = Amounts(D, r)
  BY <1>1, <1>3, AccruedAhead
<1>14. AmountsAdd(D, Q, t)
  BY <1>6, AmountParts, Zenon
<1>15. /\ RateOf(D) \in Int /\ Amounts(D, r) \in Int
       /\ Amounts(D, t) = Amounts(D, r) + (t - r) * RateOf(D)
  BY <1>3, <1>6, AmountsLater
<1> DEFINE k == RateOf(D)
           a == Amounts(D, r)
           b == Amounts(Q, t)
<1>16. k \in Int /\ a \in Int /\ b \in Int
  BY <1>14, <1>15 DEF AmountsAdd
<1>17. acc + rate * (t - cursor) + ((a + (t - r) * k) + b) = Streamed(t)
  BY <1>5, <1>9, <1>11, <1>14, <1>15 DEF AmountsAdd
<1> HIDE DEF k, a, b
<1>18. (acc + rate * (r - cursor) + a) + (rate + k) * (t - r) + b
         = acc + rate * (t - cursor) + ((a + (t - r) * k) + b)
  BY <1>1, <1>3, <1>16
<1>19. acc' + rate' * (t - cursor') + Accrued(Q, r, t) = Streamed(t)
  BY <1>4, <1>12, <1>13, <1>17, <1>18 DEF k, a, b
<1> QED
  BY <1>10, <1>19

\* A settlement keeps the accumulator's part of the invariant.
LEMMA SettleKeeps ==
  ASSUME StreamInv, NEW upto \in Nat, cursor <= upto,
         SettleCreatorStream(upto), tranches' = tranches
  PROVE  StreamInv'
<1> DEFINE D == Due(upto)
           r == Reached(upto)
<1>1. Forwards(upto)
  BY SettlesForwards
<1>2. /\ D \in SUBSET points /\ r \in Nat /\ cursor <= r /\ \A p \in D : p.at <= r
      /\ \A p \in points \ D : r <= p.at
      /\ SettledRate(upto) \in Nat /\ SettledAcc(upto) \in Nat
  BY <1>1 DEF Forwards, SettlesWell
<1>3. /\ rate' = SettledRate(upto) /\ rate' = rate + RateOf(D)
      /\ acc' = SettledAcc(upto) /\ cursor' = r /\ points' = points \ D
  BY DEF SettleCreatorStream, SettledRate
<1>4. PointsInv /\ IsPoints(points) /\ cursor \in Nat /\ rate \in Int
      /\ Flows(points, cursor, rate)
  BY DEF StreamInv, PointsInv, IsPoints
<1>5. Closed(D, points)
  BY <1>1, <1>4, DueClosed DEF Forwards
<1> HIDE DEF D, r
<1>6. Flows(points \ D, r, rate + RateOf(D))
  BY <1>2, <1>4, <1>5, FlowsSettle
<1>7. Flows(points, cursor, rate)'
  BY <1>3, <1>6
<1>8. PointsInv'
  <2>1. IsFiniteSet(points \ D)
    BY <1>4, FS_Subset DEF PointsInv
  <2>2. \A p \in points \ D : r <= p.at
    BY <1>2
  <2> QED
    BY <1>3, <1>4, <2>1, <2>2 DEF PointsInv
<1> QED
  BY <1>2, <1>3, <1>7, <1>8, SettleExact DEF StreamInv

-----------------------------------------------------------------------------
(* What a new tranche keeps.                                               *)

\* The breakpoints of a tranche.
LEMMA TrancheRate ==
  ASSUME NEW share \in Nat \ {0}, NEW length \in Durations
  PROVE  /\ Scale \in Nat \ {0} /\ length \in Nat \ {0} /\ share * Scale \in Nat
         /\ (share * Scale) \div length \in Nat \ {0}
         /\ ((share * Scale) \div length) * length <= share * Scale
<1>1. Scale \in Nat \ {0} /\ length \in Nat \ {0} /\ length <= Scale
  BY StreamAssumption
<1>2. share * Scale \in Nat /\ Scale <= share * Scale
  <2>1. 1 * Scale <= share * Scale
    BY <1>1, TimesMonotone
  <2> QED
    BY <1>1, <2>1
<1>3. 1 * length <= share * Scale /\ 1 * length \in Nat
  BY <1>1, <1>2
<1>4. /\ (share * Scale) \div length \in Nat
      /\ ((share * Scale) \div length) * length <= share * Scale
      /\ 1 <= (share * Scale) \div length
  BY <1>1, <1>2, <1>3, Quotient
<1> QED
  BY <1>1, <1>2, <1>4

\* The breakpoints s and e of the tranche tr, which is paid at rate k.
IsBooking(share, length, start, id, k, s, e, tr) ==
    /\ k = (share * Scale) \div length
    /\ s = [at |-> start, key |-> 2 * id, rate |-> k, acc |-> 0]
    /\ e = [at |-> start + length, key |-> 2 * id + 1, rate |-> -k,
            acc |-> share * Scale - k * length]
    /\ tr = [id |-> id, share |-> share, start |-> start, end |-> start + length]

\* What a tranche produces is what its breakpoints accrue.
LEMMA BreakpointsProduce ==
  ASSUME NEW share \in Nat \ {0}, NEW length \in Durations, NEW start \in Nat,
         NEW id \in Nat, NEW t \in Nat, NEW k, NEW s, NEW e, NEW tr,
         IsBooking(share, length, start, id, k, s, e, tr)
  PROVE  /\ IsPoint(s) /\ IsPoint(e) /\ Paired(s, e) /\ s # e
         /\ s.at < e.at /\ s.rate >= 0 /\ e.rate = -s.rate
         /\ Produced(tr, t) =
              IF t >= e.at THEN Amount(s, t) + Amount(e, t)
              ELSE IF t >= s.at THEN Amount(s, t) ELSE 0
<1> USE DEF IsBooking
<1>1. /\ length \in Nat \ {0} /\ share * Scale \in Nat /\ k \in Nat \ {0}
      /\ k * length \in Nat /\ k * length <= share * Scale
  BY TrancheRate
<1> DEFINE m == share * Scale
           kl == k * length
<1>2. m \in Nat /\ kl \in Nat /\ kl <= m /\ e.acc = m - kl
  BY <1>1
<1> HIDE DEF m, kl
<1>3. IsPoint(s) /\ IsPoint(e)
  BY <1>1, <1>2 DEF IsPoint
<1>4. Paired(s, e) /\ s # e
  BY DEF Paired
<1>5. s.at < e.at /\ s.rate >= 0 /\ e.rate = -s.rate
  BY <1>1
<1>6. Produced(tr, t) = IF t >= start + length THEN m
                        ELSE IF t > start THEN k * (t - start) ELSE 0
  <2>1. tr.end - tr.start = length /\ tr.share * Scale = m
    BY <1>1 DEF m
  <2> QED
    BY <2>1 DEF Produced, m
<1>7. Amount(s, t) = k * (t - start) /\ Amount(e, t) = (m - kl) + (-k) * (t - (start + length))
  BY <1>1, <1>2 DEF Amount
<1>8. k * (t - start) + ((m - kl) + (-k) * (t - (start + length))) = m
  BY <1>1, <1>2 DEF kl
<1>9. t = start => k * (t - start) = 0
  BY <1>1
<1> QED
  BY <1>1, <1>3, <1>4, <1>5, <1>6, <1>7, <1>8, <1>9

\* No breakpoint adds nothing, one its own amount.
LEMMA AmountFew ==
  ASSUME NEW t \in Nat
  PROVE  /\ Amounts({}, t) = 0
         /\ \A p : IsPoint(p) => Amount(p, t) \in Int /\ Amounts({p}, t) = Amount(p, t)
<1>1. Amounts({}, t) = 0
  BY SumEmpty DEF Amounts, SumFunction
<1>2. ASSUME NEW p, IsPoint(p)
      PROVE  Amount(p, t) \in Int /\ Amounts({p}, t) = Amount(p, t)
  <2> DEFINE f == [q \in {p} |-> Amount(q, t)]
  <2>1. f[p] = Amount(p, t) /\ DOMAIN f = {p} /\ f[p] \in Int
    BY <1>2 DEF IsPoint, Amount
  <2> HIDE DEF f
  <2>2. SumFunctionOnSet(f, {} \cup {p}) = f[p] + SumFunctionOnSet(f, {})
    BY <2>1, SumInsert, FS_EmptySet
  <2>3. SumFunction(f) = f[p]
    BY <2>1, <2>2, SumEmpty DEF SumFunction
  <2> QED
    BY <2>1, <2>3, Zenon DEF f, Amounts
<1> QED
  BY <1>1, <1>2, Zenon

\* What a tranche has produced is a number.
LEMMA ProducedType ==
  ASSUME NEW tr, IsTranche(tr), NEW t \in Nat
  PROVE  Produced(tr, t) \in Nat /\ (t <= tr.start => Produced(tr, t) = 0)
<1> DEFINE m == tr.share * Scale
           k == m \div (tr.end - tr.start)
<1>1. /\ m \in Nat /\ tr.end - tr.start \in Nat \ {0} /\ tr.start \in Nat /\ tr.end \in Nat
      /\ tr.start < tr.end
  BY StreamAssumption DEF IsTranche
<1>2. Produced(tr, t) = IF t >= tr.end THEN m
                        ELSE IF t > tr.start THEN k * (t - tr.start) ELSE 0
  BY DEF Produced
<1> HIDE DEF m
<1>3. k \in Nat
  BY <1>1, Quotient
<1> HIDE DEF k
<1>4. t > tr.start => k * (t - tr.start) \in Nat
  BY <1>1, <1>3
<1> QED
  BY <1>1, <1>2, <1>4

\* The tranche that is booked.
Booked(share, start, length) ==
    [id |-> Cardinality(tranches) + 1, share |-> share, start |-> start, end |-> start + length]

OneMore(new) ==
    /\ IsFiniteSet(tranches') /\ Cardinality(tranches) \in Nat
    /\ Cardinality(tranches') = Cardinality(tranches) + 1
    /\ \A tr \in tranches' : IsTranche(tr) /\ tr.id \in 1..Cardinality(tranches')
    /\ \A t \in Nat : Streamed(t) \in Nat /\ Streamed(t)' = Produced(new, t) + Streamed(t)

\* A new tranche is one more to count and to sum.
LEMMA StreamedBook ==
  ASSUME PointsInv, NEW share \in Nat, NEW start \in Nat, NEW length \in Durations,
         tranches' = tranches \cup {Booked(share, start, length)}
  PROVE  OneMore(Booked(share, start, length))
<1> DEFINE new == Booked(share, start, length)
           n == Cardinality(tranches)
<1>1. /\ IsFiniteSet(tranches) /\ n \in Nat
      /\ \A tr \in tranches : IsTranche(tr) /\ tr.id \in 1..n
  BY FS_CardinalityType DEF PointsInv
<1>2. IsTranche(new) /\ new.id = n + 1
  BY <1>1, StreamAssumption DEF Booked, IsTranche
<1>3. new \notin tranches
  BY <1>1, <1>2
<1> HIDE DEF new
<1>4. IsFiniteSet(tranches') /\ Cardinality(tranches') = n + 1
  BY <1>1, <1>3, FS_AddElement DEF new
<1> HIDE DEF n
<1>5. \A tr \in tranches' : IsTranche(tr) /\ tr.id \in 1..Cardinality(tranches')
  <2>1. \A tr \in tranches' : tr \in tranches \/ tr = new
    BY DEF new
  <2> QED
    BY <1>1, <1>2, <1>4, <2>1
<1>6. ASSUME NEW t \in Nat
      PROVE  Streamed(t) \in Nat /\ Streamed(t)' = Produced(new, t) + Streamed(t)
  <2> DEFINE f == [tr \in tranches |-> Produced(tr, t)]
             g == [tr \in tranches' |-> Produced(tr, t)]
  <2>1. \A tr \in tranches' : Produced(tr, t) \in Nat
    BY <1>5, ProducedType
  <2>2. tranches' = tranches \cup {new}
    BY DEF new
  <2>3. /\ DOMAIN f = tranches /\ DOMAIN g = tranches \cup {new}
        /\ \A tr \in tranches : f[tr] \in Nat /\ f[tr] \in Int /\ g[tr] = f[tr]
        /\ g[new] = Produced(new, t) /\ \A tr \in tranches \cup {new} : g[tr] \in Int
    BY <2>1, <2>2
  <2>4. Streamed(t) = SumFunction(f) /\ Streamed(t)' = SumFunction(g)
    BY DEF Streamed
  <2> HIDE DEF f, g
  <2>5. SumFunctionOnSet(g, tranches \cup {new}) = g[new] + SumFunctionOnSet(g, tranches)
    BY <1>1, <1>3, <2>3, SumInsert
  <2>6. SumFunctionOnSet(g, tranches) = SumFunctionOnSet(f, tranches)
    BY <1>1, <2>3, SumSame
  <2>7. SumFunctionOnSet(f, tranches) \in Nat
    BY <1>1, <2>3, SumNatural
  <2> QED
    BY <2>3, <2>4, <2>5, <2>6, <2>7 DEF SumFunction
<1> QED
  BY <1>1, <1>4, <1>5, <1>6, Zenon DEF new, n, OneMore

\* The breakpoints that are pending once a tranche with a share is booked.
LEMMA BookPoints ==
  ASSUME StreamInv, NEW share \in Nat \ {0}, NEW start \in Nat, cursor <= start,
         NEW length \in Durations, ScheduleCreatorStreamTranche(share, start, length)
  PROVE  StreamInv'
<1> DEFINE id == Cardinality(tranches) + 1
           k == (share * Scale) \div length
           s == [at |-> start, key |-> 2 * id, rate |-> k, acc |-> 0]
           e == [at |-> start + length, key |-> 2 * id + 1, rate |-> -k,
                 acc |-> share * Scale - k * length]
           tr == Booked(share, start, length)
<1>1. /\ cursor \in Nat /\ rate \in Nat /\ acc \in Nat /\ PointsInv
      /\ Flows(points, cursor, rate) /\ Exact /\ IsPoints(points)
  BY DEF StreamInv, PointsInv, IsPoints
<1>2. /\ tranches' = tranches \cup {tr} /\ points' = points \cup {s, e}
      /\ cursor' = cursor /\ rate' = rate /\ acc' = acc
  <2>1. (start + length) - start = length
    BY StreamAssumption
  <2> QED
    BY <2>1 DEF ScheduleCreatorStreamTranche, Breakpoints, Booked
<1>3. /\ IsFiniteSet(tranches') /\ Cardinality(tranches) \in Nat
      /\ Cardinality(tranches') = Cardinality(tranches) + 1
      /\ \A x \in tranches' : IsTranche(x) /\ x.id \in 1..Cardinality(tranches')
      /\ \A t \in Nat : Streamed(t) \in Nat /\ Streamed(t)' = Produced(tr, t) + Streamed(t)
  <2>1. share \in Nat
    OBVIOUS
  <2>2. OneMore(tr)
    BY <1>1, <1>2, <2>1, StreamedBook, Zenon
  <2> QED
    BY <2>2, Zenon DEF OneMore
<1>4. id \in Nat
  BY <1>3
<1>5. /\ tr = [id |-> id, share |-> share, start |-> start, end |-> start + length]
      /\ s.key = 2 * id /\ e.key = 2 * id + 1 /\ s.at = start /\ cursor <= e.at
  BY <1>1, StreamAssumption DEF Booked
<1>b. IsBooking(share, length, start, id, k, s, e, tr)
  BY Zenon DEF IsBooking, Booked
<1> HIDE DEF id, k, s, e, tr
<1>6. ASSUME NEW t \in Nat
      PROVE  /\ IsPoint(s) /\ IsPoint(e) /\ Paired(s, e) /\ s # e
             /\ s.at < e.at /\ s.rate >= 0 /\ e.rate = -s.rate
             /\ Produced(tr, t) =
                  IF t >= e.at THEN Amount(s, t) + Amount(e, t)
                  ELSE IF t >= s.at THEN Amount(s, t) ELSE 0
  BY <1>4, <1>6, <1>b, BreakpointsProduce, Zenon
<1>7. /\ IsPoint(s) /\ IsPoint(e) /\ Paired(s, e) /\ s # e
      /\ s.at < e.at /\ s.rate >= 0 /\ e.rate = -s.rate
  BY <1>6
<1>8. \A p \in points : IsPoint(p) /\ cursor <= p.at /\ p.key < 2 * id
  BY <1>1, <1>3 DEF PointsInv, IsPoint, id
<1>9. s \notin points /\ e \notin points
  BY <1>4, <1>5, <1>8
<1>10. Books(points, s, e)
  BY <1>7, <1>9, Zenon DEF Books
<1>11. IsPoints(points') /\ Flows(points, cursor, rate)'
  BY <1>1, <1>2, <1>10, FlowsBook
<1>12. PointsInv'
  <2>1. \A p \in points' : IsPoint(p) /\ cursor' <= p.at
                           /\ p.key <= 2 * Cardinality(tranches') + 1
    <3>1. id \in Nat /\ Cardinality(tranches') = id
      BY <1>3, <1>4 DEF id
    <3>2. ASSUME NEW p \in points PROVE p.key <= 2 * id + 1
      BY <1>4, <1>8 DEF IsPoint
    <3>3. s.key <= 2 * id + 1 /\ e.key <= 2 * id + 1 /\ cursor <= s.at
      BY <1>4, <1>5, <1>1
    <3> QED
      BY <1>2, <1>5, <1>7, <1>8, <3>1, <3>2, <3>3
  <2>2. \A p, q \in points' : p.key = q.key => p = q
    BY <1>1, <1>2, <1>4, <1>5, <1>8 DEF PointsInv, IsPoint
  <2>3. ASSUME NEW p \in points', NEW q \in points', Paired(p, q) PROVE p.at < q.at
    <3>1. PICK i \in Nat : p.key = 2 * i /\ q.key = 2 * i + 1
      BY <2>3 DEF Paired
    <3>2. CASE p \in points /\ q \in points
      BY <1>1, <2>3, <3>2 DEF PointsInv
    <3>3. CASE p \in points /\ q \notin points
      BY <1>2, <1>4, <1>5, <1>8, <3>1, <3>3 DEF IsPoint
    <3>4. CASE p \notin points
      <4>1. p = s \/ p = e
        BY <1>2, <3>4
      <4>2. p = s /\ i = id
        BY <1>4, <1>5, <3>1, <4>1
      <4>3. q = e
        BY <1>2, <1>4, <1>5, <1>8, <3>1, <4>2 DEF IsPoint
      <4> QED
        BY <1>7, <4>2, <4>3
    <3> QED
      BY <3>2, <3>3, <3>4
  <2> QED
    BY <1>3, <1>11, <2>1, <2>2, <2>3 DEF PointsInv, IsPoints
<1>13. ASSUME NEW t \in Nat, cursor' <= t PROVE ExactAt(t)'
  <2> DEFINE R == {p \in points : p.at <= t}
             N == {p \in {s, e} : p.at <= t}
  <2>1. acc + rate * (t - cursor) + Accrued(R, cursor, t) = Streamed(t)
    BY <1>1, <1>2, <1>13 DEF Exact, ExactAt
  <2>2. {p \in points' : p.at <= t} = R \cup N /\ R \cap N = {}
    BY <1>2, <1>9
  <2>3. ExactAt(t)' <=> acc + rate * (t - cursor) + Accrued(R \cup N, cursor, t) = Streamed(t)'
    BY <1>2, <2>2, Zenon DEF ExactAt
  <2>4. \A p \in R \cup N : IsPoint(p) /\ cursor <= p.at
    BY <1>1, <1>5, <1>7, <1>8
  <2>5. /\ N = IF t >= e.at THEN {s} \cup {e} ELSE IF t >= s.at THEN {s} ELSE {}
    BY <1>7 DEF IsPoint
  <2>6. IsPoints(R) /\ IsPoints(N)
    <3>1. IsPoints(R)
      BY <1>1, SomePoints
    <3>2. N \subseteq points'
      BY <1>2
    <3> HIDE DEF R, N
    <3>3. IsPoints(N)
      BY <1>11, <3>2, SomePoints
    <3> QED
      BY <3>1, <3>3
  <2> HIDE DEF R, N
  <2>7. Accrued(R \cup N, cursor, t) = Amounts(R \cup N, t) /\ Accrued(R, cursor, t) = Amounts(R, t)
    BY <1>1, <2>4, AccruedAhead
  <2>8. AmountsAdd(R, N, t)
    BY <2>2, <2>6, AmountParts, Zenon DEF Apart
  <2>9. Amounts(N, t) = Produced(tr, t)
    <3>1. /\ Amounts({}, t) = 0
          /\ Amount(s, t) \in Int /\ Amounts({s}, t) = Amount(s, t)
          /\ Amount(e, t) \in Int /\ Amounts({e}, t) = Amount(e, t)
      BY <1>7, AmountFew
    <3>2. AmountsAdd({s}, {e}, t)
      <4>1. IsPoints({s}) /\ IsPoints({e})
        BY <1>7, FS_Singleton, Zenon DEF IsPoints
      <4>2. Apart({s}, {e})
        BY <1>7, <4>1 DEF Apart
      <4> QED
        BY <4>2, AmountParts, Zenon
    <3>3. Amounts({s} \cup {e}, t) = Amount(s, t) + Amount(e, t)
      BY <3>1, <3>2 DEF AmountsAdd
    <3>4. Produced(tr, t) =
                  IF t >= e.at THEN Amount(s, t) + Amount(e, t)
                  ELSE IF t >= s.at THEN Amount(s, t) ELSE 0
      BY <1>6
    <3> QED
      BY <2>5, <3>1, <3>3, <3>4, Zenon
  <2>10. Amounts(R, t) \in Int /\ Amounts(N, t) \in Int
         /\ Amounts(R \cup N, t) = Amounts(R, t) + Amounts(N, t)
    BY <2>8 DEF AmountsAdd
  <2>11. Streamed(t)' = Amounts(N, t) + Streamed(t) /\ Streamed(t) \in Nat
    BY <1>3, <2>9
  <2>12. rate * (t - cursor) \in Int
    BY <1>1
  <2> QED
    BY <1>1, <2>1, <2>3, <2>7, <2>10, <2>11, <2>12
<1> QED
  BY <1>1, <1>2, <1>11, <1>12, <1>13 DEF StreamInv, Exact

\* A booking keeps the accumulator's part of the invariant.
LEMMA BookKeeps ==
  ASSUME StreamInv, NEW share \in Nat, NEW start \in Nat, cursor <= start,
         NEW length \in Durations, ScheduleCreatorStreamTranche(share, start, length)
  PROVE  /\ StreamInv' /\ OneMore(Booked(share, start, length))
         /\ \A t \in Nat : t <= start => Produced(Booked(share, start, length), t) = 0
         /\ \A p \in points' \ points : p.acc > 0 => p.at > start
<1> DEFINE tr == Booked(share, start, length)
<1>1. PointsInv /\ tranches' = tranches \cup {tr}
  BY DEF StreamInv, ScheduleCreatorStreamTranche, Booked
<1>2. OneMore(tr)
  BY <1>1, StreamedBook, Zenon
<1>3. /\ IsTranche(tr) /\ tr.start = start /\ tr.share = share
      /\ length \in Nat \ {0}
  BY StreamAssumption DEF Booked, IsTranche
<1> HIDE DEF tr
<1>4. \A t \in Nat : t <= start => Produced(tr, t) = 0
  BY <1>3, ProducedType
<1>5. \A p \in points' \ points : p.acc > 0 => p.at > start
  <2>1. share # 0 => points' = points \cup Breakpoints(Cardinality(tranches) + 1, share, start, start + length)
    BY DEF ScheduleCreatorStreamTranche
  <2>2. share = 0 => points' = points
    BY DEF ScheduleCreatorStreamTranche
  <2> QED
    BY <1>3, <2>1, <2>2 DEF Breakpoints
<1>6. CASE share # 0
  BY <1>2, <1>4, <1>5, <1>6, BookPoints DEF tr
<1>7. CASE share = 0
  <2>1. points' = points /\ cursor' = cursor /\ rate' = rate /\ acc' = acc
    BY <1>7 DEF ScheduleCreatorStreamTranche
  <2>2. \A t \in Nat : Produced(tr, t) = 0
    <3> SUFFICES ASSUME NEW t \in Nat PROVE Produced(tr, t) = 0
      OBVIOUS
    <3>1. tr.share * Scale = 0 /\ tr.end - tr.start \in Nat \ {0} /\ tr.start \in Nat
      BY <1>3, <1>7, StreamAssumption DEF IsTranche
    <3>2. 0 \div (tr.end - tr.start) = 0
      BY <3>1
    <3>3. 0 * (t - tr.start) = 0
      BY <3>1
    <3> QED
      BY <3>1, <3>2, <3>3 DEF Produced
  <2>3. \A t \in Nat : Streamed(t)' = Streamed(t)
    BY <1>2, <2>2 DEF OneMore
  <2>4. Exact'
    <3> SUFFICES ASSUME NEW t \in Nat, cursor' <= t PROVE ExactAt(t)'
      BY DEF Exact
    <3>1. ExactAt(t)
      BY <2>1 DEF StreamInv, Exact
    <3>2. ExactAt(t)' <=>
            acc + rate * (t - cursor) + Accrued({p \in points : p.at <= t}, cursor, t) = Streamed(t)'
      BY <2>1 DEF ExactAt
    <3> QED
      BY <2>3, <3>1, <3>2 DEF ExactAt
  <2>5. PointsInv'
    <3>1. \A p \in points : p.key <= 2 * Cardinality(tranches') + 1
      BY <1>1, <1>2 DEF OneMore, PointsInv, IsPoint
    <3> QED
      BY <1>1, <1>2, <2>1, <3>1, Zenon DEF OneMore, PointsInv
  <2>6. StreamInv'
    BY <2>1, <2>4, <2>5 DEF StreamInv
  <2> QED
    BY <1>2, <1>4, <1>5, <2>6 DEF tr
<1> QED
  BY <1>6, <1>7

\* Where no breakpoint is due that adds to it, the accumulator stands still.
LEMMA NothingAccrues ==
  ASSUME NEW ps, IsPoints(ps), NEW c \in Nat, NEW t \in Nat, c <= t,
         \A p \in ps : t <= p.at /\ (p.acc > 0 => t < p.at)
  PROVE  Accrued({p \in ps : p.at <= t}, c, t) = 0
<1> DEFINE R == {p \in ps : p.at <= t}
           f == [p \in R |-> Amount(p, t)]
<1>1. \A p \in R : IsPoint(p) /\ c <= p.at /\ f[p] = 0
  BY DEF IsPoints, IsPoint, Amount
<1>2. IsPoints(R) /\ DOMAIN f = R /\ Amounts(R, t) = SumFunction(f)
  BY SomePoints DEF Amounts
<1> HIDE DEF R, f
<1>3. Accrued(R, c, t) = Amounts(R, t)
  BY <1>1, AccruedAhead
<1>4. SumFunctionOnSet(f, R) = 0
  BY <1>1, <1>2, SumZero DEF IsPoints
<1> QED
  BY <1>2, <1>3, <1>4 DEF SumFunction, R

-----------------------------------------------------------------------------
(* The grid of epochs.                                                     *)

OnGrid(e) ==
    /\ EpochStart(e) \in Nat /\ EpochEnd(e) \in Nat /\ sched.unix <= EpochStart(e)
    /\ EpochStart(e) < EpochEnd(e) /\ EpochEnd(e) = EpochStart(e + 1)
    /\ \A f \in Nat : e < f => EpochEnd(e) <= EpochStart(f)
    /\ \A t \in Nat : sched.unix <= t =>
          /\ EpochAt(t) \in Nat /\ sched.epoch <= EpochAt(t)
          /\ e <= EpochAt(t) <=> EpochStart(e) <= t

\* Epochs follow each other, and an instant is in the epoch EpochAt says.
LEMMA Grid ==
  ASSUME TypeOK, NEW e \in Nat, sched.epoch <= e
  PROVE  OnGrid(e)
<1> DEFINE d == sched.secs
           z == sched.epoch
           u == sched.unix
<1>1. d \in Nat \ {0} /\ z \in Nat /\ u \in Nat
  <2>1. sched \in [epoch : Nat, unix : 0..now, secs : EpochLengths] /\ now \in 0..MaxTime
    BY DEF TypeOK
  <2>2. sched.epoch \in Nat /\ sched.unix \in 0..now /\ sched.secs \in EpochLengths
    BY <2>1
  <2>3. EpochLengths \subseteq Nat \ {0} /\ now \in Nat
    BY <2>1, StreamAssumption
  <2>4. sched.unix \in Nat
    BY <2>2, <2>3
  <2>5. sched.secs \in Nat \ {0}
    BY <2>2, <2>3, Zenon
  <2> QED
    BY <2>2, <2>4, <2>5, Zenon
<1>2. /\ EpochStart(e) = u + (e - z) * d
      /\ \A f : EpochStart(f) = u + (f - z) * d
      /\ EpochEnd(e) = EpochStart(e + 1)
      /\ \A t : EpochAt(t) = z + (t - u) \div d
  BY DEF EpochStart, EpochEnd, EpochAt
<1>3. z <= e
  OBVIOUS
<1> HIDE DEF d, z, u
<1>4. (e - z) * d \in Nat /\ ((e + 1) - z) * d = (e - z) * d + d
  BY <1>1, <1>3
<1>5. EpochStart(e) \in Nat /\ u <= EpochStart(e) /\ EpochEnd(e) = EpochStart(e) + d
  BY <1>1, <1>2, <1>4
<1>6. ASSUME NEW f \in Nat, e < f PROVE EpochEnd(e) <= EpochStart(f)
  <2>1. ((e + 1) - z) * d <= (f - z) * d
    BY <1>1, <1>6, TimesMonotone
  <2>2. (f - z) * d \in Int
    BY <1>1
  <2> QED
    BY <1>1, <1>2, <1>4, <2>1, <2>2
<1>7. ASSUME NEW t \in Nat, u <= t
      PROVE  /\ EpochAt(t) \in Nat /\ z <= EpochAt(t)
             /\ e <= EpochAt(t) <=> EpochStart(e) <= t
  <2> DEFINE q == (t - u) \div d
  <2>1. t - u \in Nat
    BY <1>1, <1>7
  <2>2. q \in Nat /\ q * d <= t - u /\ \A n \in Int : n * d <= t - u => n <= q
    BY <1>1, <2>1, Quotient
  <2>3. EpochAt(t) = z + q
    BY <1>2
  <2> HIDE DEF q
  <2>4. EpochStart(e) <= t <=> (e - z) * d <= t - u
    BY <1>1, <1>2, <1>4
  <2>5. (e - z) * d <= t - u => e - z <= q
    BY <1>1, <2>2
  <2>6. e - z <= q => (e - z) * d <= q * d
    BY <1>1, <2>2, TimesMonotone
  <2>7. e - z <= q => (e - z) * d <= t - u
    BY <1>1, <1>4, <2>1, <2>2, <2>6
  <2> QED
    BY <1>1, <2>2, <2>3, <2>4, <2>5, <2>7
<1>8. EpochEnd(e) \in Nat /\ EpochStart(e) < EpochEnd(e)
  BY <1>1, <1>5
<1> QED
  BY <1>2, <1>5, <1>6, <1>7, <1>8, Zenon DEF OnGrid, u, z

\* The places of the clock's epoch.
ClockOnGrid ==
    /\ OnGrid(clock) /\ OnGrid(clock + 1) /\ clock \in Nat
    /\ EpochStart(clock) <= now /\ EpochStart(clock) \in Nat /\ EpochEnd(clock) \in Nat
    /\ EpochAt(now) \in Nat /\ now \in Nat
    /\ EpochEnd(clock) <= now <=> clock < EpochAt(now)

\* The clock's epoch has begun.
LEMMA ClockGrid ==
  ASSUME TypeOK, ClockInv
  PROVE  ClockOnGrid
<1>1. /\ clock \in Nat /\ clock + 1 \in Nat /\ sched.epoch \in Nat /\ now \in Nat
      /\ sched.epoch <= clock /\ sched.epoch <= clock + 1 /\ sched.unix <= now
      /\ clock <= EpochAt(now)
  BY DEF TypeOK, ClockInv
<1>2. OnGrid(clock) /\ OnGrid(clock + 1)
  BY <1>1, Grid
<1>3. /\ EpochStart(clock) \in Nat /\ EpochEnd(clock) \in Nat
      /\ EpochEnd(clock) = EpochStart(clock + 1)
      /\ EpochAt(now) \in Nat /\ (clock <= EpochAt(now) <=> EpochStart(clock) <= now)
  BY <1>1, <1>2 DEF OnGrid
<1>4. clock + 1 <= EpochAt(now) <=> EpochStart(clock + 1) <= now
  BY <1>1, <1>2 DEF OnGrid
<1> QED
  BY <1>1, <1>2, <1>3, <1>4 DEF ClockOnGrid

-----------------------------------------------------------------------------
(* Draws.                                                                  *)

\* What the paid total and the accumulator are after a settlement.
LEMMA EarnedGrows ==
  ASSUME StreamInv, paid \in Nat, paid * Scale <= acc, NEW upto \in Nat, cursor <= upto
  PROVE  Earned(upto) \in Nat /\ paid <= Earned(upto) /\ Earned(upto) * Scale <= SettledAcc(upto)
<1> DEFINE a == SettledAcc(upto)
<1>1. a \in Nat /\ acc <= a
  BY SettlesForwards DEF Forwards
<1>2. acc \in Nat /\ Scale \in Nat \ {0} /\ paid * Scale \in Nat
  BY StreamAssumption DEF StreamInv
<1>3. Earned(upto) = a \div Scale
  BY DEF Earned
<1> HIDE DEF a
<1>4. paid * Scale <= a /\ paid \in Int
  BY <1>1, <1>2
<1> QED
  BY <1>1, <1>2, <1>3, <1>4, Quotient DEF a

\* A draw never fails.
LEMMA DrawSucceeds ==
  ASSUME StreamInv, paid \in Nat, paid * Scale <= acc, NEW upto \in Nat, cursor <= upto
  PROVE  ~DrawFails(upto)
<1>1. \A p \in Due(upto) : ~(RateAt(p, Due(upto)) < 0)
  BY SettlesForwards DEF Forwards
<1>2. Earned(upto) \in Nat /\ paid <= Earned(upto)
  BY EarnedGrows
<1>3. ~(Earned(upto) < paid) /\ ~(upto < cursor)
  BY <1>2 DEF StreamInv
<1> QED
  BY <1>1, <1>3 DEF DrawFails

\* What a complete draw up to an instant leaves.
Drawn(upto) ==
    /\ StreamInv' /\ cursor' = upto
    /\ Earned(upto) \in Nat /\ paid <= Earned(upto)
    /\ paid' = Earned(upto) /\ paid' * Scale <= acc' /\ paid' = acc' \div Scale
    /\ starved' = (starved \/ Exhausted(upto))
    /\ ~starved' => /\ acc' = Streamed(upto)
                    /\ \A p \in points' : p.acc > 0 => p.at > upto

\* A draw from the start of the clock's epoch on takes what was streamed.
LEMMA DrawKeeps ==
  ASSUME StreamInv, paid \in Nat, paid * Scale <= acc, FedInv,
         EpochStart(clock) \in Nat, NEW upto \in Nat, cursor <= upto, EpochStart(clock) <= upto,
         DrawCreatorStream(upto), tranches' = tranches
  PROVE  Drawn(upto)
<1>1. /\ Reached(upto) = upto /\ SettleCreatorStream(upto) /\ paid' = Earned(upto)
      /\ acc' = SettledAcc(upto) /\ cursor' = upto /\ points' = points \ Due(upto)
      /\ starved' = (starved \/ Exhausted(upto))
  BY DEF DrawCreatorStream, SettleCreatorStream
<1>2. StreamInv'
  BY <1>1, SettleKeeps
<1>3. Earned(upto) \in Nat /\ paid <= Earned(upto) /\ Earned(upto) * Scale <= SettledAcc(upto)
  BY EarnedGrows
<1>4. paid' * Scale <= acc' /\ paid' = acc' \div Scale
  BY <1>1, <1>3 DEF Earned
<1>5. ASSUME ~starved' PROVE acc' = Streamed(upto) /\ \A p \in points' : p.acc > 0 => p.at > upto
  <2>1. ~starved /\ ~Exhausted(upto)
    BY <1>1, <1>5, Zenon
  <2>2. cursor <= EpochStart(clock) /\ \A p \in points : p.acc > 0 => p.at > EpochStart(clock)
    BY <2>1 DEF FedInv
  <2>3. upto = cursor \/ \A p \in points \ Due(upto) : upto < p.at
    BY <2>1, SettlesForwards DEF Forwards, SettlesWell
  <2>4. \A p \in points' : p.acc > 0 => p.at > upto
    <3>1. CASE upto = cursor
      <4>1. upto = EpochStart(clock)
        BY <2>2, <3>1 DEF StreamInv
      <4> QED
        BY <1>1, <2>2, <4>1
    <3>2. CASE \A p \in points \ Due(upto) : upto < p.at
      BY <1>1, <1>2, <3>2 DEF StreamInv, PointsInv, IsPoint
    <3> QED
      BY <2>3, <3>1, <3>2
  <2>5. IsPoints(points') /\ \A p \in points' : upto <= p.at /\ (p.acc > 0 => upto < p.at)
    <3>1. /\ IsFiniteSet(points') /\ \A p \in points' : IsPoint(p) /\ cursor' <= p.at
      BY <1>2 DEF StreamInv, PointsInv
    <3> QED
      BY <1>1, <2>4, <3>1 DEF IsPoints, IsPoint
  <2>6. Accrued({p \in points' : p.at <= upto}, upto, upto) = 0
    BY <2>5, NothingAccrues
  <2>7. ExactAt(upto)'
    BY <1>1, <1>2 DEF StreamInv, Exact
  <2>8. acc' + rate' * (upto - upto) + Accrued({p \in points' : p.at <= upto}, upto, upto)
          = Streamed(upto)
    BY <1>1, <2>7 DEF ExactAt, Streamed
  <2>9. acc' \in Nat /\ rate' \in Nat
    BY <1>2 DEF StreamInv
  <2> QED
    BY <2>4, <2>6, <2>8, <2>9
<1> QED
  BY <1>1, <1>2, <1>3, <1>4, <1>5 DEF Drawn

\* In d epoch c, which had none in b, has received x.
Receives(b, d, c, x) ==
    /\ x \in Nat /\ IsFiniteSet(DOMAIN b)
    /\ DOMAIN d = DOMAIN b \cup {c} /\ d[c].pool = x
    /\ c \in DOMAIN b => b[c].pool = 0
    /\ \A e \in DOMAIN b : b[e].pool \in Nat /\ (e # c => d[e].pool = b[e].pool)

\* The pools grow by what one of them receives.
LEMMA PoolsGrow ==
  \A b, d, c, x : Receives(b, d, c, x) =>
      IsFiniteSet(DOMAIN d) /\ Pools(d) = Pools(b) + x
<1> SUFFICES ASSUME NEW b, NEW d, NEW c, NEW x, Receives(b, d, c, x)
             PROVE  IsFiniteSet(DOMAIN d) /\ Pools(d) = Pools(b) + x
  BY Zenon
<1>0. /\ x \in Nat /\ IsFiniteSet(DOMAIN b)
      /\ DOMAIN d = DOMAIN b \cup {c} /\ d[c].pool = x
      /\ c \in DOMAIN b => b[c].pool = 0
      /\ \A e \in DOMAIN b : b[e].pool \in Nat /\ (e # c => d[e].pool = b[e].pool)
  BY Zenon DEF Receives
<1> DEFINE S == DOMAIN b \ {c}
           f == [e \in DOMAIN b |-> b[e].pool]
           g == [e \in DOMAIN d |-> d[e].pool]
<1>1. IsFiniteSet(S) /\ S \cup {c} = DOMAIN d /\ c \notin S
  BY <1>0, FS_Subset
<1>2. IsFiniteSet(DOMAIN d)
  BY <1>1, FS_AddElement
<1>3. /\ \A e \in S : f[e] \in Int /\ f[e] \in Nat /\ g[e] = f[e]
      /\ g[c] = x /\ DOMAIN g = S \cup {c} /\ \A e \in S \cup {c} : g[e] \in Int
  BY <1>0, <1>1
<1>4. /\ c \in DOMAIN b => DOMAIN f = S \cup {c} /\ f[c] = 0
      /\ c \notin DOMAIN b => DOMAIN f = S
  BY <1>0, Zenon
<1> HIDE DEF S, f, g
<1>5. SumFunctionOnSet(g, S \cup {c}) = g[c] + SumFunctionOnSet(g, S)
  BY <1>1, <1>3, SumInsert
<1>6. SumFunctionOnSet(g, S) = SumFunctionOnSet(f, S)
  BY <1>1, <1>3, SumSame
<1>7. SumFunctionOnSet(f, S) \in Nat
  BY <1>1, <1>3, SumNatural
<1>8. SumFunction(f) = SumFunctionOnSet(f, S)
  <2>1. CASE c \in DOMAIN b
    <3>1. \A e \in S \cup {c} : f[e] \in Int
      BY <1>3, <1>4, <2>1
    <3>2. SumFunctionOnSet(f, S \cup {c}) = f[c] + SumFunctionOnSet(f, S)
      BY <1>1, <3>1, SumInsert
    <3> QED
      BY <1>4, <1>7, <2>1, <3>2 DEF SumFunction
  <2>2. CASE c \notin DOMAIN b
    BY <1>4, <2>2, Zenon DEF SumFunction
  <2> QED
    BY <2>1, <2>2, Zenon
<1>9. SumFunction(g) = SumFunction(f) + x
  BY <1>3, <1>5, <1>6, <1>7, <1>8 DEF SumFunction
<1> QED
  BY <1>2, <1>9, Zenon DEF f, g, Pools

-----------------------------------------------------------------------------
(* The records when the clock's epoch closes.                              *)

\* A schedule built from its fields.
LEMMA RecordBuilds ==
  \A r, A, B, C : \A x \in A, y \in B, z \in C :
      r = [epoch |-> x, unix |-> y, secs |-> z] => r \in [epoch: A, unix: B, secs: C]
OBVIOUS

\* r is the record of an epoch with pool x and window y to z.
IsEntry(r, x, y, z) == r = [pool |-> x, start |-> y, end |-> z]

\* The fields of such a record.
LEMMA EntryFields ==
  \A r, x, y, z : IsEntry(r, x, y, z) => r.pool = x /\ r.start = y /\ r.end = z
BY DEF IsEntry

\* The book when the clock's epoch has received the draw and ends at `end'.
Closes(book, upto, end) ==
    /\ IsFiniteSet(DOMAIN book) /\ Pools(book) = Earned(upto)
    /\ DOMAIN epochs \subseteq DOMAIN book /\ DOMAIN book \subseteq DOMAIN epochs \cup {clock}
    /\ \A e \in DOMAIN epochs : e # clock => book[e] = epochs[e]
    /\ clock \in DOMAIN book => book[clock] = [pool |-> Earned(upto) - paid,
                                               start |-> EpochStart(clock), end |-> end]
    /\ Earned(upto) > paid \/ clock \in open => clock \in DOMAIN book

\* Records of epochs.
IsRecord(r) == r \in [pool : Nat, start : Nat, end : Nat]
BookInv ==
    /\ paid \in Nat /\ open \subseteq DOMAIN epochs
    /\ \A e \in DOMAIN epochs : IsRecord(epochs[e])
    /\ WindowInv /\ PaidInv

\* The draw goes to the clock's epoch, which was empty.
LEMMA FundedCloses ==
  ASSUME BookInv, NEW upto, Earned(upto) \in Nat, paid <= Earned(upto)
  PROVE  Closes(Funded(clock, upto), upto, EpochEnd(clock))
<1> DEFINE F == Funded(clock, upto)
           x == Earned(upto) - paid
           new == [pool |-> x, start |-> EpochStart(clock), end |-> EpochEnd(clock)]
<1>1. /\ paid \in Nat /\ IsFiniteSet(DOMAIN epochs) /\ paid = Pools(epochs)
      /\ open \subseteq DOMAIN epochs
      /\ \A e \in DOMAIN epochs : epochs[e].pool \in Nat
      /\ clock \in DOMAIN epochs =>
           epochs[clock] = [pool |-> 0, start |-> EpochStart(clock), end |-> EpochEnd(clock)]
  BY Zenon DEF BookInv, WindowInv, PaidInv, NewCreatorEpoch, IsRecord, Pools
<1>2. x \in Nat /\ (Earned(upto) > paid <=> x # 0) /\ Earned(upto) = paid + x
  BY <1>1
<1>3. CASE Earned(upto) > paid
  <2>1. Record(clock) = [pool |-> 0, start |-> EpochStart(clock), end |-> EpochEnd(clock)]
    BY <1>1, Zenon DEF Record, NewCreatorEpoch
  <2>2. F = With(clock, [pool |-> 0 + x, start |-> EpochStart(clock), end |-> EpochEnd(clock)])
    BY <1>3, <2>1 DEF Funded, AddEpochPool
  <2>3. 0 + x = x
    BY <1>2
  <2>4. F = [e \in DOMAIN epochs \cup {clock} |-> IF e = clock THEN new ELSE epochs[e]]
    BY <2>2, <2>3, Zenon DEF With
  <2>5. /\ DOMAIN F = DOMAIN epochs \cup {clock} /\ F[clock] = new
        /\ \A e \in DOMAIN epochs : e # clock => F[e] = epochs[e]
    BY <2>4, Zenon
  <2>6. F[clock].pool = x
    <3>1. IsEntry(F[clock], x, EpochStart(clock), EpochEnd(clock))
      BY <2>5, Zenon DEF IsEntry
    <3> QED
      BY <3>1, EntryFields, Zenon
  <2> HIDE DEF F, x
  <2>7. IsFiniteSet(DOMAIN F) /\ Pools(F) = Pools(epochs) + x
    <3>1. clock \in DOMAIN epochs => epochs[clock].pool = 0
      <4>1. clock \in DOMAIN epochs =>
               IsEntry(epochs[clock], 0, EpochStart(clock), EpochEnd(clock))
        BY <1>1, Zenon DEF IsEntry
      <4> QED
        BY <4>1, EntryFields, Zenon
    <3>2. Receives(epochs, F, clock, x)
      BY <1>1, <1>2, <2>5, <2>6, <3>1, Zenon DEF Receives
    <3> QED
      BY <3>2, PoolsGrow, Zenon
  <2> QED
    BY <1>1, <1>2, <2>5, <2>7, Zenon DEF Closes, F, x
<1>4. CASE ~(Earned(upto) > paid)
  <2>1. F = epochs /\ x = 0
    BY <1>2, <1>4, Zenon DEF Funded
  <2>2. Earned(upto) - paid = 0 /\ Earned(upto) = paid
    <3>1. paid \in Nat /\ Earned(upto) = paid + 0
      BY <1>1, <1>2, <2>1, Zenon
    <3> QED
      BY <3>1
  <2>3. Closes(epochs, upto, EpochEnd(clock))
    BY <1>1, <1>4, <2>2 DEF Closes
  <2> HIDE DEF F
  <2> QED
    BY <2>1, <2>3 DEF F
<1> QED
  BY <1>3, <1>4, Zenon

\* An epoch cut short at t keeps its pool.
LEMMA TruncatedCloses ==
  ASSUME NEW b, NEW upto, NEW z, Closes(b, upto, z), NEW t
  PROVE  Closes(Truncated(b, clock, t), upto, IF z > t THEN t ELSE z)
<1> DEFINE T == Truncated(b, clock, t)
           y == IF z > t THEN t ELSE z
<1>1. CASE clock \in DOMAIN b /\ b[clock].end > t
  <2>1. /\ b[clock] = [pool |-> Earned(upto) - paid, start |-> EpochStart(clock), end |-> z]
        /\ y = t
    <3>1. b[clock] = [pool |-> Earned(upto) - paid, start |-> EpochStart(clock), end |-> z]
      BY <1>1, Zenon DEF Closes
    <3>2. b[clock].end = z
      <4>1. IsEntry(b[clock], Earned(upto) - paid, EpochStart(clock), z)
        BY <3>1, Zenon DEF IsEntry
      <4> QED
        BY <4>1, EntryFields, Zenon
    <3> QED
      BY <1>1, <3>1, <3>2, Zenon
  <2>2. T = [b EXCEPT ![clock] = [pool |-> b[clock].pool, start |-> b[clock].start, end |-> t]]
    BY <1>1 DEF Truncated
  <2>3. /\ DOMAIN T = DOMAIN b /\ \A e \in DOMAIN b : e # clock => T[e] = b[e]
        /\ T[clock] = [pool |-> Earned(upto) - paid, start |-> EpochStart(clock), end |-> y]
    <3>1. b[clock].pool = Earned(upto) - paid /\ b[clock].start = EpochStart(clock)
      <4>1. IsEntry(b[clock], Earned(upto) - paid, EpochStart(clock), z)
        BY <2>1, Zenon DEF IsEntry
      <4> QED
        BY <4>1, EntryFields, Zenon
    <3>2. /\ DOMAIN T = DOMAIN b /\ \A e \in DOMAIN b : e # clock => T[e] = b[e]
          /\ T[clock] = [pool |-> b[clock].pool, start |-> b[clock].start, end |-> t]
      <4> HIDE DEF T
      <4> QED
        BY <1>1, <2>2, Zenon
    <3> QED
      BY <2>1, <3>1, <3>2, Zenon
  <2>4. \A e \in DOMAIN b : T[e].pool = b[e].pool
    <3> HIDE DEF T
    <3>1. T[clock].pool = Earned(upto) - paid /\ b[clock].pool = Earned(upto) - paid
      <4>1. /\ IsEntry(b[clock], Earned(upto) - paid, EpochStart(clock), z)
            /\ IsEntry(T[clock], Earned(upto) - paid, EpochStart(clock), y)
        BY <2>1, <2>3, Zenon DEF IsEntry
      <4> QED
        BY <4>1, EntryFields, Zenon
    <3> QED
      BY <2>3, <3>1, Zenon
  <2> HIDE DEF T, y
  <2>5. Pools(T) = Pools(b)
    <3>1. [e \in DOMAIN T |-> T[e].pool] = [e \in DOMAIN b |-> b[e].pool]
      BY <2>3, <2>4, Zenon
    <3> QED
      BY <3>1, Zenon DEF Pools
  <2> QED
    BY <2>3, <2>5, Zenon DEF Closes, T, y
<1>2. CASE ~(clock \in DOMAIN b /\ b[clock].end > t)
  <2>1. T = b
    BY <1>2, Zenon DEF Truncated
  <2>2. clock \in DOMAIN b => b[clock].end = z
    <3>1. clock \in DOMAIN b => IsEntry(b[clock], Earned(upto) - paid, EpochStart(clock), z)
      BY Zenon DEF Closes, IsEntry
    <3> QED
      BY <3>1, EntryFields, Zenon
  <2>3. clock \in DOMAIN b => y = z
    BY <1>2, <2>2, Zenon
  <2> HIDE DEF T, y
  <2> QED
    BY <2>1, <2>3, Zenon DEF Closes, T, y
<1> QED
  BY <1>1, <1>2, Zenon

\* What the books satisfy once the clock's epoch is closed.
BooksClosed ==
    /\ open' \subseteq DOMAIN epochs' /\ settle' \subseteq DOMAIN epochs' /\ settle \subseteq settle'
    /\ \A e \in DOMAIN epochs' : IsRecord(epochs'[e])
    /\ WindowsDisjoint' /\ WindowInv' /\ PaidInv' /\ FedInv' /\ SettleInv'

\* Closing the clock's epoch at the start of the next keeps the books.
LEMMA CloseKeeps ==
  ASSUME BookInv, WindowsDisjoint, FedInv, SettleInv, settle \subseteq DOMAIN epochs,
         clock \in Nat, EpochStart(clock) \in Nat,
         NEW upto \in Nat, NEW end \in Nat, EpochStart(clock) <= upto, end <= upto,
         Drawn(upto), Closes(epochs', upto, end), CloseCreatorEpoch(clock, upto),
         clock' = clock + 1, tranches' = tranches, EpochStart(clock)' = upto, cut \subseteq cut',
         ~starved' /\ clock \in settle' \ cut' => end = upto
  PROVE  BooksClosed
<1> DEFINE new == [pool |-> Earned(upto) - paid, start |-> EpochStart(clock), end |-> end]
<1>1. /\ Earned(upto) \in Nat /\ paid \in Nat /\ paid <= Earned(upto)
      /\ paid' = Earned(upto) /\ paid' * Scale <= acc'
      /\ IsRecord(new)
  <2>1. Earned(upto) \in Nat /\ paid \in Nat /\ paid <= Earned(upto)
        /\ paid' = Earned(upto) /\ paid' * Scale <= acc'
    BY DEF Drawn, BookInv
  <2>2. Earned(upto) - paid \in Nat
    BY <2>1
  <2> QED
    BY <2>1, <2>2, Zenon DEF IsRecord
<1>2. /\ IsFiniteSet(DOMAIN epochs') /\ Pools(epochs') = Earned(upto)
      /\ DOMAIN epochs \subseteq DOMAIN epochs'
      /\ DOMAIN epochs' \subseteq DOMAIN epochs \cup {clock}
      /\ \A e \in DOMAIN epochs : e # clock => epochs'[e] = epochs[e]
      /\ clock \in DOMAIN epochs' => epochs'[clock] = new
      /\ Earned(upto) > paid \/ clock \in open => clock \in DOMAIN epochs'
  BY Zenon DEF Closes
<1>3. /\ open' = open \ {clock}
      /\ settle' = IF Earned(upto) > paid \/ clock \in open THEN settle \cup {clock} ELSE settle
  BY Zenon DEF CloseCreatorEpoch
<1>4. /\ open \subseteq DOMAIN epochs /\ settle \subseteq DOMAIN epochs
      /\ \A e \in settle : e < clock
      /\ \A e \in DOMAIN epochs :
            /\ IsRecord(epochs[e]) /\ e \in 0..clock /\ epochs[e].start <= EpochStart(clock)
            /\ e < clock => epochs[e].end <= EpochStart(clock)
  BY Zenon DEF BookInv, WindowInv, SettleInv
<1> HIDE DEF new
<1>5. /\ open' \subseteq DOMAIN epochs' /\ settle' \subseteq DOMAIN epochs' /\ settle \subseteq settle'
  BY <1>2, <1>3, <1>4, Zenon
<1>6. \A e \in DOMAIN epochs' : IsRecord(epochs'[e])
  BY <1>1, <1>2, <1>4, Zenon
<1>7. new.start = EpochStart(clock) /\ new.end = end /\ new.pool = Earned(upto) - paid
  BY Zenon DEF new
<1>8. ASSUME NEW e \in DOMAIN epochs'
      PROVE  /\ e \in 0..clock /\ epochs'[e].start <= upto /\ epochs'[e].end <= upto
             /\ epochs'[e].start \in Nat /\ epochs'[e].end \in Nat
             /\ e # clock => e < clock /\ e \in DOMAIN epochs /\ epochs'[e] = epochs[e]
                             /\ epochs[e].end <= EpochStart(clock)
             /\ e = clock => epochs'[e].start = EpochStart(clock) /\ epochs'[e].end = end
  <2>1. IsRecord(epochs'[e])
    BY <1>6
  <2>2. epochs'[e].start \in Nat /\ epochs'[e].end \in Nat
    BY <2>1, Zenon DEF IsRecord
  <2>3. CASE e = clock
    <3>1. epochs'[e].start = EpochStart(clock) /\ epochs'[e].end = end
      BY <1>2, <1>7, <2>3, Zenon
    <3> QED
      BY <2>2, <2>3, <3>1
  <2>4. CASE e # clock
    <3>1. e \in DOMAIN epochs /\ epochs'[e] = epochs[e]
      BY <1>2, <2>4, Zenon
    <3>2. e \in 0..clock /\ e < clock
      BY <1>4, <2>4, <3>1
    <3>3. epochs[e].start <= EpochStart(clock) /\ epochs[e].end <= EpochStart(clock)
      BY <1>4, <3>1, <3>2, Zenon
    <3> QED
      <4>1. /\ epochs'[e].start <= EpochStart(clock) /\ epochs'[e].end <= EpochStart(clock)
            /\ epochs'[e].end = epochs[e].end
        BY <3>1, <3>3, Zenon
      <4>2. epochs'[e].start <= upto /\ epochs'[e].end <= upto
        BY <2>2, <4>1
      <4> QED
        BY <2>2, <2>4, <3>1, <3>2, <3>3, <4>2, Zenon
  <2> QED
    BY <2>3, <2>4, Zenon
<1>9. WindowsDisjoint'
  <2> SUFFICES ASSUME NEW e \in DOMAIN epochs', NEW f \in DOMAIN epochs', e < f
               PROVE  epochs'[e].end <= epochs'[f].start
    BY DEF WindowsDisjoint
  <2>1. e # clock
    BY <1>8
  <2>2. CASE f = clock
    BY <1>8, <2>1, <2>2, Zenon
  <2>3. CASE f # clock
    BY <1>8, <2>1, <2>3, Zenon DEF WindowsDisjoint
  <2> QED
    BY <2>2, <2>3
<1>10. WindowInv'
  <2> SUFFICES ASSUME NEW e \in DOMAIN epochs'
               PROVE  /\ e \in 0..clock' /\ epochs'[e].start <= upto
                      /\ e < clock' => epochs'[e].end <= upto
                      /\ e # clock'
    BY DEF WindowInv
  <2> QED
    BY <1>8
<1>11. PaidInv'
  BY <1>1, <1>2, Zenon DEF PaidInv
<1>12. FedInv'
  BY DEF FedInv, Drawn, Streamed, StreamInv
<1>13. SettleInv'
  <2>1. \A e \in settle' : e < clock'
    <3> SUFFICES ASSUME NEW e \in settle' PROVE e < clock'
      OBVIOUS
    <3>1. e \in 0..clock
      BY <1>5, <1>8, Zenon
    <3> QED
      BY <3>1
  <2>2. ASSUME ~starved', NEW e \in settle' \ cut'
        PROVE  epochs'[e].pool = Streamed(epochs'[e].end) \div Scale
                                 - Streamed(epochs'[e].start) \div Scale
    <3>1. ~starved
      BY <2>2, Zenon DEF Drawn
    <3>2. CASE e = clock
      <4>1. end = upto
        BY <2>2, <3>2
      <4>2. Earned(upto) = Streamed(upto) \div Scale
        BY <1>1, <2>2 DEF Drawn
      <4>3. paid = Streamed(EpochStart(clock)) \div Scale
        BY <3>1 DEF FedInv
      <4>4. epochs'[e] = new
        BY <1>2, <1>5, <2>2, <3>2, Zenon
      <4> QED
        BY <1>7, <4>1, <4>2, <4>3, <4>4
    <3>3. CASE e # clock
      <4>1. e \in settle \ cut /\ epochs'[e] = epochs[e]
        BY <1>2, <1>3, <1>4, <2>2, <3>3, Zenon
      <4> QED
        BY <3>1, <4>1, Zenon DEF SettleInv, EpochGetsItsShare
    <3> QED
      BY <3>2, <3>3
  <2>3. EpochGetsItsShare'
    <3> SUFFICES ASSUME ~starved', NEW e \in settle' \ cut'
                 PROVE  epochs'[e].pool = (Streamed(epochs[e].end) \div Scale
                                           - Streamed(epochs[e].start) \div Scale)'
      BY Zenon DEF EpochGetsItsShare
    <3>1. /\ Streamed(epochs[e].end)' = Streamed(epochs'[e].end)
          /\ Streamed(epochs[e].start)' = Streamed(epochs'[e].start)
      BY DEF Streamed
    <3> QED
      BY <2>2, <3>1, Zenon
  <2> QED
    BY <2>1, <2>3 DEF SettleInv
<1> QED
  BY <1>5, <1>6, <1>9, <1>10, <1>11, <1>12, <1>13, Zenon DEF BooksClosed

-----------------------------------------------------------------------------
(* The steps keep the invariant.                                           *)

\* Booking a tranche changes nothing that was streamed by its start.
LEMMA BookStep ==
  ASSUME Inv, NEW share \in Shares, NEW start \in now..now + MaxLead, NEW length \in Durations,
         ScheduleCreatorStreamTranche(share, start, length)
  PROVE  Inv'
<1>1. /\ TypeOK /\ StreamInv /\ ClockInv /\ WindowsDisjoint /\ WindowInv
      /\ PaidInv /\ FedInv /\ SettleInv
  BY DEF Inv
<1>2. /\ ClockOnGrid /\ now \in Nat /\ start \in Nat /\ now <= start /\ cursor <= start
      /\ share \in Nat /\ cursor \in Nat /\ EpochStart(clock) \in Nat /\ EpochStart(clock) <= now
  <2>1. ClockOnGrid
    BY <1>1, ClockGrid
  <2>2. now \in Nat /\ cursor \in Nat /\ cursor <= now
    BY <1>1 DEF TypeOK, StreamInv
  <2>3. start \in Nat /\ now <= start /\ share \in Nat
    BY <2>2, StreamAssumption
  <2> QED
    BY <2>1, <2>2, <2>3 DEF ClockOnGrid
<1>3. UNCHANGED <<now, phase, advanced, clock, sched, cursor, rate, acc, paid,
                  epochs, open, settle, starved, cut, regrids>>
  BY DEF ScheduleCreatorStreamTranche, books
<1> DEFINE tr == Booked(share, start, length)
<1>4. /\ StreamInv' /\ OneMore(tr)
      /\ \A t \in Nat : t <= start => Produced(tr, t) = 0
      /\ \A p \in points' \ points : p.acc > 0 => p.at > start
  BY <1>1, <1>2, BookKeeps
<1> HIDE DEF tr
<1>5. \A t \in Nat : t <= start => Streamed(t)' = Streamed(t)
  BY <1>4 DEF OneMore
<1>6. TypeOK'
  <2>1. \A p \in points' : p.at \in Nat /\ p.key \in Nat /\ p.rate \in Int /\ p.acc \in Nat
    BY <1>4, Zenon DEF StreamInv, PointsInv, IsPoint
  <2> QED
    BY <1>1, <1>3, <2>1, Zenon DEF TypeOK
<1>7. ClockInv' /\ WindowsDisjoint' /\ WindowInv' /\ PaidInv'
  BY <1>1, <1>3, Zenon DEF ClockInv, WindowsDisjoint, WindowInv, PaidInv, NewCreatorEpoch,
                    EpochStart, EpochEnd, EpochAt
<1>8. EpochStart(clock)' = EpochStart(clock)
  BY <1>3 DEF EpochStart
<1>9. FedInv'
  <2> SUFFICES ASSUME ~starved'
               PROVE  /\ cursor' <= EpochStart(clock)
                      /\ \A p \in points' : p.acc > 0 => p.at > EpochStart(clock)
                      /\ acc' = (Streamed(EpochStart(clock)))'
                      /\ paid' = acc' \div Scale
    BY <1>8 DEF FedInv
  <2>1. /\ cursor <= EpochStart(clock) /\ acc = Streamed(EpochStart(clock))
        /\ \A p \in points : p.acc > 0 => p.at > EpochStart(clock)
        /\ paid = acc \div Scale
    BY <1>1, <1>3 DEF FedInv
  <2>2. (Streamed(EpochStart(clock)))' = Streamed(EpochStart(clock))
    <3>1. (Streamed(EpochStart(clock)))' = SumFunction([x \in tranches' |-> Produced(x, EpochStart(clock))])
      BY <1>8 DEF Streamed
    <3>2. SumFunction([x \in tranches' |-> Produced(x, EpochStart(clock))]) = Streamed(EpochStart(clock))
      <4> DEFINE z == EpochStart(clock)
      <4>1. z \in Nat /\ z <= start
        BY <1>2
      <4> HIDE DEF z
      <4>2. SumFunction([x \in tranches' |-> Produced(x, z)]) = Streamed(z)
        BY <4>1, <1>4, <1>5 DEF OneMore, Streamed
      <4> QED
        BY <4>2 DEF z
    <3> QED
      BY <3>1, <3>2
  <2>3. ASSUME NEW p \in points', p.acc > 0 PROVE p.at > EpochStart(clock)
    <3>1. CASE p \in points
      BY <2>1, <2>3, <3>1
    <3>2. CASE p \notin points
      <4>1. p.at > start /\ p.at \in Nat
        BY <1>4, <2>3, <3>2, Zenon DEF StreamInv, PointsInv, IsPoint
      <4> QED
        BY <1>2, <4>1
    <3> QED
      BY <3>1, <3>2
  <2> QED
    BY <1>3, <2>1, <2>2, <2>3
<1>10. SettleInv'
  <2>1. \A e \in settle' : e < clock'
    BY <1>1, <1>3, Zenon DEF SettleInv
  <2>2. ASSUME ~starved', NEW e \in settle' \ cut'
        PROVE  epochs'[e].pool = (Streamed(epochs[e].end) \div Scale
                                  - Streamed(epochs[e].start) \div Scale)'
    <3>1. /\ e \in settle \ cut /\ ~starved /\ e \in DOMAIN epochs /\ e < clock
      BY <1>1, <1>3, <2>2, Zenon DEF TypeOK, SettleInv
    <3>2. /\ epochs[e].start \in Nat /\ epochs[e].end \in Nat
      BY <1>1, <3>1, Zenon DEF TypeOK
    <3>3. epochs[e].start <= start /\ epochs[e].end <= start
      <4>1. epochs[e].start <= EpochStart(clock) /\ epochs[e].end <= EpochStart(clock)
        BY <1>1, <3>1, Zenon DEF WindowInv
      <4> QED
        BY <1>2, <3>2, <4>1
    <3>4. epochs[e].pool = Streamed(epochs[e].end) \div Scale - Streamed(epochs[e].start) \div Scale
      BY <1>1, <3>1 DEF SettleInv, EpochGetsItsShare
    <3> DEFINE a == epochs[e].end
               b == epochs[e].start
    <3>5. a' = a /\ b' = b
      BY <1>3, Zenon
    <3>6. (Streamed(a))' = SumFunction([x \in tranches' |-> Produced(x, a)])
          /\ (Streamed(b))' = SumFunction([x \in tranches' |-> Produced(x, b)])
      BY <3>5, Zenon DEF Streamed
    <3>7. a \in Nat /\ b \in Nat /\ a <= start /\ b <= start
      BY <3>2, <3>3
    <3>8. \A t \in Nat : t <= start =>
             SumFunction([x \in tranches' |-> Produced(x, t)]) = Streamed(t)
      BY <1>5, Zenon DEF Streamed
    <3>9. (Streamed(a))' = Streamed(a) /\ (Streamed(b))' = Streamed(b)
      BY <3>6, <3>7, <3>8, Zenon
    <3> QED
      BY <1>3, <3>4, <3>9, Zenon
  <2> QED
    BY <2>1, <2>2 DEF SettleInv, EpochGetsItsShare
<1> QED
  BY <1>4, <1>6, <1>7, <1>9, <1>10 DEF Inv

\* What an epoch that closes at a boundary or early leaves of the invariant.
LEMMA DrawTypes ==
  ASSUME Inv
  PROVE  /\ BookInv /\ StreamInv /\ WindowsDisjoint /\ FedInv /\ SettleInv
         /\ paid \in Nat /\ paid * Scale <= acc /\ settle \subseteq DOMAIN epochs
         /\ now \in 0..MaxTime /\ cursor \in Nat /\ cursor <= now /\ cut \subseteq settle
         /\ ClockOnGrid /\ cursor <= EpochEnd(clock) /\ sched.unix <= cursor
         /\ sched.epoch <= clock /\ clock <= EpochAt(now)
<1>1. /\ TypeOK /\ StreamInv /\ ClockInv /\ WindowsDisjoint /\ WindowInv
      /\ PaidInv /\ FedInv /\ SettleInv
  BY Zenon DEF Inv
<1>2. /\ paid \in Nat /\ open \subseteq DOMAIN epochs /\ settle \subseteq DOMAIN epochs
      /\ \A e \in DOMAIN epochs : IsRecord(epochs[e])
      /\ now \in 0..MaxTime /\ cursor \in 0..now /\ cut \subseteq settle
  BY <1>1 DEF TypeOK, IsRecord
<1>3. BookInv /\ paid * Scale <= acc
  BY <1>1, <1>2 DEF BookInv, PaidInv
<1>4. cursor \in Nat /\ cursor <= now
  BY <1>2
<1>5. ClockOnGrid
  BY <1>1, ClockGrid
<1> QED
  BY <1>1, <1>2, <1>3, <1>4, <1>5 DEF ClockInv

\* Opening the clock's epoch writes its empty record.
LEMMA EngageStep ==
  ASSUME Inv, Engage
  PROVE  Inv'
<1>1. /\ TypeOK /\ StreamInv /\ ClockInv /\ WindowsDisjoint /\ WindowInv
      /\ PaidInv /\ FedInv /\ SettleInv
  BY DEF Inv
<1>2. /\ UNCHANGED <<now, phase, advanced, clock, sched, cursor, rate, acc, paid, points,
                     settle, tranches, starved, cut, regrids>>
      /\ epochs' = With(clock, Record(clock)) /\ open' = open \cup {clock}
  BY Zenon DEF Engage, stream
<1> DEFINE new == [pool |-> 0, start |-> EpochStart(clock), end |-> EpochEnd(clock)]
<1>3. Record(clock) = new
  BY <1>1, Zenon DEF Record, NewCreatorEpoch, WindowInv
<1>4. IsRecord(new) /\ NewCreatorEpoch(clock) = new /\ clock \in Nat
      /\ EpochStart(clock) \in Nat /\ EpochEnd(clock) \in Nat
      /\ new.pool = 0 /\ new.start = EpochStart(clock)
  <2>1. clock \in Nat /\ EpochStart(clock) \in Nat /\ EpochEnd(clock) \in Nat
    BY DrawTypes DEF ClockOnGrid
  <2> QED
    BY <2>1 DEF IsRecord, NewCreatorEpoch
<1> HIDE DEF new
<1>5. /\ DOMAIN epochs' = DOMAIN epochs \cup {clock} /\ epochs'[clock] = new
      /\ \A e \in DOMAIN epochs : e # clock => epochs'[e] = epochs[e]
  <2>1. epochs' = [x \in DOMAIN epochs \cup {clock} |-> IF x = clock THEN new ELSE epochs[x]]
    BY <1>2, <1>3, Zenon DEF With
  <2> QED
    BY <2>1, Zenon
<1>6. \A e \in DOMAIN epochs' : epochs'[e] \in [pool: Nat, start: Nat, end: Nat]
  BY <1>1, <1>4, <1>5, Zenon DEF TypeOK, IsRecord
<1>7. TypeOK'
  <2>1. open' \subseteq DOMAIN epochs' /\ settle' \subseteq DOMAIN epochs'
    BY <1>1, <1>2, <1>5, Zenon DEF TypeOK
  <2> QED
    BY <1>1, <1>2, <1>6, <2>1, Zenon DEF TypeOK
<1>8. StreamInv' /\ ClockInv' /\ FedInv'
  BY <1>1, <1>2, Zenon DEF StreamInv, PointsInv, Exact, ExactAt, Streamed, ClockInv, FedInv,
                    EpochStart, EpochEnd, EpochAt
<1>9. EpochStart(clock)' = EpochStart(clock) /\ NewCreatorEpoch(clock)' = NewCreatorEpoch(clock)
  BY <1>2, Zenon DEF EpochStart, EpochEnd, NewCreatorEpoch
<1>10. ASSUME NEW e \in DOMAIN epochs', e # clock
       PROVE  /\ e \in DOMAIN epochs /\ epochs'[e] = epochs[e] /\ e \in 0..clock /\ e < clock
              /\ epochs[e].end <= EpochStart(clock) /\ epochs[e].start <= EpochStart(clock)
  <2>1. e \in DOMAIN epochs /\ epochs'[e] = epochs[e]
    BY <1>5, <1>10, Zenon
  <2>2. e \in 0..clock /\ e < clock
    BY <1>1, <1>4, <1>10, <2>1 DEF WindowInv
  <2> QED
    BY <1>1, <2>1, <2>2 DEF WindowInv
<1>11. WindowsDisjoint'
  <2> SUFFICES ASSUME NEW e \in DOMAIN epochs', NEW f \in DOMAIN epochs', e < f
               PROVE  epochs'[e].end <= epochs'[f].start
    BY DEF WindowsDisjoint
  <2>1. e # clock
    <3>1. f \in 0..clock
      BY <1>4, <1>10
    <3> QED
      BY <1>4, <3>1
  <2>2. CASE f = clock
    BY <1>4, <1>5, <1>10, <2>1, <2>2, Zenon
  <2>3. CASE f # clock
    BY <1>1, <1>10, <2>1, <2>3, Zenon DEF WindowsDisjoint
  <2> QED
    BY <2>2, <2>3
<1>12. WindowInv'
  <2> SUFFICES ASSUME NEW e \in DOMAIN epochs'
               PROVE  /\ e \in 0..clock /\ epochs'[e].start <= EpochStart(clock)
                      /\ e < clock => epochs'[e].end <= EpochStart(clock)
                      /\ e = clock => epochs'[e] = NewCreatorEpoch(clock)
    BY <1>2, <1>9, Zenon DEF WindowInv
  <2>1. CASE e = clock
    BY <1>4, <1>5, <2>1
  <2>2. CASE e # clock
    BY <1>10, <2>2
  <2> QED
    BY <2>1, <2>2, Zenon
<1>13. PaidInv'
  <2>1. Receives(epochs, epochs', clock, 0)
    <3>1. clock \in DOMAIN epochs => epochs[clock].pool = 0
      BY <1>1, <1>4 DEF WindowInv
    <3>2. \A e \in DOMAIN epochs : epochs[e].pool \in Nat
      BY <1>1 DEF TypeOK
    <3> QED
      BY <1>1, <1>4, <1>5, <3>1, <3>2, Zenon DEF Receives, PaidInv
  <2>2. IsFiniteSet(DOMAIN epochs') /\ Pools(epochs') = Pools(epochs) + 0
    BY <2>1, PoolsGrow, Zenon
  <2>3. paid = Pools(epochs) /\ paid \in Nat /\ paid * Scale <= acc
    BY <1>1 DEF PaidInv, TypeOK
  <2>4. Pools(epochs') = paid
    BY <2>2, <2>3
  <2> QED
    BY <1>2, <2>2, <2>3, <2>4, Zenon DEF PaidInv
<1>14. SettleInv'
  <2>1. ASSUME NEW e \in settle PROVE e < clock /\ epochs'[e] = epochs[e]
    <3>1. e < clock /\ e \in DOMAIN epochs
      BY <1>1 DEF SettleInv, TypeOK
    <3>2. e # clock
      <4>1. e \in 0..clock
        BY <1>1, <3>1 DEF WindowInv
      <4> QED
        BY <1>4, <3>1, <4>1
    <3> QED
      BY <1>5, <3>1, <3>2
  <2> QED
    BY <1>1, <1>2, <2>1, Zenon DEF SettleInv, EpochGetsItsShare, Streamed
<1> QED
  BY <1>7, <1>8, <1>11, <1>12, <1>13, <1>14 DEF Inv

\* A boundary closes the clock's epoch where the next one starts.
LEMMA VisitStep ==
  ASSUME Inv, VisitBoundary
  PROVE  Inv'
<1> DEFINE b == EpochEnd(clock)
<1>1. /\ Advancing /\ DrawCreatorStream(b) /\ epochs' = Funded(clock, b)
      /\ CloseCreatorEpoch(clock, b) /\ clock' = clock + 1 /\ advanced' = advanced + 1
      /\ now' = now /\ phase' = phase /\ sched' = sched /\ tranches' = tranches
      /\ cut' = cut /\ regrids' = regrids
  BY DEF VisitBoundary
<1>2. /\ BookInv /\ StreamInv /\ WindowsDisjoint /\ FedInv /\ SettleInv
      /\ paid \in Nat /\ paid * Scale <= acc /\ settle \subseteq DOMAIN epochs
      /\ now \in 0..MaxTime /\ cursor \in Nat /\ cursor <= now /\ cut \subseteq settle
      /\ ClockOnGrid /\ cursor <= b /\ sched.unix <= cursor
      /\ sched.epoch <= clock
  BY DrawTypes
<1>3. /\ clock \in Nat /\ EpochStart(clock) \in Nat /\ b \in Nat /\ EpochStart(clock) <= b
      /\ b <= now /\ clock + 1 <= EpochAt(now)
      /\ EpochStart(clock + 1) = b /\ b <= EpochEnd(clock + 1) /\ sched.unix <= b
  <2>1. clock < EpochAt(now) /\ clock \in Nat /\ EpochAt(now) \in Nat
    BY <1>1, <1>2, Zenon DEF Advancing, ClockOnGrid
  <2>2. /\ OnGrid(clock) /\ OnGrid(clock + 1) /\ b <= now /\ EpochStart(clock) \in Nat
        /\ sched.unix \in Int
    <3>1. OnGrid(clock) /\ OnGrid(clock + 1) /\ EpochStart(clock) \in Nat /\ b <= now
      BY <1>2, <2>1, Zenon DEF ClockOnGrid
    <3>2. sched \in [epoch: Nat, unix: 0..now, secs: EpochLengths]
      BY Zenon DEF Inv, TypeOK
    <3> QED
      BY <1>2, <3>1, <3>2
  <2>3. /\ EpochStart(clock) < b /\ b \in Nat /\ b = EpochStart(clock + 1)
        /\ sched.unix <= EpochStart(clock)
    BY <2>2, Zenon DEF OnGrid
  <2>4. EpochStart(clock + 1) < EpochEnd(clock + 1) /\ EpochEnd(clock + 1) \in Nat
    BY <2>2, Zenon DEF OnGrid
  <2> QED
    BY <2>1, <2>2, <2>3, <2>4
<1>4. EpochStart(clock)' = b /\ EpochEnd(clock)' = EpochEnd(clock + 1) /\ EpochAt(now)' = EpochAt(now)
  BY <1>1, <1>3, Zenon DEF EpochStart, EpochEnd, EpochAt
<1> HIDE DEF b
<1>5. Drawn(b)
  BY <1>1, <1>2, <1>3, DrawKeeps, Zenon
<1>6. Closes(epochs', b, b)
  <2>1. Earned(b) \in Nat /\ paid <= Earned(b)
    BY <1>5 DEF Drawn
  <2>2. Closes(Funded(clock, b), b, EpochEnd(clock))
    BY <1>2, <2>1, FundedCloses, Zenon
  <2> QED
    BY <1>1, <2>2 DEF b
<1>7. BooksClosed
  <2>1. b <= b /\ cut \subseteq cut'
    BY <1>1, <1>3
  <2> QED
    BY <1>1, <1>2, <1>3, <1>4, <1>5, <1>6, <2>1, CloseKeeps, Zenon
<1>8. /\ StreamInv' /\ cursor' = b
      /\ rate' \in Nat /\ acc' \in Nat /\ paid' \in Nat
      /\ \A p \in points' : p.at \in Nat /\ p.key \in Nat /\ p.rate \in Int /\ p.acc \in Nat
  BY <1>5, Zenon DEF Drawn, StreamInv, PointsInv, IsPoint
<1>9. TypeOK'
  <2>1. TypeOK
    BY Zenon DEF Inv
  <2>2. /\ now' \in 0..MaxTime /\ phase' \in {"tx", "clock"} /\ clock' \in Nat
        /\ cursor' \in 0..now' /\ regrids' \in 0..MaxRegrids
    <3>1. /\ now' \in 0..MaxTime /\ phase' \in {"tx", "clock"} /\ regrids' \in 0..MaxRegrids
          /\ clock' = clock + 1 /\ now' = now /\ now \in 0..MaxTime
      BY <1>1, <2>1, Zenon DEF TypeOK
    <3> QED
      BY <1>3, <1>8, <3>1
  <2>3. advanced' \in 0..ClosuresPerBlock
    <3>1. /\ advanced \in 0..ClosuresPerBlock /\ advanced < ClosuresPerBlock
          /\ advanced' = advanced + 1 /\ ClosuresPerBlock \in Nat
      BY <1>1, <2>1, StreamAssumption, Zenon DEF TypeOK, Advancing
    <3> QED
      BY <3>1
  <2>4. starved' \in BOOLEAN
    BY <1>5, Zenon DEF Drawn
  <2>5. sched' \in [epoch: Nat, unix: 0..now', secs: EpochLengths]
    BY <1>1, <2>1, Zenon DEF TypeOK
  <2>6. /\ open' \subseteq DOMAIN epochs' /\ settle' \subseteq DOMAIN epochs' /\ cut' \subseteq settle'
        /\ \A e \in DOMAIN epochs' : epochs'[e] \in [pool: Nat, start: Nat, end: Nat]
    BY <1>1, <1>2, <1>7, Zenon DEF BooksClosed, IsRecord
  <2> QED
    BY <1>8, <2>2, <2>3, <2>4, <2>5, <2>6, Zenon DEF TypeOK
<1>10. ClockInv'
  <2>1. sched.epoch \in Nat
    BY DEF Inv, TypeOK
  <2>2. sched.epoch <= clock + 1
    BY <1>2, <1>3, <2>1
  <2> QED
    BY <1>1, <1>3, <1>4, <1>8, <2>2, Zenon DEF ClockInv
<1> QED
  BY <1>7, <1>8, <1>9, <1>10 DEF Inv, BooksClosed

\* A change of the epoch length closes the clock's epoch now.
LEMMA RegridStep ==
  ASSUME Inv, NEW secs \in EpochLengths, ApplyCreatorEpochSeconds(secs)
  PROVE  Inv'
<1>1. /\ regrids < MaxRegrids /\ DrawCreatorStream(now)
      /\ epochs' = Truncated(Funded(clock, now), clock, now)
      /\ CloseCreatorEpoch(clock, now) /\ clock' = clock + 1 /\ regrids' = regrids + 1
      /\ sched' = [epoch |-> clock + 1, unix |-> now, secs |-> secs]
      /\ cut' = IF clock \in settle' /\ clock < EpochAt(now) THEN cut \cup {clock} ELSE cut
      /\ now' = now /\ phase' = phase /\ advanced' = advanced /\ tranches' = tranches
  BY DEF ApplyCreatorEpochSeconds, Regridded
<1>2. /\ BookInv /\ StreamInv /\ WindowsDisjoint /\ FedInv /\ SettleInv
      /\ paid \in Nat /\ paid * Scale <= acc /\ settle \subseteq DOMAIN epochs
      /\ now \in 0..MaxTime /\ cursor \in Nat /\ cursor <= now /\ cut \subseteq settle
      /\ ClockOnGrid /\ clock <= EpochAt(now)
  BY DrawTypes
<1>3. /\ clock \in Nat /\ EpochStart(clock) \in Nat /\ now \in Nat /\ EpochStart(clock) <= now
      /\ EpochEnd(clock) \in Nat /\ EpochAt(now) \in Nat
      /\ EpochEnd(clock) <= now <=> clock < EpochAt(now)
  BY <1>2 DEF ClockOnGrid
<1>4. secs \in Nat \ {0}
  BY StreamAssumption, Zenon
<1>5. /\ EpochStart(clock)' = now /\ EpochEnd(clock)' = now + secs /\ EpochAt(now)' = clock + 1
      /\ sched'.epoch = clock + 1 /\ sched'.unix = now
  <2>1. sched'.epoch = clock + 1 /\ sched'.unix = now /\ sched'.secs = secs
    BY <1>1, Zenon
  <2>2. /\ EpochStart(clock)' = now + ((clock + 1) - (clock + 1)) * secs
        /\ EpochEnd(clock)' = now + (((clock + 1) + 1) - (clock + 1)) * secs
        /\ EpochAt(now)' = (clock + 1) + (now - now) \div secs
    BY <1>1, <2>1 DEF EpochStart, EpochEnd, EpochAt
  <2>3. (clock + 1) - (clock + 1) = 0 /\ ((clock + 1) + 1) - (clock + 1) = 1 /\ now - now = 0
        /\ 0 * secs = 0 /\ 1 * secs = secs
    BY <1>3, <1>4
  <2>4. 0 \div secs = 0
    BY <1>4
  <2> QED
    BY <1>3, <1>4, <2>1, <2>2, <2>3, <2>4
<1> DEFINE end == IF EpochEnd(clock) > now THEN now ELSE EpochEnd(clock)
<1>6. Drawn(now)
  BY <1>1, <1>2, <1>3, DrawKeeps, Zenon
<1>7. Closes(epochs', now, end)
  <2>1. Earned(now) \in Nat /\ paid <= Earned(now)
    BY <1>6 DEF Drawn
  <2>2. Closes(Funded(clock, now), now, EpochEnd(clock))
    BY <1>2, <2>1, FundedCloses, Zenon
  <2> QED
    BY <1>1, <2>2, TruncatedCloses
<1>8. end \in Nat /\ end <= now /\ (clock = EpochAt(now) => end = now)
  BY <1>3
<1> HIDE DEF end
<1>9. BooksClosed
  <2>1. cut \subseteq cut'
    BY <1>1, Zenon
  <2>2. clock \in settle' \ cut' => end = now
    BY <1>1, <1>2, <1>3, <1>8
  <2> QED
    BY <1>1, <1>2, <1>3, <1>5, <1>6, <1>7, <1>8, <2>1, <2>2, CloseKeeps, Zenon
<1>10. /\ StreamInv' /\ cursor' = now
       /\ rate' \in Nat /\ acc' \in Nat /\ paid' \in Nat
       /\ \A p \in points' : p.at \in Nat /\ p.key \in Nat /\ p.rate \in Int /\ p.acc \in Nat
  BY <1>6, Zenon DEF Drawn, StreamInv, PointsInv, IsPoint
<1>11. TypeOK'
  <2>1. TypeOK
    BY Zenon DEF Inv
  <2>2. /\ now' \in 0..MaxTime /\ phase' \in {"tx", "clock"} /\ clock' \in Nat
        /\ cursor' \in 0..now' /\ advanced' \in 0..ClosuresPerBlock
    <3>1. /\ now' \in 0..MaxTime /\ phase' \in {"tx", "clock"} /\ advanced' \in 0..ClosuresPerBlock
          /\ clock' = clock + 1 /\ now' = now /\ now \in 0..MaxTime
      BY <1>1, <2>1, Zenon DEF TypeOK
    <3> QED
      BY <1>3, <1>10, <3>1
  <2>3. regrids' \in 0..MaxRegrids
    <3>1. /\ regrids \in 0..MaxRegrids /\ regrids < MaxRegrids
          /\ regrids' = regrids + 1 /\ MaxRegrids \in Nat
      BY <1>1, <2>1, StreamAssumption, Zenon DEF TypeOK
    <3> QED
      BY <3>1
  <2>4. starved' \in BOOLEAN
    BY <1>6, Zenon DEF Drawn
  <2>5. sched' \in [epoch: Nat, unix: 0..now', secs: EpochLengths]
    <3>1. now \in 0..now'
      BY <1>1, <1>3
    <3>2. sched' = [epoch |-> clock + 1, unix |-> now, secs |-> secs]
      BY <1>1, Zenon
    <3>3. clock + 1 \in Nat
      BY <1>3
    <3> QED
      BY <3>1, <3>2, <3>3, RecordBuilds, Zenon
  <2>6. /\ open' \subseteq DOMAIN epochs' /\ settle' \subseteq DOMAIN epochs' /\ cut' \subseteq settle'
        /\ \A e \in DOMAIN epochs' : epochs'[e] \in [pool: Nat, start: Nat, end: Nat]
    BY <1>1, <1>2, <1>9, Zenon DEF BooksClosed, IsRecord
  <2> QED
    BY <1>10, <2>2, <2>3, <2>4, <2>5, <2>6, Zenon DEF TypeOK
<1>12. ClockInv'
  <2>1. clock' = clock + 1 /\ now' = now
    BY <1>1, Zenon
  <2>2. /\ clock + 1 <= clock + 1 /\ now <= now /\ now <= now + secs
    BY <1>3, <1>4
  <2> QED
    BY <1>5, <1>10, <2>1, <2>2, Zenon DEF ClockInv
<1> QED
  BY <1>9, <1>10, <1>11, <1>12, Zenon DEF Inv, BooksClosed

\* Where a jump over idle epochs ends.
IdleEnds(k) ==
    /\ rate = 0 /\ k \in Nat /\ clock < k /\ k <= EpochAt(now) /\ OnGrid(k)
    /\ EpochEnd(clock) <= EpochStart(k)
    /\ \A p \in points : EpochStart(k) <= p.at

\* The target of a jump is before every breakpoint.
LEMMA IdleTargetEnds ==
  ASSUME Inv, clock < IdleTarget
  PROVE  IdleEnds(IdleTarget)
<1> DEFINE S == {EpochAt(now)} \cup IdleUntil \cup open
           m == Min(S)
<1>1. /\ TypeOK /\ StreamInv /\ WindowInv /\ ClockOnGrid /\ clock \in Nat /\ EpochAt(now) \in Nat
      /\ sched.epoch \in Nat /\ sched.epoch <= clock /\ sched.unix \in Nat /\ sched.unix <= cursor
      /\ cursor \in Nat
  <2>1. TypeOK /\ StreamInv /\ WindowInv
    BY DEF Inv
  <2>2. sched \in [epoch: Nat, unix: 0..now, secs: EpochLengths] /\ now \in Nat
    BY <2>1 DEF TypeOK
  <2>3. sched.epoch \in Nat /\ sched.unix \in Nat
    BY <2>2
  <2>4. /\ ClockOnGrid /\ sched.epoch <= clock /\ sched.unix <= cursor /\ cursor \in Nat
    BY DrawTypes
  <2> QED
    BY <2>1, <2>3, <2>4 DEF ClockOnGrid
<1>2. \A p \in points : p.at \in Nat /\ cursor <= p.at /\ sched.unix <= p.at
  BY <1>1 DEF StreamInv, PointsInv, IsPoint
<1>3. \A p \in points : EpochAt(p.at) \in Nat
  <2>1. OnGrid(clock)
    BY <1>1 DEF ClockOnGrid
  <2> QED
    BY <1>2, <2>1 DEF OnGrid
<1>4. S \subseteq Nat /\ S # {}
  <2>1. open \subseteq Nat
    BY <1>1 DEF TypeOK, WindowInv
  <2> QED
    BY <1>1, <1>3, <2>1, Zenon DEF IdleUntil
<1>5. m \in S /\ \A y \in S : m <= y
  BY <1>4, Least, Zenon
<1>6. m \in Nat /\ m <= EpochAt(now) /\ \A p \in points : m <= EpochAt(p.at)
  BY <1>4, <1>5, Zenon DEF IdleUntil
<1>7. rate = 0 /\ IdleTarget = Max({clock, m})
  BY <1>1 DEF IdleTarget
<1> HIDE DEF m
<1>8. Max({clock, m}) = m /\ clock < m
  <2> DEFINE T == {clock, m}
  <2>1. T \subseteq Nat /\ T # {}
    BY <1>1, <1>6
  <2>2. clock + m \in Nat /\ \A y \in T : y <= clock + m
    BY <1>1, <1>6
  <2>3. Max(T) \in T /\ \A y \in T : y <= Max(T)
    BY <2>1, <2>2, Greatest, Zenon
  <2> QED
    BY <1>1, <1>6, <1>7, <2>3
<1>9. OnGrid(m)
  BY <1>1, <1>6, <1>8, Grid
<1>10. EpochEnd(clock) <= EpochStart(m)
  BY <1>1, <1>6, <1>8 DEF ClockOnGrid, OnGrid
<1>11. \A p \in points : EpochStart(m) <= p.at
  BY <1>2, <1>6, <1>9 DEF OnGrid
<1> QED
  BY <1>6, <1>7, <1>8, <1>9, <1>10, <1>11, Zenon DEF IdleEnds

\* Nothing is streamed in the epochs that a jump leaves out.
LEMMA IdleStreamsNothing ==
  ASSUME StreamInv, rate = 0, NEW z \in Nat, cursor <= z, \A p \in points : z <= p.at
  PROVE  /\ \A p \in points : p.acc > 0 => p.at > z
         /\ acc = Streamed(z)
<1>1. /\ PointsInv /\ Flows(points, cursor, rate) /\ Exact /\ cursor \in Nat /\ acc \in Nat
      /\ \A p \in points : IsPoint(p)
  BY DEF StreamInv, PointsInv
<1>2. ASSUME NEW p \in points, p.acc > 0 PROVE p.at > z
  <2> SUFFICES ASSUME ~(p.at > z) PROVE FALSE
    OBVIOUS
  <2>1. /\ p.at \in Nat /\ p.at = z /\ p.rate \in Int /\ p.rate < 0
    BY <1>1, <1>2 DEF IsPoint
  <2>2. Closed({p}, points)
    <3> SUFFICES ASSUME NEW s \in points, Paired(s, p) PROVE FALSE
      BY DEF Closed
    <3>1. s.at < p.at /\ s.at \in Nat /\ z <= s.at
      BY <1>1 DEF PointsInv, IsPoint
    <3> QED
      BY <2>1, <3>1
  <2>3. {p} \in SUBSET points /\ z + 1 \in Nat /\ z <= z + 1
    OBVIOUS
  <2>4. rate * ((z + 1) - z) + Flow({p}, z, z + 1) >= 0
    BY <1>1, <2>2, <2>3, Zenon DEF Flows
  <2>5. Flow({p}, z, z + 1) = p.rate * Span(p, z, z + 1)
    BY <1>1, <2>3, FlowFew, Zenon
  <2>6. Span(p, z, z + 1) = 1
    BY <2>1 DEF Span
  <2> QED
    BY <2>1, <2>4, <2>5, <2>6
<1>3. acc = Streamed(z)
  <2>1. IsPoints(points)
    BY <1>1 DEF PointsInv, IsPoints
  <2>2. \A p \in points : z <= p.at /\ (p.acc > 0 => z < p.at)
    BY <1>1, <1>2 DEF IsPoint
  <2>3. Accrued({p \in points : p.at <= z}, cursor, z) = 0
    BY <1>1, <2>1, <2>2, NothingAccrues, Zenon
  <2>4. acc + rate * (z - cursor) + Accrued({p \in points : p.at <= z}, cursor, z) = Streamed(z)
    BY <1>1 DEF Exact, ExactAt
  <2>5. rate * (z - cursor) = 0
    BY <1>1
  <2> QED
    BY <1>1, <2>3, <2>4, <2>5
<1> QED
  BY <1>2, <1>3, Zenon

\* A jump over idle epochs.
LEMMA SkipStep ==
  ASSUME Inv, SkipIdleEpochs
  PROVE  Inv'
<1>1. /\ TypeOK /\ StreamInv /\ ClockInv /\ WindowsDisjoint /\ WindowInv
      /\ PaidInv /\ FedInv /\ SettleInv
  BY DEF Inv
<1> DEFINE k == IdleTarget
<1>2. /\ Advancing /\ clock < k /\ clock' = k /\ advanced' = advanced + 1
      /\ UNCHANGED <<now, phase, sched, cursor, rate, acc, paid, points, epochs, open, settle,
                     tranches, starved, cut, regrids>>
  BY DEF SkipIdleEpochs, stream, books
<1>3. IdleEnds(k)
  BY <1>2, IdleTargetEnds, Zenon
<1> HIDE DEF k
<1>4. /\ clock \in Nat /\ k \in Nat /\ rate = 0 /\ k <= EpochAt(now)
      /\ EpochStart(clock) \in Nat /\ EpochEnd(clock) \in Nat
      /\ EpochStart(clock) < EpochEnd(clock) /\ EpochEnd(clock) <= EpochStart(k)
      /\ EpochStart(k) \in Nat /\ EpochStart(k) < EpochEnd(k) /\ EpochEnd(k) \in Nat
      /\ \A p \in points : EpochStart(k) <= p.at
      /\ sched.epoch <= clock /\ sched.epoch \in Nat /\ sched.unix <= cursor
      /\ cursor <= EpochEnd(clock) /\ cursor \in Nat
  <2>1. /\ ClockOnGrid /\ sched.epoch <= clock /\ sched.unix <= cursor
        /\ cursor <= EpochEnd(clock) /\ cursor \in Nat
    BY DrawTypes, Zenon
  <2>2. sched.epoch \in Nat
    BY <1>1, Zenon DEF TypeOK
  <2> QED
    BY <1>3, <2>1, <2>2 DEF IdleEnds, ClockOnGrid, OnGrid
<1>5. /\ EpochStart(clock)' = EpochStart(k) /\ EpochEnd(clock)' = EpochEnd(k)
      /\ EpochAt(now)' = EpochAt(now)
  BY <1>2, Zenon DEF EpochStart, EpochEnd, EpochAt
<1>6. StreamInv' /\ WindowsDisjoint' /\ PaidInv'
  BY <1>1, <1>2, Zenon DEF StreamInv, PointsInv, Exact, ExactAt, Streamed, WindowsDisjoint, PaidInv
<1>7. TypeOK'
  <2>1. advanced' \in 0..ClosuresPerBlock
    <3>1. /\ advanced \in 0..ClosuresPerBlock /\ advanced < ClosuresPerBlock
          /\ advanced' = advanced + 1 /\ ClosuresPerBlock \in Nat
      BY <1>1, <1>2, StreamAssumption, Zenon DEF TypeOK, Advancing
    <3> QED
      BY <3>1
  <2> QED
    BY <1>1, <1>2, <1>4, <2>1, Zenon DEF TypeOK
<1>8. ClockInv'
  <2>1. sched.epoch <= k /\ k <= EpochAt(now) /\ cursor <= EpochEnd(k)
    BY <1>2, <1>4
  <2> QED
    BY <1>2, <1>4, <1>5, <2>1, Zenon DEF ClockInv
<1>9. WindowInv'
  <2> SUFFICES ASSUME NEW e \in DOMAIN epochs
               PROVE  /\ e \in 0..k /\ epochs[e].start <= EpochStart(k)
                      /\ epochs[e].end <= EpochStart(k) /\ e # k
    BY <1>2, <1>5, Zenon DEF WindowInv
  <2>1. e \in 0..clock /\ epochs[e].start \in Nat /\ epochs[e].end \in Nat
    BY <1>1, Zenon DEF WindowInv, TypeOK
  <2>2. epochs[e].start <= EpochStart(clock)
    BY <1>1, Zenon DEF WindowInv
  <2>3. epochs[e].end <= EpochEnd(clock)
    <3>1. CASE e = clock
      <4>1. epochs[e].end = EpochEnd(clock)
        <5>1. IsEntry(epochs[e], 0, EpochStart(clock), EpochEnd(clock))
          BY <1>1, <3>1, Zenon DEF WindowInv, NewCreatorEpoch, IsEntry
        <5> QED
          BY <5>1, EntryFields, Zenon
      <4> QED
        BY <1>4, <4>1
    <3>2. CASE e # clock
      <4>1. epochs[e].end <= EpochStart(clock)
        <5>1. e < clock
          BY <1>4, <2>1, <3>2
        <5> QED
          BY <1>1, <5>1, Zenon DEF WindowInv
      <4> QED
        BY <1>4, <2>1, <4>1
    <3> QED
      BY <3>1, <3>2, Zenon
  <2> QED
    <3> DEFINE a == epochs[e].start
               b == epochs[e].end
               c == EpochStart(clock)
               d == EpochEnd(clock)
               f == EpochStart(k)
    <3>a. clock \in Nat /\ k \in Nat /\ clock < k /\ e \in 0..clock
      BY <1>2, <1>4, <2>1, Zenon
    <3>b. /\ a \in Nat /\ b \in Nat /\ c \in Nat /\ d \in Nat /\ f \in Nat
          /\ c < d /\ d <= f /\ a <= c /\ b <= d
      BY <1>4, <2>1, <2>2, <2>3, Zenon
    <3>1. e \in 0..k /\ e # k
      BY <3>a
    <3> HIDE DEF a, b, c, d, f
    <3>c. a <= f /\ b <= f
      BY <3>b
    <3>2. epochs[e].start <= EpochStart(k) /\ epochs[e].end <= EpochStart(k)
      BY <3>c, Zenon DEF a, b, f
    <3> QED
      BY <3>1, <3>2, Zenon
<1>10. FedInv'
  <2> SUFFICES ASSUME ~starved
               PROVE  /\ cursor <= EpochStart(k)
                      /\ \A p \in points : p.acc > 0 => p.at > EpochStart(k)
                      /\ acc = Streamed(EpochStart(k))
                      /\ paid = acc \div Scale
    BY <1>2, <1>5, Zenon DEF FedInv, Streamed
  <2>1. cursor <= EpochStart(k) /\ paid = acc \div Scale
    <3>1. cursor <= EpochStart(clock) /\ paid = acc \div Scale
      BY <1>1, Zenon DEF FedInv
    <3>2. cursor <= EpochStart(k)
      BY <1>4, <3>1
    <3> QED
      BY <3>1, <3>2, Zenon
  <2> QED
    BY <1>1, <1>4, <2>1, IdleStreamsNothing, Zenon
<1>11. SettleInv'
  <2>1. \A e \in settle : e < k
    <3> SUFFICES ASSUME NEW e \in settle PROVE e < k
      OBVIOUS
    <3>1. e < clock /\ e \in DOMAIN epochs
      BY <1>1, Zenon DEF SettleInv, TypeOK
    <3>2. e \in 0..clock
      BY <1>1, <3>1, Zenon DEF WindowInv
    <3>3. clock \in Nat /\ k \in Nat /\ clock < k
      BY <1>2, <1>4, Zenon
    <3> QED
      BY <3>1, <3>2, <3>3
  <2> QED
    BY <1>1, <1>2, <2>1, Zenon DEF SettleInv, EpochGetsItsShare, Streamed
<1> QED
  BY <1>6, <1>7, <1>8, <1>9, <1>10, <1>11, Zenon DEF Inv

\* A schedule stays one when time has moved on.
LEMMA RecordsWiden ==
  \A r, A, B, C, D : r \in [epoch: A, unix: B, secs: C] /\ B \subseteq D =>
      r \in [epoch: A, unix: D, secs: C] /\ r.unix \in D
OBVIOUS

\* A block moves time forward and nothing else.
LEMMA BeginStep ==
  ASSUME Inv, NEW t \in now..MaxTime, BeginBlock(t)
  PROVE  Inv'
<1>1. /\ TypeOK /\ StreamInv /\ ClockInv /\ WindowsDisjoint /\ WindowInv
      /\ PaidInv /\ FedInv /\ SettleInv
  BY DEF Inv
<1>2. /\ now' = t /\ phase' = "clock" /\ advanced' = 0
      /\ UNCHANGED <<clock, sched, cursor, rate, acc, paid, points, epochs, open, settle,
                     tranches, starved, cut, regrids>>
  BY DEF BeginBlock, stream, books
<1>3. /\ now \in Nat /\ now \in 0..MaxTime /\ t \in Nat /\ now <= t /\ t <= MaxTime /\ t \in 0..MaxTime
  <2>1. now \in 0..MaxTime /\ MaxTime \in Nat
    BY <1>1, StreamAssumption, Zenon DEF TypeOK
  <2> QED
    BY <2>1
<1>4. StreamInv' /\ WindowsDisjoint' /\ WindowInv' /\ PaidInv' /\ FedInv' /\ SettleInv'
  BY <1>1, <1>2, Zenon DEF StreamInv, PointsInv, Exact, ExactAt, Streamed, WindowsDisjoint, WindowInv,
                    PaidInv, FedInv, SettleInv, EpochGetsItsShare, EpochStart, EpochEnd,
                    NewCreatorEpoch
<1>5. sched \in [epoch: Nat, unix: 0..now, secs: EpochLengths] /\ cursor \in 0..now
  BY <1>1 DEF TypeOK
<1>6. sched \in [epoch: Nat, unix: 0..t, secs: EpochLengths] /\ cursor \in 0..t
      /\ sched.unix \in Nat /\ sched.unix <= t
  <2>1. 0..now \subseteq 0..t /\ 0..now \subseteq Nat
    BY <1>3
  <2>2. /\ sched \in [epoch: Nat, unix: 0..t, secs: EpochLengths] /\ cursor \in 0..t
        /\ sched.unix \in 0..t
    BY <1>5, <2>1, RecordsWiden, Zenon
  <2> QED
    BY <1>3, <2>2
<1>7. TypeOK'
  <2>1. 0 \in 0..ClosuresPerBlock
    BY StreamAssumption
  <2> QED
    BY <1>1, <1>2, <1>3, <1>6, <2>1, Zenon DEF TypeOK
<1>8. ClockInv'
  <2>1. OnGrid(clock) /\ EpochStart(clock) <= now /\ EpochStart(clock) \in Nat
    BY DrawTypes, Zenon DEF ClockOnGrid
  <2>2. clock <= EpochAt(t)
    BY <1>3, <1>6, <2>1 DEF OnGrid
  <2>3. EpochAt(now)' = EpochAt(t)
    BY <1>2 DEF EpochAt
  <2> QED
    BY <1>1, <1>2, <2>2, <2>3, Zenon DEF ClockInv, EpochEnd, EpochStart
<1> QED
  BY <1>4, <1>7, <1>8 DEF Inv

\* A settlement that its budget cuts short is on the way to the boundary.
LEMMA ResumeStep ==
  ASSUME Inv, ResumeNextBlock
  PROVE  Inv'
<1> DEFINE b == EpochEnd(clock)
<1>1. /\ TypeOK /\ StreamInv /\ ClockInv /\ WindowsDisjoint /\ WindowInv
      /\ PaidInv /\ FedInv /\ SettleInv
  BY DEF Inv
<1>2. /\ Advancing /\ Reached(b) < b /\ SettleCreatorStream(b) /\ phase' = "tx"
      /\ UNCHANGED <<now, advanced, clock, sched, paid, epochs, open, settle, tranches, cut, regrids>>
  BY DEF ResumeNextBlock, books
<1>3. /\ acc' = SettledAcc(b) /\ cursor' = Reached(b) /\ starved' = (starved \/ Exhausted(b))
  BY <1>2 DEF SettleCreatorStream
<1>4. /\ cursor \in Nat /\ b \in Nat /\ cursor <= b /\ b <= now /\ now \in Nat
      /\ sched.unix <= cursor /\ sched.unix \in Nat
  <2>1. /\ ClockOnGrid /\ cursor \in Nat /\ cursor <= b /\ sched.unix <= cursor
    BY DrawTypes, Zenon
  <2>2. clock < EpochAt(now) /\ sched.unix \in Nat
    <3>1. clock < EpochAt(now) /\ sched.unix \in 0..now /\ now \in 0..MaxTime
      BY <1>1, <1>2, Zenon DEF Advancing, TypeOK
    <3> QED
      BY <3>1
  <2> QED
    BY <2>1, <2>2 DEF ClockOnGrid
<1>5. b' = b /\ EpochAt(now)' = EpochAt(now) /\ EpochStart(clock)' = EpochStart(clock)
  BY <1>2 DEF EpochStart, EpochEnd, EpochAt
<1> HIDE DEF b
<1>6. StreamInv'
  BY <1>1, <1>2, <1>4, SettleKeeps, Zenon
<1>7. /\ Reached(b) \in Nat /\ cursor <= Reached(b) /\ Exhausted(b)
      /\ SettledAcc(b) \in Nat /\ acc <= SettledAcc(b)
  <2>1. Forwards(b)
    BY <1>1, <1>4, SettlesForwards
  <2>2. Reached(b) # b
    BY <1>2, <1>4
  <2> QED
    BY <2>1, <2>2 DEF Forwards, SettlesWell
<1>8. starved'
  BY <1>3, <1>7, Zenon
<1>9. TypeOK'
  <2>1. /\ rate' \in Nat /\ acc' \in Nat
        /\ \A p \in points' : p.at \in Nat /\ p.key \in Nat /\ p.rate \in Int /\ p.acc \in Nat
    BY <1>6 DEF StreamInv, PointsInv, IsPoint
  <2>2. cursor' \in 0..now'
    BY <1>2, <1>3, <1>4, <1>7
  <2> QED
    BY <1>1, <1>2, <1>8, <2>1, <2>2, Zenon DEF TypeOK
<1>10. ClockInv'
  <2>1. sched'.unix <= cursor' /\ cursor' <= b
    BY <1>2, <1>3, <1>4, <1>7
  <2> QED
    BY <1>1, <1>2, <1>5, <2>1, Zenon DEF ClockInv, b
<1>11. WindowsDisjoint' /\ WindowInv'
  BY <1>1, <1>2, Zenon DEF WindowsDisjoint, WindowInv, NewCreatorEpoch, EpochStart, EpochEnd
<1>12. PaidInv'
  <2>1. paid * Scale <= acc' /\ paid' = paid /\ epochs' = epochs
    <3>1. paid * Scale <= acc /\ paid \in Nat /\ acc \in Nat
      BY <1>1, Zenon DEF PaidInv, TypeOK
    <3>2. paid * Scale \in Nat
      BY <3>1, StreamAssumption
    <3>3. paid * Scale <= SettledAcc(b)
      BY <1>7, <3>1, <3>2
    <3> QED
      BY <1>2, <1>3, <3>3, Zenon
  <2> QED
    BY <1>1, <2>1, Zenon DEF PaidInv
<1>13. FedInv' /\ SettleInv'
  BY <1>1, <1>2, <1>8, Zenon DEF FedInv, SettleInv, EpochGetsItsShare
<1> QED
  BY <1>6, <1>9, <1>10, <1>11, <1>12, <1>13, Zenon DEF Inv

\* What only ends the block, or changes nothing, keeps the invariant.
LEMMA RestStep ==
  ASSUME Inv, EndAdvance \/ UNCHANGED vars
  PROVE  Inv'
<1>1. /\ TypeOK /\ StreamInv /\ ClockInv /\ WindowsDisjoint /\ WindowInv
      /\ PaidInv /\ FedInv /\ SettleInv
  BY Zenon DEF Inv
<1>2. /\ phase' \in {"tx", "clock"}
      /\ UNCHANGED <<now, advanced, clock, sched, cursor, rate, acc, paid, points, epochs, open,
                     settle, tranches, starved, cut, regrids>>
  BY <1>1, Zenon DEF EndAdvance, vars, stream, books, TypeOK
<1>3. TypeOK'
  BY <1>1, <1>2, Zenon DEF TypeOK
<1>4. StreamInv' /\ WindowsDisjoint' /\ PaidInv'
  BY <1>1, <1>2, Zenon DEF StreamInv, PointsInv, Exact, ExactAt, Streamed, WindowsDisjoint, PaidInv
<1>5. ClockInv' /\ WindowInv' /\ FedInv' /\ SettleInv'
  BY <1>1, <1>2, Zenon DEF ClockInv, WindowInv, FedInv, SettleInv, EpochGetsItsShare, Streamed,
                    EpochStart, EpochEnd, EpochAt, NewCreatorEpoch
<1> QED
  BY <1>3, <1>4, <1>5 DEF Inv

\* The invariant holds where the v1.39 migration leaves the stream.
LEMMA InitInv == Init => Inv
<1> SUFFICES ASSUME Init PROVE Inv
  OBVIOUS
<1>1. /\ now = InitialLength /\ phase = "tx" /\ advanced = 0 /\ clock = 1
      /\ sched = [epoch |-> 0, unix |-> 0, secs |-> InitialLength]
      /\ cursor = now /\ rate = 0 /\ acc = 0 /\ paid = 0 /\ points = {}
      /\ DOMAIN epochs = {} /\ open = {} /\ settle = {}
      /\ tranches = {} /\ starved = FALSE /\ cut = {} /\ regrids = 0
  BY DEF Init
<1>2. /\ InitialLength \in Nat \ {0} /\ InitialLength \in EpochLengths /\ InitialLength <= MaxTime
      /\ MaxTime \in Nat /\ ClosuresPerBlock \in Nat /\ MaxRegrids \in Nat
      /\ Scale \in Nat \ {0}
  BY StreamAssumption, Zenon
<1>3. TypeOK
  <2>1. /\ now \in 0..MaxTime /\ advanced \in 0..ClosuresPerBlock /\ clock \in Nat
        /\ cursor \in 0..now /\ regrids \in 0..MaxRegrids /\ 0 \in 0..now
    <3>1. now = InitialLength /\ advanced = 0 /\ clock = 1 /\ cursor = now /\ regrids = 0
      BY <1>1, Zenon
    <3> QED
      BY <1>2, <3>1
  <2>2. sched \in [epoch: Nat, unix: 0..now, secs: EpochLengths]
    BY <1>1, <1>2, <2>1, Zenon
  <2> QED
    BY <1>1, <2>1, <2>2, Zenon DEF TypeOK
<1>4. /\ EpochStart(clock) = InitialLength /\ EpochEnd(clock) = 2 * InitialLength
      /\ EpochAt(now) = 1
  <2>1. /\ EpochStart(clock) = 0 + (1 - 0) * InitialLength
        /\ EpochEnd(clock) = 0 + ((1 + 1) - 0) * InitialLength
        /\ EpochAt(now) = 0 + (InitialLength - 0) \div InitialLength
    BY <1>1 DEF EpochStart, EpochEnd, EpochAt
  <2>2. InitialLength \div InitialLength = 1
    <3>1. 1 * InitialLength <= InitialLength /\ 1 \in Int
      BY <1>2
    <3>2. /\ InitialLength \div InitialLength \in Nat /\ 1 <= InitialLength \div InitialLength
          /\ (InitialLength \div InitialLength) * InitialLength <= InitialLength
      BY <1>2, <3>1, Quotient
    <3> DEFINE q == InitialLength \div InitialLength
    <3> HIDE DEF q
    <3>3. ASSUME 2 <= q, q \in Nat PROVE 2 * InitialLength <= q * InitialLength
      BY <1>2, <3>3, TimesMonotone
    <3>4. q = 1
      BY <1>2, <3>2, <3>3 DEF q
    <3> QED
      BY <3>4 DEF q
  <2> QED
    BY <1>2, <2>1, <2>2
<1>5. ClockInv
  <2>1. sched.epoch = 0 /\ sched.unix = 0
    BY <1>1
  <2>2. clock = 1 /\ cursor = InitialLength
    BY <1>1, Zenon
  <2> QED
    BY <1>2, <1>4, <2>1, <2>2 DEF ClockInv
<1>6. \A g : DOMAIN g = {} => SumFunction(g) = 0
  BY SumEmpty, Zenon DEF SumFunction
<1>7. \A t : Streamed(t) = 0
  BY <1>1, <1>6, Zenon DEF Streamed
<1>8. StreamInv
  <2>1. PointsInv
    BY <1>1, FS_EmptySet DEF PointsInv
  <2>2. Flows(points, cursor, rate)
    <3> SUFFICES ASSUME NEW D \in SUBSET {}, NEW c \in Nat, NEW t \in Nat, c <= t
                 PROVE  0 * (t - c) + Flow(D, c, t) >= 0
      BY <1>1 DEF Flows
    <3>1. D = {}
      OBVIOUS
    <3>2. Flow({}, c, t) = 0
      BY FlowFew, Zenon
    <3> QED
      BY <3>1, <3>2
  <2>3. Exact
    <3> SUFFICES ASSUME NEW t \in Nat, cursor <= t PROVE ExactAt(t)
      BY Zenon DEF Exact
    <3>1. {p \in points : p.at <= t} = {}
      <4>1. points = {}
        BY <1>1, Zenon
      <4> QED
        BY <4>1, Zenon
    <3>2. Accrued({}, cursor, t) = 0
      BY <1>6, Zenon DEF Accrued
    <3> QED
      <4>1. acc + rate * (t - cursor) + 0 = 0
        BY <1>1, <1>2
      <4> QED
        BY <1>7, <3>1, <3>2, <4>1, Zenon DEF ExactAt
  <2> QED
    BY <1>1, <1>2, <2>1, <2>2, <2>3, Zenon DEF StreamInv
<1>9. WindowsDisjoint /\ WindowInv /\ SettleInv
  BY <1>1, Zenon DEF WindowsDisjoint, WindowInv, SettleInv, EpochGetsItsShare
<1>10. PaidInv
  <2>1. Pools(epochs) = 0
    BY <1>1, <1>6, Zenon DEF Pools
  <2>2. paid * Scale <= acc
    BY <1>1, <1>2
  <2>3. IsFiniteSet(DOMAIN epochs)
    BY <1>1, FS_EmptySet, Zenon
  <2> QED
    BY <1>1, <2>1, <2>2, <2>3, Zenon DEF PaidInv
<1>11. FedInv
  <2>1. 0 \div Scale = 0 /\ InitialLength <= InitialLength
    BY <1>2
  <2>2. cursor = InitialLength /\ EpochStart(clock) = InitialLength
    BY <1>1, <1>4, Zenon
  <2>3. points = {} /\ acc = 0 /\ paid = 0
    BY <1>1, Zenon
  <2> QED
    BY <1>7, <2>1, <2>2, <2>3, Zenon DEF FedInv
<1> QED
  BY <1>3, <1>5, <1>8, <1>9, <1>10, <1>11 DEF Inv

-----------------------------------------------------------------------------
(* What is proved.                                                         *)

\* Every transaction and every step of BeginBlock keeps the invariant.
THEOREM StreamInvariant == Spec => []Inv
<1>1. Init => Inv
  BY InitInv
<1>2. Inv /\ [Next]_vars => Inv'
  <2> SUFFICES ASSUME Inv, [Next]_vars PROVE Inv'
    OBVIOUS
  <2>1. CASE Transaction
    BY <2>1, BookStep, EngageStep, RegridStep, Zenon DEF Transaction
  <2>2. CASE Block
    BY <2>2, BeginStep, SkipStep, VisitStep, ResumeStep, RestStep, Zenon DEF Block
  <2>3. CASE UNCHANGED vars
    BY <2>3, RestStep
  <2> QED
    BY <2>1, <2>2, <2>3 DEF Next
<1> QED
  BY <1>1, <1>2, PTL DEF Spec

\* The variables keep their types: in particular the cursor never passes block
\* time, and the rate, the accumulator and the paid total are never negative.
THEOREM StreamTypes == Spec => []TypeOK
<1>1. Inv => TypeOK
  BY DEF Inv
<1> QED
  BY <1>1, StreamInvariant, PTL

\* The accumulator holds at every later instant what the tranches have produced
\* (SettleCreatorStream), whatever the budgets and the changes of the grid.
THEOREM AccumulatorIsExact == Spec => []StreamExact
<1>1. Inv => StreamExact
  <2> SUFFICES ASSUME Inv, NEW length \in Durations,
                      NEW t \in cursor..MaxTime + MaxLead + length
               PROVE  ExactAt(t)
    BY DEF StreamExact
  <2>1. cursor \in Nat /\ Exact
    BY DEF Inv, StreamInv
  <2>2. t \in Nat /\ cursor <= t
    <3>1. length \in Nat /\ MaxTime \in Nat /\ MaxLead \in Nat
      BY StreamAssumption
    <3> QED
      BY <2>1, <3>1
  <2> QED
    BY <2>1, <2>2 DEF Exact
<1> QED
  BY <1>1, StreamInvariant, PTL

\* advanceCreatorClock never returns an error: a draw at a boundary finds the
\* stream, the paid total and the clock where they may go on.
THEOREM ClockAdvances == Spec => []AdvanceSucceeds
<1>1. Inv => AdvanceSucceeds
  <2> SUFFICES ASSUME Inv PROVE clock <= EpochAt(now) /\ ~DrawFails(EpochEnd(clock))
    BY DEF AdvanceSucceeds
  <2>1. /\ StreamInv /\ paid \in Nat /\ paid * Scale <= acc /\ ClockOnGrid
        /\ cursor <= EpochEnd(clock) /\ clock <= EpochAt(now)
    BY DrawTypes
  <2>2. EpochEnd(clock) \in Nat
    BY <2>1 DEF ClockOnGrid
  <2> QED
    BY <2>1, <2>2, DrawSucceeds
<1> QED
  BY <1>1, StreamInvariant, PTL

\* A settled epoch holds the whole tokens of its own window, while budgets
\* suffice and the clock was not cut off behind time.
THEOREM EpochsGetTheirShare == Spec => []EpochGetsItsShare
<1>1. Inv => EpochGetsItsShare
  BY DEF Inv, SettleInv
<1> QED
  BY <1>1, StreamInvariant, PTL

\* The windows of epoch records do not overlap, across changes of the length.
THEOREM WindowsAreDisjoint == Spec => []WindowsDisjoint
<1>1. Inv => WindowsDisjoint
  BY Zenon DEF Inv
<1> QED
  BY <1>1, StreamInvariant, PTL

\* Once every tranche has elapsed the pools add up to the creators' shares to
\* the last token, while budgets suffice.
THEOREM ElapsedSharesAreDistributed == Spec => []ElapsedIsDistributed
<1>1. Inv => ElapsedIsDistributed
  <2> SUFFICES ASSUME Inv, AllElapsed, ~starved PROVE Pools(epochs) = Total
    BY Zenon DEF ElapsedIsDistributed, Pools
  <2> DEFINE z == EpochStart(clock)
             f == [tr \in tranches |-> Produced(tr, z)]
             g == [tr \in tranches |-> tr.share]
  <2>1. /\ paid = Pools(epochs) /\ paid = acc \div Scale /\ acc = Streamed(z)
        /\ IsFiniteSet(tranches) /\ \A tr \in tranches : IsTranche(tr) /\ tr.end <= z
    BY Zenon DEF Inv, PaidInv, FedInv, StreamInv, PointsInv, AllElapsed
  <2>2. z \in Nat /\ Scale \in Nat \ {0}
    BY DrawTypes, StreamAssumption DEF ClockOnGrid
  <2>3. Streamed(z) = SumFunction(f) /\ Total = SumFunction(g)
    BY DEF Streamed, Total
  <2> HIDE DEF z
  <2>4. \A tr \in tranches : g[tr] \in Int /\ g[tr] \in Nat /\ f[tr] = Scale * g[tr]
    <3> SUFFICES ASSUME NEW tr \in tranches
                 PROVE  tr.share \in Nat /\ Produced(tr, z) = Scale * tr.share
      OBVIOUS
    <3>1. tr.share \in Nat /\ tr.end \in Nat /\ z >= tr.end
      BY <2>1, <2>2 DEF IsTranche
    <3>2. Produced(tr, z) = tr.share * Scale
      BY <3>1 DEF Produced
    <3> QED
      BY <2>2, <3>1, <3>2
  <2>5. DOMAIN f = tranches /\ DOMAIN g = tranches
    OBVIOUS
  <2> HIDE DEF f, g
  <2>6. SumFunction(f) = Scale * SumFunction(g)
    <3>1. Scale \in Int
      BY <2>2
    <3>2. IsFiniteSet(tranches)
      BY <2>1, Zenon
    <3> QED
      BY <2>4, <2>5, <3>1, <3>2, MultipleSum
  <2>7. SumFunction(g) \in Nat
    BY <2>1, <2>4, <2>5, SumNatural DEF SumFunction
  <2> QED
    BY <2>1, <2>2, <2>3, <2>6, <2>7, QuotientExact, Zenon
<1> QED
  BY <1>1, StreamInvariant, PTL
=============================================================================
