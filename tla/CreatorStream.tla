---------------------------- MODULE CreatorStream ----------------------------
(***************************************************************************)
(* How the creators' share of subscription fees becomes the pools of       *)
(* creator epochs.  A tranche adds two breakpoints to an accumulator: its  *)
(* rate starts at one and stops at the other.  BeginBlock walks the        *)
(* creator clock over the epoch boundaries that block time has passed,     *)
(* draws the whole tokens accumulated up to each one and closes the epoch. *)
(* Governance may change the length of an epoch at any time.               *)
(*                                                                         *)
(* The stream is modelled as anchored, as the v1.39 migration leaves it.   *)
(* The two writers of engagements differ in what they record, which is the *)
(* input of settlement; here both are Engage, which opens an epoch.        *)
(***************************************************************************)
EXTENDS Integers, FiniteSets, Functions, FiniteSetsExt, Breakpoints

CONSTANTS
    Scale,             \* scaled units per token, 10^18 in the code
    EpochLengths,      \* values governance may give creator_epoch_seconds
    InitialLength,     \* its first value
    ClosuresPerBlock,  \* creator_epoch_closures_per_block
    RecordsPerBlock,   \* creator_settlement_records_per_block
    Shares,            \* creator amounts of tranches
    Durations,         \* lengths of tranches
    MaxLead,           \* bound on how far ahead a tranche starts
    MaxTranches,       \* bound on the number of tranches
    MaxRegrids,        \* bound on the changes of the epoch length
    MaxTime,           \* bound on block time
    MaxGap             \* bound on the time between two blocks

\* A tranche lasts fewer seconds than a token has scaled units, so that a share
\* that is not zero streams at a rate that is not zero.
ASSUME StreamAssumption ==
    /\ Scale \in Nat \ {0}
    /\ EpochLengths \subseteq Nat \ {0} /\ InitialLength \in EpochLengths
    /\ ClosuresPerBlock \in Nat \ {0} /\ RecordsPerBlock \in Nat \ {0}
    /\ Shares \subseteq Nat /\ Durations \subseteq 1..Scale
    /\ MaxLead \in Nat /\ MaxTranches \in Nat /\ MaxRegrids \in Nat
    /\ MaxTime \in Nat /\ InitialLength <= MaxTime /\ MaxGap \in Nat

VARIABLES
    now,       \* block time
    phase,     \* "tx", or "clock" while BeginBlock advances the clock
    advanced,  \* iterations of advanceCreatorClock in this block
    clock,     \* the creator clock: the epoch that collects engagements
    sched,     \* CreatorSchedule
    cursor, rate, acc, paid,  \* the accumulator
    points,    \* pending breakpoints
    epochs,    \* CreatorEpoch records, by id
    open,      \* index of open epochs
    settle,    \* index of epochs in settlement
    tranches,  \* history: every tranche booked
    starved,   \* history: a draw used up its budget of breakpoints
    cut,       \* history: epochs a change of length closed behind time
    regrids    \* number of changes of the epoch length

stream == <<cursor, rate, acc, paid, points>>
books == <<epochs, open, settle>>
vars == <<now, phase, advanced, clock, sched, stream, books,
          tranches, starved, cut, regrids>>

TypeOK ==
    /\ now \in 0..MaxTime /\ phase \in {"tx", "clock"}
    /\ advanced \in 0..ClosuresPerBlock
    /\ clock \in Nat /\ starved \in BOOLEAN
    /\ sched \in [epoch: Nat, unix: 0..now, secs: EpochLengths]
    /\ cursor \in 0..now /\ rate \in Nat /\ acc \in Nat /\ paid \in Nat
    /\ \A p \in points : p.at \in Nat /\ p.key \in Nat /\ p.rate \in Int /\ p.acc \in Nat
    /\ open \subseteq DOMAIN epochs /\ settle \subseteq DOMAIN epochs
    /\ \A e \in DOMAIN epochs : epochs[e] \in [pool: Nat, start: Nat, end: Nat]
    /\ cut \subseteq settle
    /\ regrids \in 0..MaxRegrids

Init ==
    /\ now = InitialLength /\ phase = "tx" /\ advanced = 0
    /\ clock = 1
    /\ sched = [epoch |-> 0, unix |-> 0, secs |-> InitialLength]
    /\ cursor = now /\ rate = 0 /\ acc = 0 /\ paid = 0 /\ points = {}
    /\ epochs = [e \in {} |-> 0] /\ open = {} /\ settle = {}
    /\ tranches = {} /\ starved = FALSE /\ cut = {} /\ regrids = 0
-----------------------------------------------------------------------------
(***************************************************************************)
(* CreatorSchedule: the grid of epochs.                                    *)
(***************************************************************************)
EpochAt(t) == sched.epoch + (t - sched.unix) \div sched.secs
EpochStart(e) == sched.unix + (e - sched.epoch) * sched.secs

\* Mutant of EpochEnd: an epoch is one too long.
EpochEndLate(e) == EpochStart(e + 2)
EpochEnd(e) == EpochStart(e + 1)
-----------------------------------------------------------------------------
(***************************************************************************)
(* The accumulator.  A settlement up to an instant applies the breakpoints *)
(* due by then in the order of their keys, at most RecordsPerBlock of      *)
(* them; if that many are due it stops at the last one applied.            *)
(***************************************************************************)
Due(upto) ==
    LET all == {p \in points : p.at <= upto}
    IN  IF upto = cursor THEN {}
        ELSE {p \in all : Cardinality({q \in all : Before(q, p)}) < RecordsPerBlock}

Exhausted(upto) == Cardinality(Due(upto)) = RecordsPerBlock

\* Mutant of Reached: integrate to the boundary whatever the budget left out.
ReachedAll(upto) == upto
Reached(upto) ==
    IF Exhausted(upto) THEN Max({cursor} \cup {p.at : p \in Due(upto)}) ELSE upto

\* The rate after the breakpoints up to p.
RateAt(p, due) == rate + RateOf({q \in due : q = p \/ Before(q, p)})

SettledRate(upto) == rate + RateOf(Due(upto))
SettledAcc(upto) ==
    LET r == Reached(upto)
    IN  acc + rate * (r - cursor) + Accrued(Due(upto), cursor, r)

Earned(upto) == SettledAcc(upto) \div Scale

\* The conditions under which a draw fails as CONSENSUS_FATAL: the stream or
\* the paid total would run backwards, or the rate becomes negative.
DrawFails(upto) ==
    \/ upto < cursor
    \/ \E p \in Due(upto) : RateAt(p, Due(upto)) < 0
    \/ Reached(upto) = upto /\ Earned(upto) < paid

\* Mutant of SettleCreatorStream: the work of a settlement cut short is lost.
SettleAllOrNothing(upto) ==
    LET done == Reached(upto) = upto
    IN  /\ rate' = IF done THEN SettledRate(upto) ELSE rate
        /\ acc' = IF done THEN SettledAcc(upto) ELSE acc
        /\ cursor' = IF done THEN upto ELSE cursor
        /\ points' = IF done THEN points \ Due(upto) ELSE points
        /\ starved' = (starved \/ Exhausted(upto))
SettleCreatorStream(upto) ==
    /\ rate' = SettledRate(upto)
    /\ acc' = SettledAcc(upto)
    /\ cursor' = Reached(upto)
    /\ points' = points \ Due(upto)
    /\ starved' = (starved \/ Exhausted(upto))

\* A complete draw; Earned(upto) - paid tokens go to the caller.
DrawCreatorStream(upto) ==
    /\ Reached(upto) = upto
    /\ SettleCreatorStream(upto)
    /\ paid' = Earned(upto)
-----------------------------------------------------------------------------
(***************************************************************************)
(* Epoch records.                                                          *)
(***************************************************************************)
NewCreatorEpoch(e) == [pool |-> 0, start |-> EpochStart(e), end |-> EpochEnd(e)]
Record(e) == IF e \in DOMAIN epochs THEN epochs[e] ELSE NewCreatorEpoch(e)
With(e, record) ==
    [x \in DOMAIN epochs \cup {e} |-> IF x = e THEN record ELSE epochs[x]]

AddEpochPool(e, amount) ==
    LET r == Record(e)
    IN  With(e, [pool |-> r.pool + amount, start |-> r.start, end |-> r.end])

\* Mutant of Truncated: an epoch cut short keeps the end it was born with.
TruncatedNever(book, e, at) == book
\* truncateCreatorEpochEnd: an epoch cut short ends where it stopped accruing.
Truncated(book, e, at) ==
    IF e \in DOMAIN book /\ book[e].end > at
    THEN [book EXCEPT ![e] = [pool |-> book[e].pool, start |-> book[e].start, end |-> at]]
    ELSE book

\* The records once epoch e has received what a draw up to `upto' yields.
Funded(e, upto) ==
    IF Earned(upto) > paid THEN AddEpochPool(e, Earned(upto) - paid) ELSE epochs

\* The epoch moves to settlement.  An epoch with neither money nor engagement
\* has no record and is skipped.
CloseCreatorEpoch(e, upto) ==
    /\ open' = open \ {e}
    /\ settle' = IF Earned(upto) > paid \/ e \in open THEN settle \cup {e} ELSE settle
-----------------------------------------------------------------------------
(***************************************************************************)
(* Transactions.                                                           *)
(***************************************************************************)
InTx == phase = "tx"

\* Mutant of Breakpoints: the floored rate is all a tranche pays.
BreakpointsFloored(id, share, start, end) ==
    LET r == (share * Scale) \div (end - start)
    IN  {[at |-> start, key |-> 2 * id, rate |-> r, acc |-> 0],
         [at |-> end, key |-> 2 * id + 1, rate |-> -r, acc |-> 0]}
\* What the floored rate leaves out comes with the second breakpoint.
Breakpoints(id, share, start, end) ==
    LET scaled == share * Scale
        r == scaled \div (end - start)
    IN  {[at |-> start, key |-> 2 * id, rate |-> r, acc |-> 0],
         [at |-> end, key |-> 2 * id + 1, rate |-> -r,
          acc |-> scaled - r * (end - start)]}

\* CreateTranche books the creators' share of a subscription that starts now
\* or, for an extension, at the expiry it extends.
ScheduleCreatorStreamTranche(share, start, length) ==
    LET id == Cardinality(tranches) + 1
    IN  /\ InTx /\ id <= MaxTranches
        /\ points' = IF share = 0 THEN points
                     ELSE points \cup Breakpoints(id, share, start, start + length)
        /\ tranches' = tranches \cup
              {[id |-> id, share |-> share, start |-> start, end |-> start + length]}
        /\ UNCHANGED <<now, phase, advanced, clock, sched, cursor, rate, acc,
                       paid, books, starved, cut, regrids>>

\* RecordUpvoteEngagement and RecordDirectReplyEngagement open the epoch of the
\* creator clock.
Engage ==
    /\ InTx
    /\ epochs' = With(clock, Record(clock))
    /\ open' = open \cup {clock}
    /\ UNCHANGED <<now, phase, advanced, clock, sched, stream, settle,
                   tranches, starved, cut, regrids>>

\* Mutant of Regridded: the new grid is counted from time zero.
RegriddedFromZero(secs) == [epoch |-> 0, unix |-> 0, secs |-> secs]
\* The new grid opens now, at the next id.
Regridded(secs) == [epoch |-> clock + 1, unix |-> now, secs |-> secs]

\* UpdateParams with a new creator_epoch_seconds: the epoch in flight is paid
\* and closed, and a new grid starts.
ApplyCreatorEpochSeconds(secs) ==
    /\ InTx /\ regrids < MaxRegrids
    /\ secs # sched.secs
    /\ ~DrawFails(now)
    /\ DrawCreatorStream(now)
    /\ epochs' = Truncated(Funded(clock, now), clock, now)
    /\ CloseCreatorEpoch(clock, now)
    /\ sched' = Regridded(secs)
    /\ clock' = clock + 1
    /\ cut' = IF clock \in settle' /\ clock < EpochAt(now) THEN cut \cup {clock} ELSE cut
    /\ regrids' = regrids + 1
    /\ UNCHANGED <<now, phase, advanced, tranches>>
-----------------------------------------------------------------------------
(***************************************************************************)
(* BeginBlock.                                                             *)
(***************************************************************************)
BeginBlock(t) ==
    /\ InTx
    /\ now' = t /\ phase' = "clock" /\ advanced' = 0
    /\ UNCHANGED <<clock, sched, stream, books, tranches, starved, cut, regrids>>

\* Mutant of IdleUntil: an idle stream is taken to stay idle.
IdleUntilTarget == {}
\* Where the next breakpoint stops a jump over idle epochs.
IdleUntil == {EpochAt(p.at) : p \in points}

\* idleCreatorClockTarget: how far the clock may jump while nothing streams.
IdleTarget ==
    IF rate # 0 THEN clock
    ELSE Max({clock, Min({EpochAt(now)} \cup IdleUntil \cup open)})

Advancing ==
    /\ phase = "clock"
    /\ clock < EpochAt(now) /\ advanced < ClosuresPerBlock

SkipIdleEpochs ==
    /\ Advancing
    /\ clock < IdleTarget
    /\ clock' = IdleTarget
    /\ advanced' = advanced + 1
    /\ UNCHANGED <<now, phase, sched, stream, books, tranches, starved, cut, regrids>>

VisitBoundary ==
    LET boundary == EpochEnd(clock)
    IN  /\ Advancing /\ clock = IdleTarget
        /\ ~DrawFails(boundary)
        /\ DrawCreatorStream(boundary)
        /\ epochs' = Funded(clock, boundary)
        /\ CloseCreatorEpoch(clock, boundary)
        /\ clock' = clock + 1
        /\ advanced' = advanced + 1
        /\ UNCHANGED <<now, phase, sched, tranches, cut, regrids>>

\* The budget of breakpoints does not reach the boundary: resume next block.
ResumeNextBlock ==
    LET boundary == EpochEnd(clock)
    IN  /\ Advancing /\ clock = IdleTarget
        /\ ~DrawFails(boundary)
        /\ Reached(boundary) < boundary
        /\ SettleCreatorStream(boundary)
        /\ phase' = "tx"
        /\ UNCHANGED <<now, advanced, clock, sched, paid, books, tranches,
                       cut, regrids>>

EndAdvance ==
    /\ phase = "clock"
    /\ clock = EpochAt(now) \/ (clock < EpochAt(now) /\ advanced = ClosuresPerBlock)
    /\ phase' = "tx"
    /\ UNCHANGED <<now, advanced, clock, sched, stream, books, tranches,
                   starved, cut, regrids>>

Transaction ==
    \/ \E share \in Shares, start \in now..now + MaxLead, length \in Durations :
          ScheduleCreatorStreamTranche(share, start, length)
    \/ Engage
    \/ \E secs \in EpochLengths : ApplyCreatorEpochSeconds(secs)

Block ==
    \/ \E t \in now..MaxTime : t <= now + MaxGap /\ BeginBlock(t)
    \/ SkipIdleEpochs
    \/ VisitBoundary
    \/ ResumeNextBlock
    \/ EndAdvance

Next == Transaction \/ Block
Spec == Init /\ [][Next]_vars
\* Consensus keeps producing blocks, and BeginBlock is a terminating loop.
FairSpec == Spec /\ WF_vars(Block)
-----------------------------------------------------------------------------
(***************************************************************************)
(* Properties.                                                             *)
(***************************************************************************)
\* Reference definition: the scaled units a tranche has produced by t, each
\* second at its floored rate and the remainder at its end.
Produced(tr, t) ==
    LET scaled == tr.share * Scale
        r == scaled \div (tr.end - tr.start)
    IN  IF t >= tr.end THEN scaled
        ELSE IF t > tr.start THEN r * (t - tr.start) ELSE 0
\* What all tranches have produced by t.
Streamed(t) == SumFunction([tr \in tranches |-> Produced(tr, t)])

\* The accumulator integrated to t, with the breakpoints on the way.
ExactAt(t) ==
    acc + rate * (t - cursor) + Accrued({p \in points : p.at <= t}, cursor, t) = Streamed(t)
\* The accumulator is exact: integrated from any reachable state to any later
\* instant, with all breakpoints on the way, it holds what the tranches have
\* produced by then, however settlements were cut by the budget, boundaries
\* were skipped and the grid was changed (SettleCreatorStream).
StreamExact ==
    \A length \in Durations : \A t \in cursor..MaxTime + MaxLead + length : ExactAt(t)

\* BeginBlock never returns an error of advanceCreatorClock: neither the clock,
\* the stream nor the paid total runs backwards, and the rate stays positive.
AdvanceSucceeds ==
    phase = "clock" =>
        /\ clock <= EpochAt(now)
        /\ Advancing /\ clock = IdleTarget => ~DrawFails(EpochEnd(clock))

\* No epoch is paid for another's time: while budgets suffice and the clock is
\* not cut off behind time, a settled epoch holds the whole tokens produced
\* between the start and the end its record reports.
EpochGetsItsShare ==
    ~starved => \A e \in settle \ cut :
        epochs[e].pool = Streamed(epochs[e].end) \div Scale
                         - Streamed(epochs[e].start) \div Scale

\* The windows that epoch records report follow each other without overlap,
\* across every change of the epoch length (newCreatorEpoch and
\* truncateCreatorEpochEnd stamp them).
WindowsDisjoint ==
    \A e, f \in DOMAIN epochs : e < f => epochs[e].end <= epochs[f].start

Total == SumFunction([tr \in tranches |-> tr.share])
\* Every tranche has ended before the epoch of the clock, all breakpoints are
\* applied and the clock has caught up with time.
AllElapsed ==
    /\ phase = "tx" /\ clock = EpochAt(now) /\ points = {}
    /\ \A tr \in tranches : tr.end <= EpochStart(clock)

\* Nothing is stranded: once every tranche has elapsed the pools of the epochs
\* add up to the creators' shares to the last token, while budgets suffice.
ElapsedIsDistributed ==
    (AllElapsed /\ ~starved) =>
        SumFunction([e \in DOMAIN epochs |-> epochs[e].pool]) = Total

\* The creator clock catches up with block time however many boundaries and
\* breakpoints a block leaves for the next one (advanceCreatorClock resumes).
ClockCatchesUp == []<>(clock = EpochAt(now))
-----------------------------------------------------------------------------
(***************************************************************************)
(* What a comment says of the program, checked by a run that expects a     *)
(* violation.                                                              *)
(***************************************************************************)
\* CreatorStreamPaid: once every tranche has elapsed the paid total equals the
\* sum of their creator shares exactly.
ElapsedIsPaid == AllElapsed => paid = Total
=============================================================================
