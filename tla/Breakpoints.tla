---------------------------- MODULE Breakpoints -----------------------------
(***************************************************************************)
(* The breakpoints of the creator stream (keeper/creator_stream.go): an    *)
(* instant at which the rate changes, a key that orders the breakpoints of *)
(* one instant, and what the accumulator gains there.                      *)
(***************************************************************************)
EXTENDS Integers, Functions, FiniteSetsExt

\* Breakpoints are applied in the order of their keys in the store.
Before(p, q) == p.at < q.at \/ (p.at = q.at /\ p.key < q.key)

\* What some breakpoints add to the rate, and to the accumulator up to t.
RateOf(ps) == SumFunction([p \in ps |-> p.rate])
Accrued(ps, from, t) == SumFunction([p \in ps |-> p.acc + p.rate * (t - Max({p.at, from}))])
=============================================================================
