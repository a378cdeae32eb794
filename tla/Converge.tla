------------------------------ MODULE Converge ------------------------------
(***************************************************************************)
(* converge() of src/src/workloads/benchmark.rs and its macro: how often   *)
(* and how long a case measures, and what it makes of that. Pure           *)
(* operators; SpreadOut uses them.                                         *)
(*                                                                         *)
(* Times are in milliseconds, metrics in percent. No measurement takes no  *)
(* time at all: the cases that converge spend a millisecond or more on an  *)
(* iteration.                                                              *)
(***************************************************************************)
EXTENDS Integers, FiniteSetsExt

CONSTANTS
  MinTime,     \* the least that a measurement must last to count
  MaxTime,     \* the most that one may last
  Threshold,   \* the metric asked for
  MaxIters,    \* u32::MAX
  Leap         \* the factor by which the iterations may grow at a time

ASSUME ConvergeAssumption ==
  /\ MinTime \in Nat \ {0} /\ MaxTime \in Nat /\ MinTime <= MaxTime
  /\ Threshold \in 1 .. 100 /\ Leap \in Nat \ {0, 1}
  /\ MaxIters \in Nat /\ 2 * MaxTime < MaxIters \div 2

Saturated(n) == Min({n, MaxIters})
CeilDiv(a, b) == (a + b - 1) \div b

Converged(metric, elapsed) == metric >= Threshold /\ elapsed >= MinTime
GivesUp(metric, elapsed) == ~Converged(metric, elapsed) /\ elapsed > MaxTime

\* Mutant: a run that is long enough is repeated as it is.
SameIters(iters, elapsed) ==
  IF elapsed < MinTime THEN Max({CeilDiv(iters * MinTime, elapsed), iters + 1}) ELSE iters

\* Mutant: a run that is too short is followed by the longest allowed.
LeapAlways(iters, elapsed) ==
  IF elapsed < MinTime THEN Saturated(iters * Leap)
  ELSE IF elapsed < MaxTime THEN Saturated(2 * iters) ELSE iters

\* The iterations of the next measurement.
NextIters(iters, elapsed) ==
  CASE elapsed < MinTime /\ iters < MaxIters \div 2 ->
         Min({Max({CeilDiv(iters * MinTime, elapsed), iters + 1}), Saturated(iters * Leap)})
    [] elapsed >= MinTime /\ elapsed < MaxTime /\ iters < MaxIters \div 2 ->
         Saturated(2 * iters)
    [] OTHER -> iters

\* What the converge! macro makes of a value that converge() returns: an assertion.
Asserted(value) == IF value >= Threshold THEN "passed" ELSE "panicked"
=============================================================================
