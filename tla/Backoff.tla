------------------------------- MODULE Backoff -------------------------------
(***************************************************************************)
(* The back-off state that repository.go and metrics.go each keep next to  *)
(* their ticker: `errors` grows with every refusal of the server, and      *)
(* `skips` is the number of ticks left before the next request.  The two   *)
(* Go structs hold the numbers as float64; only integers are ever stored.  *)
(***************************************************************************)
EXTENDS Naturals

CONSTANT MaxSkips  \* 10 in newRepository and newMetrics

ASSUME MaxSkipsAssumption == MaxSkips \in Nat

BackoffState == [errors : 0 .. MaxSkips, skips : 0 .. MaxSkips]

Steady == [errors |-> 0, skips |-> 0]

\* Both counters are set to the same number by every operation but the tick.
SkipEqually(n) == [errors |-> n, skips |-> n]

\* Mutant: the cap is forgotten.
BackOffUncapped(b) == SkipEqually(b.errors + 1)

\* repository.backoff and metrics.backoff: math.Min(maxSkips, errors + 1).
BackOff(b) == SkipEqually(IF b.errors < MaxSkips THEN b.errors + 1 ELSE MaxSkips)

\* configurationError: straight to the longest pause.
ConfigurationError(b) == SkipEqually(MaxSkips)

\* successfulFetch and successfulPost: math.Max(0, errors - 1).
Success(b) == SkipEqually(IF b.errors > 0 THEN b.errors - 1 ELSE 0)

\* Mutant: the last tick of a pause is never counted down.
DecrementSkipsToOne(b) == [b EXCEPT !.skips = IF @ > 1 THEN @ - 1 ELSE @]

\* The ticker fired while skips > 0.
DecrementSkips(b) == [b EXCEPT !.skips = IF @ > 0 THEN @ - 1 ELSE 0]

Misconfigured(status) == status \in {401, 403, 404}
Overloaded(status)    == status = 429 \/ status >= 500

\* The effect of a status code that is not a success.
AfterRefusal(b, status) ==
  IF Misconfigured(status) THEN ConfigurationError(b)
  ELSE IF Overloaded(status) THEN BackOff(b)
  ELSE b
==============================================================================
