------------------------------- MODULE Metrics -------------------------------
(***************************************************************************)
(* The metrics reporter (metrics.go): application goroutines count what    *)
(* they evaluated in a shared bucket, and one goroutine swaps the bucket   *)
(* out at every tick and posts it to the server.                           *)
(*                                                                         *)
(* The Toggles map of a bucket is a function from cells to numbers: the    *)
(* cell <<t, "yes">> is ToggleCount.Yes of toggle t, <<t, v>> is           *)
(* ToggleCount.Variants[v].  A toggle is in the map when one of its cells  *)
(* is not 0.  The count, sent, warning and error channels are taken to be  *)
(* received from (see Client for what happens otherwise), and metrics are  *)
(* taken to be enabled: with disableMetrics nothing here runs.             *)
(***************************************************************************)
EXTENDS Backoff

CONSTANTS
  Callers,      \* goroutines that call IsEnabled or GetVariant
  Toggles,
  Variants,     \* variant names
  NoVariant,    \* the call is IsEnabled: no variant is counted
  Statuses,     \* status codes of /client/metrics
  NetworkFails, \* may a post end without a response?
  MaxCalls      \* bound: calls that are counted

Answers == {"yes", "no"}

ASSUME MetricsAssumption ==
  /\ Variants \cap Answers = {}
  /\ NoVariant \notin Variants
  /\ Statuses \subseteq Nat
  /\ NetworkFails \in BOOLEAN
  /\ MaxCalls \in Nat

VARIABLES
  bucket,    \* m.bucket.Toggles
  early,     \* m.bucket holds counts made before its Start
  inflight,  \* the bucket sendMetrics works on
  inflightEarly,
  sender,    \* where the goroutine running metrics.sync is
  backoff,
  pending,   \* what each caller still has to do after its first add
  ticker,    \* m.ticker: running until Close stops it, maybe with one tick buffered
  counted,   \* history: everything ever counted, per cell
  received,  \* external: what the server has taken in, per cell
  unanswered, \* history: some post ended without a response
  calls      \* history: number of calls

vars == <<bucket, early, inflight, inflightEarly, sender, backoff, pending,
          ticker, counted, received, unanswered, calls>>
history == <<counted, unanswered, calls>>

Cells       == Toggles \X (Answers \cup Variants)
AnswerCells == Toggles \X Answers
Tally       == [Cells -> Nat]

\* metrics.Close was called: m.close is closed, the context cancelled.
closing == ticker # "running"

Nothing    == [c \in Cells |-> 0]
Sum2(a, b) == [c \in Cells |-> a[c] + b[c]]
Bump(tally, cell, n) == [tally EXCEPT ![cell] = @ + n]

\* A caller that is between the steps of count or countVariants.
BeforeChannel == [step : {"channel"}, toggle : Toggles, variant : Variants \cup {NoVariant}]
BeforeVariant == [step : {"variant"}, toggle : Toggles, variant : Variants]
Pending == BeforeChannel \cup BeforeVariant
Done == [step |-> "done"]

TypeOK ==
  /\ bucket \in Tally /\ inflight \in Tally
  /\ counted \in Tally /\ received \in Tally
  /\ early \in BOOLEAN /\ inflightEarly \in BOOLEAN /\ unanswered \in BOOLEAN
  /\ sender \in {"selecting", "posting", "restoring", "closed"}
  /\ backoff \in BackoffState
  /\ pending \in [Callers -> Pending \cup {Done}]
  /\ ticker \in {"running", "buffered", "stopped"}
  /\ calls \in 0 .. MaxCalls

Init ==
  /\ bucket = Nothing /\ inflight = Nothing
  /\ counted = Nothing /\ received = Nothing
  /\ early = FALSE /\ inflightEarly = FALSE /\ unanswered = FALSE
  /\ sender = "selecting"
  /\ backoff = Steady
  /\ pending = [c \in Callers |-> Done]
  /\ ticker = "running"
  /\ calls = 0

-----------------------------------------------------------------------------
(***************************************************************************)
(* count and countVariants.                                                *)
(***************************************************************************)

\* m.add(name, enabled, 1), under bucketMu.
Count(c, t, answer, v) ==
  /\ pending[c] = Done
  /\ calls < MaxCalls
  /\ calls' = calls + 1
  /\ bucket' = Bump(bucket, <<t, answer>>, 1)
  /\ counted' = Bump(counted, <<t, answer>>, 1)
  /\ pending' = [pending EXCEPT ![c] = [step |-> "channel", toggle |-> t, variant |-> v]]
  /\ UNCHANGED <<early, inflight, inflightEarly, sender, backoff, ticker, received, unanswered>>

\* The event loop receives from the count channel.
HandOver(c) ==
  /\ pending[c].step = "channel"
  /\ pending' = [pending EXCEPT ![c] =
                   IF pending[c].variant = NoVariant THEN Done
                   ELSE [pending[c] EXCEPT !.step = "variant"]]
  /\ UNCHANGED <<bucket, early, inflight, inflightEarly, sender, backoff, ticker,
                 received, history>>

VariantCell(c) == <<pending[c].toggle, pending[c].variant>>

VariantAdded(c, present) ==
  /\ pending[c].step = "variant"
  /\ bucket' = IF present THEN Bump(bucket, VariantCell(c), 1) ELSE bucket
  /\ counted' = Bump(counted, VariantCell(c), 1)
  /\ pending' = [pending EXCEPT ![c] = Done]
  /\ UNCHANGED <<early, inflight, inflightEarly, sender, backoff, ticker, received,
                 unanswered, calls>>

\* Mutant: the toggle must still be in the bucket, where count has put it.
CountVariantIfPresent(c) ==
  VariantAdded(c, \E answer \in Answers : bucket[<<pending[c].toggle, answer>>] > 0)

\* The second critical section of countVariants: whatever bucket is current now.
CountVariant(c) == VariantAdded(c, TRUE)

-----------------------------------------------------------------------------
(***************************************************************************)
(* The select of metrics.sync, and sendMetrics.                            *)
(***************************************************************************)
Tick ==
  /\ sender = "selecting"
  /\ ticker # "stopped"
  /\ ticker' = IF ticker = "running" THEN "running" ELSE "stopped"

SkipTick ==
  /\ Tick
  /\ backoff.skips > 0
  /\ backoff' = DecrementSkips(backoff)
  /\ UNCHANGED <<bucket, early, inflight, inflightEarly, sender, pending, received, history>>

\* resetBucket; an empty bucket is not posted.
SwapBucket ==
  /\ Tick
  /\ backoff.skips = 0
  /\ inflight' = bucket
  /\ inflightEarly' = early
  /\ bucket' = Nothing
  /\ early' = FALSE
  /\ sender' = IF bucket = Nothing THEN "selecting" ELSE "posting"
  /\ UNCHANGED <<backoff, pending, received, history>>

\* Note the closed upper end: 300 counts as accepted.
Accepted(status) == 200 <= status /\ status <= 300

Accept(status) ==
  /\ sender = "posting"
  /\ Accepted(status)
  /\ received' = Sum2(received, inflight)
  /\ inflight' = Nothing
  /\ inflightEarly' = FALSE
  /\ backoff' = Success(backoff)
  /\ sender' = "selecting"
  /\ UNCHANGED <<bucket, early, pending, ticker, history>>

Reject(status) ==
  /\ sender = "posting"
  /\ ~Accepted(status)
  /\ backoff' = AfterRefusal(backoff, status)
  /\ sender' = "restoring"
  /\ UNCHANGED <<bucket, early, inflight, inflightEarly, pending, ticker, received, history>>

\* doPost returns an error: the bucket is gone, and nobody knows whether the
\* server took it before the connection broke.
Unanswered(next, kept) ==
  /\ sender = "posting"
  /\ NetworkFails \/ closing
  /\ received' \in {received, Sum2(received, inflight)}
  /\ inflight' = kept
  /\ inflightEarly' = (inflightEarly /\ next = "restoring")
  /\ sender' = next
  /\ unanswered' = TRUE
  /\ UNCHANGED <<bucket, early, backoff, pending, ticker, counted, calls>>

\* Mutant: a post without a response is restored like a rejected one.
PostFailsRestoring == Unanswered("restoring", inflight)

PostFails == Unanswered("selecting", Nothing)

AddBack(cell, amount) ==
  /\ sender = "restoring"
  /\ inflight[cell] > 0
  /\ bucket' = Bump(bucket, cell, amount)
  /\ early' = TRUE
  /\ inflight' = [inflight EXCEPT ![cell] = 0]
  /\ UNCHANGED <<inflightEarly, sender, backoff, pending, ticker, received, history>>

\* Mutant: a rejected toggle is added back as if counted once.
RestoreOne(cell) == AddBack(cell, 1)

\* One m.add of the loop over the toggles of the rejected bucket.  The order
\* of a map's keys is random; here the two adds of one toggle are as well.
Restore(cell) == AddBack(cell, inflight[cell])

RestoreEnds(stillEarly) ==
  /\ sender = "restoring"
  /\ \A cell \in AnswerCells : inflight[cell] = 0
  /\ early' = stillEarly
  /\ inflight' = Nothing
  /\ inflightEarly' = FALSE
  /\ sender' = "selecting"
  /\ UNCHANGED <<bucket, backoff, pending, ticker, received, history>>

\* Mutant: the Start of the bucket stays the time of the swap.
EndRestoreKeepingStart == RestoreEnds(early)

\* m.bucket.Start = bucket.Start; what is left of the old bucket, its variant
\* counts, goes out of scope.
EndRestore == RestoreEnds(inflightEarly)

\* metrics.Close up to its wait for `closed`: ticker.Stop does not drain the
\* ticker's channel, which holds at most one tick.
Close ==
  /\ ~closing
  /\ ticker' \in {"buffered", "stopped"}
  /\ UNCHANGED <<bucket, early, inflight, inflightEarly, sender, backoff, pending,
                 received, history>>

CloseTakenIf(condition) ==
  /\ sender = "selecting"
  /\ closing
  /\ condition
  /\ sender' = "closed"
  /\ UNCHANGED <<bucket, early, inflight, inflightEarly, backoff, pending, ticker,
                 received, history>>

\* Mutant: the bucket must be empty for the goroutine to leave.
TakeCloseWhenEmpty == CloseTakenIf(bucket = Nothing)

TakeClose == CloseTakenIf(TRUE)

-----------------------------------------------------------------------------
Call(c) ==
  \/ HandOver(c)
  \/ CountVariant(c)
  \/ \E t \in Toggles, answer \in Answers, v \in Variants \cup {NoVariant} :
       Count(c, t, answer, v)

\* What the sender does without the server.
SenderStep ==
  \/ SkipTick
  \/ SwapBucket
  \/ \E cell \in AnswerCells : Restore(cell)
  \/ EndRestore

Next ==
  \/ \E c \in Callers : Call(c)
  \/ SenderStep
  \/ \E status \in Statuses : Accept(status) \/ Reject(status)
  \/ PostFails
  \/ Close
  \/ TakeClose

Spec == Init /\ [][Next]_vars

(***************************************************************************)
(* The ticker fires and the goroutines run; a post whose context is        *)
(* cancelled returns; select takes the close channel sooner or later; a    *)
(* server that is asked again and again sometimes accepts.                 *)
(***************************************************************************)
Fairness ==
  /\ WF_vars(SenderStep)
  /\ WF_vars(closing /\ PostFails)
  /\ SF_vars(TakeClose)
  /\ SF_vars(\E status \in Statuses : Accept(status))
  /\ \A c \in Callers : WF_vars(HandOver(c) \/ CountVariant(c))

FairSpec == Spec /\ Fairness

-----------------------------------------------------------------------------
(***************************************************************************)
(* Correctness.                                                            *)
(***************************************************************************)
Accounted(cell) == bucket[cell] + inflight[cell] + received[cell]

\* At most once: no count reaches the server twice, not even when a post
\* arrives and its response is lost, and none is invented by re-adding.
NeverOverreported == \A cell \in Cells : Accounted(cell) <= counted[cell]

\* As long as every post gets a response, no yes or no is lost, however often
\* the server rejects and whatever is counted while a bucket is added back.
Conserved(cells) == ~unanswered => \A cell \in cells : Accounted(cell) = counted[cell]

AnswersConserved == Conserved(AnswerCells)

\* Whatever is counted, a variant after the bucket of its yes or no was swapped
\* as well, gets into a bucket and stays there until the server has it: a count
\* is lost only by a post without a response or, of a variant, by a rejected one.
CountsKept ==
  [][\A cell \in Cells :
       \/ Accounted(cell)' + counted[cell] = Accounted(cell) + counted'[cell]
       \/ /\ sender' = "selecting"
          /\ \/ sender = "posting" /\ unanswered'
             \/ sender = "restoring" /\ cell \notin AnswerCells]_vars

\* The window [Start, Stop] of every payload covers the counts in it: a
\* bucket that got older counts back also got their Start.
WindowCoversCounts == sender # "restoring" => ~early /\ ~inflightEarly

\* The buckets implement the ledger: what waits is in one of them.
Books == INSTANCE Ledger WITH outstanding <- Sum2(bucket, inflight), reported <- received
LedgerSpec == Books!Spec

\* Everything counted is reported or given up, unless the reporter is closed.
Unreported == bucket # Nothing \/ inflight # Nothing
EventuallyReported == Unreported ~> ~Unreported \/ closing

\* metrics.Close returns.
CloseTerminates == closing ~> sender = "closed"

\* "re-add the metrics we attempted to send so they are included in the next
\* post" (metrics.go:197), for all that a bucket holds.
RejectedPostKeepsVariants == Conserved(Cells \ AnswerCells)
==============================================================================
