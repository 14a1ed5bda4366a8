# Formal models of unleash-client-go

The modules in this directory model the Unleash client for Go: how it polls
the server for toggles, stores them, evaluates them for the application,
counts the evaluations and reports the counts, and how it starts and stops;
and whom constraints, strategies and variants select.
TLC checks small instances; TLAPS proves the safety properties for every value
of the constants.

    tlc -config MCRepository.cfg MCRepository     # a run
    tlapm RepositoryProofs.tla                     # the proofs of a module

Paths such as `repository.go:149` are relative to the root of the repository.

## 1. The system

| component | source | state | operations |
|---|---|---|---|
| feature repository | `repository.go` | ETag, segments, `isReady`, back-off (`errors`, `skips`), context | `newRepository`, `fetchAndReportError`, `sync`, `fetch`, `getToggle`, `resolveSegmentConstraints`, `Close` |
| storage | `storage.go`, `bootstrap_storage.go` | toggles in memory, backup file | `Init`, `Load`, `Reset`, `Persist`, `Get` |
| metrics reporter | `metrics.go` | current bucket, back-off, ticker | `registerInstance`, `sync`, `sendMetrics`, `add`, `count`, `countVariants`, `Close` |
| client: life cycle | `client.go` | channels, `onReady`, `close`, `closed` | `NewClient`, `sync`, `WaitForReady`, `Close` |
| client: evaluation | `client.go`, `api/variant.go` | none of its own; reads the repository | `IsEnabled`, `GetVariant`, `isEnabled`, `isParentDependencySatisfied` |
| variant selection | `api/variant.go`, `api/feature.go` | `DISABLED_VARIANT`, shared | `VariantCollection.GetVariant`, `getVariantFromWeights`, `getOverrideVariant`, `getSeed`, `matchValue` |
| constraints | `internal/constraints`, `api/constraint.go` | none, but reads the clock | `Check`, `CheckConstraint`, 15 operators, inversion |
| strategies | `internal/strategies` | a random source | `IsEnabled` of eight strategies, `normalizedRolloutValue`, `resolveStickiness` |
| context | `context/context.go` | none | `Override`, `Field` |
| default client, options, listeners | `unleash.go`, `config.go`, `debuglistener.go`, `nooplistener.go` | one package variable | pass calls on, print, do nothing |

How they interact:

* `NewClient` runs in the application's goroutine. It starts the poller
  (`repository.sync`), registers with the server itself, starts the sender
  (`metrics.sync`), and with its deferred call starts the event loop
  (`Client.sync`), in that order.
* Poller, sender and evaluations talk to the event loop through channels:
  errors and warnings (buffers of 3), `ready` and `registered` (buffers of 1),
  `count` and `sent` (no buffer). The event loop calls the listener.
* Evaluations read the toggles under the repository's read lock and the
  segments under none; the poller replaces both under the write lock.
* An evaluation overrides the client's context with that of the call, and asks
  the constraints of the segments, those of the strategy, the strategy, and the
  variants, in that order. A date constraint reads the clock each time.
* Evaluations count into the bucket under `bucketMu`; the sender swaps the
  bucket under the same mutex and sends the old one.
* `Close` stops the poller, then the sender, then the event loop, and waits for
  each.

What is hard about it: reads without the lock, and two reads that straddle an
install; messages to a loop that has not started or has stopped; a process that
dies between truncating and writing the backup file; posts whose response is
lost, rejected buckets that are merged into a bucket that is being counted
into; back-off state shared by refusals, successes and ticks; everything that must
end although each goroutine waits for another one; and arithmetic whose edges
decide who gets a feature: percentages, running sums of weights, 32-bit totals,
random fallbacks, errors that are inverted. `PROJECT.json`
lists these hazards at their lines, with the properties about each.

What makes each component correct:

* repository: the ETag names what is in memory; a ready repository serves the
  toggles and segments of one response; served data moves forward; polling
  never stops for longer than the back-off allows and catches up; `Close` ends.
* storage: the backup follows the memory, and a restart brings back older
  toggles only after a crash in the middle of a write, a failure of the disk, or
  a document without toggles, which a start takes for nothing loaded.
* metrics: nothing is reported twice, nothing is lost as long as posts are
  answered, nothing counted vanishes otherwise, the window of a payload covers
  its counts, all gets reported.
* life cycle: no channel is closed twice, the event loop outlives those who
  need it, calls that end before `Close` return, `NewClient` and `Close` return; the listener is only
  called between the two, and about what has happened.
* evaluation: the answer is that of one document if no install overtakes the
  call; otherwise it is on only if a document it saw switches it on and its
  strategies let the call in with segments of documents it saw, and so for each
  parent that must be on; it returns, and does not recurse without bound.
* constraints, strategies, variants: nobody gets in who fails a constraint or
  whose constraint cannot be evaluated, and the latter is reported; 0 percent is nobody and 100 everybody;
  each variant has exactly its share of the targets; an edit moves only those it
  has to; a document with proper values does not panic the caller.

## 2. The modules

### Backoff (`repository.go:99-115`, `170-183`, `metrics.go`)

The pair `errors`, `skips` that repository and metrics keep alike, and the four
operations on it, as functions on records. `AfterRefusal` is the `switch` over
the status. Extended by Repository and Metrics.

### Repository and FeatureCache

`poller` is the program counter of the goroutine in `repository.sync`: each
action is the code from one blocking call, lock operation or file operation to
the next. A response is `Answer`ed by the server, then either `NotModified`,
`Refuse`, `DecodeFails`, or installed in the steps `InstallSegments` (ETag and
segments), `ResetToggles`, `CreateBackup`, `WriteBackup` (or `PersistFails`),
`FinishFetch` and, in `fetchAndReportError`, `Announce`. `Poll`, `SkipTick` and
`TakeClose` are the branches of the `select`. `Restart` is a crash, or an
ordinary end, at any point, followed by `newRepository` with `storage.Init`
(`StartStorage`, which may fail to read the file). `unsaved` is history: the
last use of the backup file failed. It is what the storage properties except,
so that one failure does not excuse everything after it.
`GetToggle`, `ResolveSegments` and `Return` are what an evaluation does to the
repository; only `GetToggle` takes the lock.

`Toggleless` are the revisions whose document has no toggles: `BootstrapStorage`
tests whether the map is empty, so that after such a document a start reads the
bootstrap document although a backup was loaded (`NoToggles`, `StorageInit`).

The server's document is a revision number; toggles and segments in memory, the
backup and the ETag are revisions, so that the properties can compare them. The
server is external: it answers with its latest revision, with or without an
ETag, with any of the `Statuses`, or not at all. It says 304 only when the
request names its latest revision.

`FeatureCache` is the abstract specification: a cache that moves forward with
the server, and is announced only when it holds data of the server. The
refinement mapping (`Cache` in Repository) takes `served` from `features` and
`ready` from `isReady`; `loaded` says that segments and toggles of a response
are installed.

### Metrics and Ledger

`sender` is the program counter of `metrics.sync`. The bucket and the bucket in
flight are tallies: a natural number for each cell, and a cell is a toggle with
yes, no or a variant name. Of `Start` the model keeps whether the bucket holds
counts from before its own `Start` (`early`). `Count` and `CountVariant` are
two critical sections, as in `countVariants`, with the hand-over to the event
loop between them. A rejected bucket is added back one `m.add` at a time
(`Restore`), which races the counters, and then gets the old `Start`
(`EndRestore`). A post that gets no response (`PostFails`) may have arrived or
not. `counted`, `received` and `unanswered` are history: what the application
counted, what the server got, and whether some post was left without response.

`Ledger` is the abstract specification: amounts that are counted, outstanding
and reported, where nothing settled comes back and the server takes in only
what was outstanding. The mapping (`Books` in Metrics) takes `outstanding` from
the two buckets together, so that the swap, the steps of adding back and the
race with counters are all invisible.

### Client and Service

The channels as the number of messages in them, and for each goroutine where it
is: `starter` (`NewClient`), `poller`, `sender`, `caller[c]`, `loop`, `closer`.
Of what the components compute only the messages they send are kept: Repository
and Metrics say when. `Fail` is every return of `NewClient` with an error; the
deferred call starts the event loop all the same. With `MetricsOptional` the
metrics may be disabled (`metrics.go:96`): nobody registers and counts are
dropped. The application may also read the channels itself
(`ReaderTakes`), as `doc.go:33-37` describes; it then competes with the event
loop, which always runs.

`Service` is the abstract specification: a life from `starting` to `closed` or
`failed`, the goroutines that work, and the method of the listener that is
called. It has no channels, messages or callers. The mapping (`Promise` in
Client) takes `life` from where `NewClient` and `Close` are (`Life`), `working`
from who has started and not ended (`Working`), `listening` from the event loop
(`Listening`), `loaded` from `isReady` and `released` from `onReady`. So every
send, post and evaluation is invisible, and what is left is who may start, stop
and speak when.

### Evaluation

One call of `IsEnabled` or `GetVariant`, while the poller installs documents. A
call has a stack of activations of `isEnabled`: `Resolve` looks the toggle up,
`AskParent` looks a parent up and opens an activation, which looks it up
again; the strategies are tried in order, each reading the segments without the
lock. `Finish` returns to the activation below, whose loop over the
dependencies goes on with `Resumed`. `VariantOfDisabled`, `VariantOfStrategy`
and `VariantOfFeature` are the rest of `getVariantWithoutMetrics`.

The context of a call is fixed, and a document says of each strategy, segment
and list of variants what comes out in that context. `disabledVariant` is the
package variable `api.DISABLED_VARIANT`, which `VariantCollection.GetVariant`
writes to. `IsOn` and `VariantFor` are the reference: they say what one
document means, by sets and quantifiers instead of loops and returns, and with
the variants of a dependency as `api/feature.go:60` has them: the parent must
resolve to one of them (`ResolvedVariant`), be it of a strategy or its own. The
code does not look at the latter, so that `AnswerOfOneDocument` excepts the
dependencies that this concerns (`OverlooksVariants`), and the run
`evaluation_dependency` shows them. `CanBeOn` is what the strategies of one
toggle may come to when each reads its segment from any of some documents: no
single one of these need have the toggle on.

### Constraints, Strategies and Targeting

`Constraints` has the context (`Override`, `Field`) and one constraint, up to
`CheckConstraintInvertible`, whose result is a pair: inverting an error gives
`(true, err)`, as in the code. `Strategies` has `IsEnabled` of the eight
strategies as the set of their possible answers, one for each random number,
and `"panic"` for a failed type assertion. `Targeting` is the state machine: one
strategy with its constraints, parameters and variants, asked again and again
for one context while an operator edits it and the clock goes on. Each
iteration of a loop of the code is a step: `PassConstraint` and
`FailConstraint`, `AskStrategy`, `ScanOverrides`, `SumWeights`,
`WeightsSummed`, `DrawTarget`, `PickVariant`. `answer` and `previous` keep the
last two evaluations for the properties, and `bounds` the partial sums.

What libraries compute is constant: which string contains which, the order of
those that parse as numbers, dates or versions, the hash, which network covers
which address. Properties and proofs hold for any such relation, order and hash
that the assumptions admit. A comma-separated list is the set of its items, not
trimmed, and the empty set is the empty string; percentages are whole; `Scale`
stands for 100 and `Width` for 2^32.

The reference is `Meets` (a constraint is met if it can be evaluated and its
result differs from `inverted`), at the times that passed during the
evaluation (`MetDuring`, `MetThroughout`), the partial sums, and `Raised` (only the
percentage differs, and not downwards).

### How they fit

Each module takes of its neighbours what they do to it. Client leaves the
data out and keeps the blocking; Repository and Metrics keep the data, and take
a report to an error channel to return, which is Client's `CallsReturn` and
`CloseReturns`. Evaluation takes the two writes of an install from Repository
(`InstallSegments`, `ResetToggles`), and the outcome of each strategy and list of
variants from the document; how such an outcome comes about is Targeting.
Proofs are in `RepositoryProofs`, `MetricsProofs`, `ClientProofs`,
`EvaluationProofs` (types and depth), `AnswerProofs` (what an evaluation
answers), `TargetingProofs` (one evaluation) and `EditProofs` (two of them); the
`MC` modules hold symmetry sets, documents, and the strings of Targeting.

## 3. The runs

| run | what it checks | distinct states |
|---|---|---|
| `repository` | types; `EtagMatchesToggles`, `ReadyServesOneSnapshot`, `BackupTracksMemory`, `SegmentsNotOlder`, `PollGapBounded`, `RollbackHasCause`, `CacheSpec` (refinement), `EventuallyFresh`, `CloseTerminates`, with crashes, a disk that may fail and a document without toggles | 256,826 |
| `metrics` | types; `NeverOverreported`, `AnswersConserved`, `CountsKept`, `WindowCoversCounts`, `LedgerSpec` (refinement), `EventuallyReported`, `CloseTerminates`, with posts that may fail | 277,393 |
| `client_safety` | types (channels within their buffers); `AnnouncedOnce`, `LoopStopsLast`, `FailureLeavesOnlyLoop`, `ServiceSpec` (refinement), with an application that reads the channels too, bad options and disabled metrics | 222,844 |
| `client_liveness` | `NewClientReturns`, `CallsReturn`, `ReadyDelivered`, `CloseReturns` | 12,009 |
| `evaluation` | types; `AnswerOfOneDocument`, for every document of three families; `StackBounded`, `EnabledHasWitness`, `EvaluationAdvances` (each step of a call has less left to do), `EvaluationReturns`, with up to two installs during a call | 146,837 |
| `targeting` | types; `ConstraintsRespected`, `RolloutEdges`, `RaisingKeepsOn`, `ExactShares`, `ReweighingKeepsOthers`, `OnlyImproperPanics` | 591,863 |
| `repository_snapshot` | violated: an evaluation sees one revision | |
| `metrics_variants` | violated: a rejected bucket is added back with all it holds | |
| `client_register` | violated: `NewClient` returns, whatever the server does | |
| `client_calls` | violated: `CallsReturn`, with callers that are active while `Close` runs | |
| `evaluation_dependency` | violated: a toggle is on only if its parents resolve to variants it asks for | |
| `evaluation_default_variant` | violated: the default variant says that it is off | |

Bounds, and why they are enough:

* `MaxRevision = 3`: an old, a current and a next document; with a bootstrap
  document as the first of them, and one without toggles as the second.
  `MaxRestarts = 2`: a crash that tears the backup, and a restart from what that
  start left. `MaxSkips = 2` lets the back-off grow, shrink and hit its limit (10
  in the code). Evaluators do not
  interact, so that the main run has one; the run `repository_snapshot` has two.
  The statuses are one of every branch of the code. The proofs of Repository
  have no bound at all on any of them.
* `MaxCalls = 3` with two callers: a count before, while and after a bucket is
  in flight. The statuses are one of every branch of `statusIsOK` and of the
  `if` in `sendMetrics`, 300 included, which that `if` accepts. Posts may fail
  in the same run: `AnswersConserved` is conditional on `unanswered`, and the
  states where no post has failed yet are as many as without failures.
* Channels of 3 as in `NewClient` for safety. For liveness channels of 1: they
  are full more often, and nothing in the code depends on the number. That run
  has no caller that is active during `Close` and no registration that ends
  without response: what happens then the runs `client_calls` and
  `client_register` show, with the same fairness.
* Documents: every list of up to two of eight sorts of strategies; two toggles,
  with dependencies that are missing, reversed, nested, or ask for variants;
  segments that are missing, met or not. `Updates` says which documents may
  follow a document: in the run these are six, which replace one another and
  differ in what could be mixed, in the proofs any. No dependency needs a third level: the
  code refuses a parent that has parents (`client.go:365-367`), and
  `StackSafety` is proved for all documents.
* Targeting: five contexts that lack what a setting asks for in different ways;
  some three hundred families of settings, within which the strategy is edited: lists of up to
  two of sixteen sorts of constraints (inverted or not, errors included, so that
  each follows each), every percentage of every gradual strategy with its
  parameters present, missing and of another type, lists of ids, addresses and
  hosts, and three variants with weights that are zero, moved about, negative,
  as large as `Width` and larger. `Scale = 4` has two edges and percentages
  between them; `Width = 16` is larger than any proper total and small enough
  for totals that wrap. `MaxCalls = 2` is one edit, `MaxClock = 1` one change of
  the time during an evaluation. Longer lists, sums and clocks are covered by
  the proofs.

Deadlock is checked in the runs of Evaluation. In the others the system really
stops: after `Close`, when `NewClient` hangs, and, in the bounded runs, after
the last restart or call.

### Fairness

* The goroutines run and the tickers keep firing: weak fairness of
  `PollerStep`, `SenderStep`, `StarterStep`, the listener's return
  (`CallbackReturns`) and of the counters.
* Go's `select` picks one of its ready cases at random, so a ready case is not
  passed over for ever, and goroutines waiting for one channel are served in
  order: strong fairness of the close branches, of the receives of the event
  loop and of the sends.
* A request whose context is cancelled returns: fairness of `FetchFails`,
  `PostFails` and the requests in Client only while closing. Otherwise a request
  may never return, since `http.DefaultClient` has no timeout.
* A server that is asked again and again sometimes answers with a document that
  can be decoded (`AnswerFresh`), or accepts a post. Without it no client could
  catch up.
* An RWMutex lets readers in between two writers: strong fairness of
  `Evaluate`, which waits only for the poller's lock.

## 4. What is proved

TLAPS checks these for all values of the constants; the only assumptions are
the named `ASSUME`s of the modules (numbers are natural, `Torn` and `Nil` are
no other value, the documents are documents, relations and hash have their
types).

| module | theorem | about |
|---|---|---|
| RepositoryProofs | `TypeCorrect`, `EtagSafety`, `SnapshotSafety`, `SegmentSafety`, `PollGapSafety`, `BackupSafety`, `RollbackSafety` | the type invariant and every safety property of Repository |
| RepositoryProofs | `Implementation` | `Spec => CacheSpec`, the refinement of FeatureCache |
| MetricsProofs | `TypeCorrect`, `AtMostOnce`, `NoAnswerLost`, `NothingVanishes`, `WindowSafety` | all safety properties of Metrics but the violated one |
| MetricsProofs | `Implementation` | `Spec => LedgerSpec`, the refinement of Ledger |
| ClientProofs | `TypeCorrect`, `LoopOutlivesComponents`, `NoDoubleClose`, `FailureSafety` | all safety properties of Client |
| ClientProofs | `Implementation` | `Spec => ServiceSpec`, the refinement of Service |
| EvaluationProofs | `TypeCorrect`, `StackSafety` | types, and the depth of the recursion |
| AnswerProofs | `OneDocument`, `WitnessedAnswers` | what an evaluation answers, with and without installs during it |
| AnswerProofs | `Progress` | no step of a call is for nothing, so that it ends |
| TargetingProofs | `TypeCorrect`, `ConstraintSafety`, `RolloutSafety`, `ShareSafety`, `PanicSafety` | types, and every property of one evaluation: constraints, edges of rollouts, shares, panics |
| EditProofs | `RaisingSafety`, `ReweighingSafety` | the properties of two evaluations with an edit between them |

So every invariant, action property and refinement that a passing run checks is
a theorem.

The arguments:

* **Repository.** The inductive invariant is `TypeOK /\ Inv`, and `Inv` has
  four parts, each proved to be preserved by a lemma. `DataInv` follows a
  response through the install: while a request is in flight the revision it
  carries is not older than what is in memory, which needs that the poller is
  the only writer. It also ties `isReady` to segments having been installed,
  which is why a 304 cannot make a repository ready that has only its
  backup: a request carries an ETag only after a fetch. `BackupInv` says that the file
  yields what is in memory except during a write, and that a start from it
  gives the same toggles, unless they are none and there is a bootstrap document
  (`features` is `Loaded(backup)` or `StorageInit(backup)`): that is what makes
  a restart harmless but for the three causes that `RollbackHasCause` names. `ReadInv` bounds what evaluators hold by what is in
  memory, `PaceInv` counts ticks.
* **Refinement.** `Implementation` maps each step to one of FeatureCache or to a
  stutter: `ResetToggles` is its `Refresh`, `Announce` its `Announce`, `Close`
  its `Stop`; `InstallSegments` is invisible, as `loaded` ignores the middle of
  an install.
* **Metrics.** `LedgerStep` shows that a step changes `bucket + inflight +
  received` and `counted` by the same amount, except that a bucket may
  be dropped, and its variants at the end of adding it back, which is
  `NothingVanishes`; `SenderInv` says when the bucket in flight is empty, without
  which `SwapBucket` could overwrite one. `Implementation` uses the same lemma:
  a count is a `Count` of Ledger, every other step a `Settle` or a stutter
  (`StepRefines`), and `ServerRemembers` adds that the server's amounts only
  grow.
* **Client.** `LifeInv` relates who has started or stopped whom: the closer
  only gets to `loop` after poller and sender are `closed`. `ReadyInv` follows
  the one announcement from `isReady` through the channel to `onReady`.
  `QuietInv` says that nothing but the warning about the url was sent before
  the repository is started, which is what a failed `NewClient` relies on.
* **Service.** The refinement needs the three of them and `MeterInv`: with
  metrics disabled nobody registers, counts or is about to, so that the listener
  is never told of metrics that do not exist; and the poller ends for `Close`
  only. `Invisible` and `SameWorking` dispose of the steps that only move
  messages, `WorkersStop` of those that end a goroutine, `LoopTells` of those
  that call the listener. That the loop can call `OnReady` only once, and only
  when toggles were fetched, is `ReadyInv`.
* **Targeting.** `ShareInv` has three parts. `SumInv`: the bounds are the
  partial sums of the weights, and rise if the weights are proper. `PickInv`: the
  32-bit counter is the sum so far and is still below the target, which is
  between 1 and the total, so that the loop cannot run past the last variant and
  the variant it stops at is the one whose share holds the target. `ScanInv`: no
  override before the index matches. `PassedInv` says of the constraints up to
  the index that each was met at some time since the evaluation began (time
  passes between two of them, so that nothing stronger holds): one that cannot be
  evaluated never is, so that it is never passed, and the evaluation that gets to
  it reports it. `GrantInv` says
  that variants are only looked at when the strategy said yes. `CheckMeans`
  relates the pair of `CheckConstraintInvertible` to the reference `Meets`.
  What the hash is plays no role in any of them.
* **Edits.** `RaisingKeepsOn` and `ReweighingKeepsOthers` compare two answers,
  and the machine forgets an evaluation when the next begins. So the invariant
  says of each recorded answer what can be read off it without the steps that
  led to it (`ReasonInv`): why it ended as it did (which constraints were met at
  some time, what the strategy may reply, whether the overrides or the division
  decided), that its target is that of some seed of the context, and whose share
  the target is in. Two answers can then be compared by lemmas about operators:
  a strategy that draws nothing at random has one possible reply (`OneReply`), a
  higher rollout replies yes to whom the lower did (`RaisedReplies`), constraints
  without dates do not depend on the time (`TimelessMeets`), a sticky context
  has one seed (`OneSeed`), and a target is in one share only (`OneShare`).
  `SumsAgree` handles what would otherwise be an induction over the index of the
  variants: when the variants are those of the last answer the partial sums
  agree with it one by one, which each step of the loop extends.
* **Evaluation, depth.** An activation below the innermost always waits for a
  parent (`WaitInv`). Depth 2 plus the installs since the call began can only be
  reached by a parent that was let in without parents of its own, in the
  toggles that are still in memory, so it will not ask for one
  (`Saturated`); an install takes that away but raises the bound by one. While
  the lock is held one level is in reserve (`DepthInv`), as nobody can
  descend then.
* **Evaluation, answers.** `AnswerInv` has two voices, for each activation on
  the stack. Whatever has been installed: its toggle is one that some document
  seen holds, each strategy it has behind it lets the call pass with a segment
  seen (`Passed`), and each dependency it has passed names a toggle that can be
  on with what was seen; that only grows when documents are added
  (`SoundGrows`). And as long as only one document was seen, `Exact`: the
  dependencies passed hold in it, an unsatisfied activation has one that does
  not, and no strategy before the index is decisive. `ResumedSound` carries both over a return to the
  activation below, which needs that an activation above the first is about a
  toggle without parents of its own (`Parentless`); `OutcomeOfFirst` and
  `OutcomeOfNone` relate the loop over the strategies, which stops at the first
  decisive one, to the reference, which chooses it. The invariant speaks of
  what the code accepts of a parent (`Accepts`); `AcceptsWhatHolds` shows it to be
  what the document means wherever no variants are overlooked.
* **Evaluation, progress.** `Left` counts the parents and strategies that an
  activation has not looked at. In each step of a call (`Forward`) the innermost
  activation has less left, or asks for a parent, or returns, and then the one
  below has less left (`ResumedNearer`). Nothing that is installed takes this
  back, as an activation keeps the toggle it looked up. With `StackSafety`,
  which bounds how many activations there are, the number of steps of a call is
  bounded. Only that the goroutine is given them is left to fairness, in
  `EvaluationReturns`.

Only model-checked is liveness (`EventuallyFresh`, `EventuallyReported`,
`CloseTerminates`, `NewClientReturns`, `CallsReturn`, `ReadyDelivered`,
`CloseReturns`, `EvaluationReturns`): properties under fairness, and ENABLED, are
beyond the prover. So is induction over data; what would need it is carried by
the invariants from step to step instead (`SumInv`, `SumsAgree`, `Exact`), and
there are no RECURSIVE operators here.

## 5. Where code and documentation differ

Six runs show a disagreement; `PROJECT.json` quotes the lines.

* `repository_snapshot`: `resolveSegmentConstraints` reads the segments without
  the lock (`repository.go:201`). The segments found may be newer than the
  toggle. They are never older (`SegmentsNotOlder`, proved).
* `metrics_variants`: the variant counts of a rejected bucket are not added back
  (`metrics.go:199`). Yes and no are (`AnswersConserved`, proved).
* `client_register`: the registration reports its error before the event loop is
  started (`metrics.go:139`); with three errors of the poller waiting in the
  channel, `NewClient` does not return.
* `client_calls`: an evaluation hands its count to the event loop
  (`metrics.go:264`) and never returns when `Close` has stopped it meanwhile, nor
  does one that is called later. Callers that finish before are safe
  (`CallsReturn` in `client_liveness`).
* `evaluation_dependency`: the variants a dependency asks for are not compared when
  the parent has variants of its own and not of a strategy (`client.go:371`,
  `api/feature.go:60`).
* `evaluation_default_variant`: variants that all weigh nothing select the
  shared `DISABLED_VARIANT`, which is then marked as enabled
  (`api/feature.go:94`), for every toggle.

The models also contain these, for which there is no run:

* `WaitForReady` is never released if the event loop takes the close branch while
  `ready` holds a message (`client.go:241`), although it "will return immediately
  if the toggles have already been loaded" (`client.go:510-511`).
  `ReadyDelivered` allows for this and for nothing else.
* An override on environment, appName or currentTime matches nobody, as
  `getIdentifier` looks these names up among the properties
  (`api/variant.go:57`), while constraints find the fields (`ScanOverrides`
  against `Field`); `api/variant.go:44` speaks of "the Unleash context field".
* `BootstrapStorage.Load` takes an empty map for nothing loaded
  (`bootstrap_storage.go:17`): after a document without toggles, a restart serves
  the older toggles of the bootstrap document until the first fetch.
  `RollbackHasCause` names this as one of the causes of a rollback.
* `BootstrapStorage.Load` keeps the toggles of a document that has segments
  too (`bootstrap_storage.go:27`, `README.md:75`): preloaded toggles that
  name segments are off until the first fetch.
* A fetch answered with 304 does not take an error back (`repository.go:149`;
  compare `repository_test.go:187`).
* A post that ends without a response loses its bucket (`metrics.go:184`;
  compare `metrics_test.go:168`). Adding it back could report it twice:
  `NeverOverreported` holds because it does not.
* A `NewClient` that returns an error leaves the event loop running, and returns
  no client that could be closed (`client.go:136`).
* A flexible rollout without stickiness among its parameters panics in the
  caller, one without group id does not
  (`internal/strategies/flexible_rollout.go:44,58`). So do weights whose total
  is a multiple of 2^32 but not 0 (`api/feature.go:111`).
* A strategy with variants needs a group id, else it is off (`client.go:327`).
* A rollout with the default stickiness draws a random id for a context with
  neither user nor session; the variants of the same strategy take the remote
  address then (`flexible_rollout.go:34`, `api/feature.go:145-151`).
* An empty item in `userIds` (a trailing comma) matches a context without user
  (`user_with_id.go:30-31`). Host names are not trimmed, ids and addresses are
  (`application_hostname.go:36`).
* An application that reads `Ready()` competes with the event loop for the one
  message (`client.go:224`, `476-478`).
* `OnRegistered` is also called after a registration that was rejected
  (`metrics.go:148`, `unleash.go:26`).

And these are outside of the models:

* `unleash.WaitForReady` dereferences a nil default client, where the other
  functions of `unleash.go` check for it (`unleash.go:73`).
* A second `Initialize` replaces the default client without closing it; one that
  fails leaves none (`unleash.go:52`).

## 6. What is not modelled

* `unleash.go`, `config.go`, the listeners and mocks, JSON structures,
  `utils.go`: one package variable that is set before use, option setters whose
  values are constants here, callbacks that print, plain data. There is no
  behaviour in them to check beyond what is said under 5.
* What the standard library, the semver and murmur3 packages compute: constant,
  with assumptions.
* Resolvers, fallbacks and storages that the application supplies, and its own
  strategies; strategies that name several segments; several contexts in one
  run. Percentages with fractions. Payloads of variants.
* Listeners that call the client from the event loop; `Close` called twice.
* int32 wrap-around of counts, which takes two thousand million counts of one
  toggle between two accepted posts; time, except as the order of events and
  for the date constraints.

## 7. Plan

Done: Repository with storage and its abstraction; Metrics and Ledger; Client
and Service; Evaluation; Constraints, Strategies and Targeting; the proofs
listed under 4.

Left, the most useful first:

1. The loops of Targeting: each step has less left, as `EvaluationAdvances` says
   of Evaluation.
2. The pace of the metrics sender, as `PollGapBounded` has it for the poller.
