----------------------------- MODULE Evaluation ------------------------------
(***************************************************************************)
(* One call of IsEnabled or GetVariant (client.go), step by step, while    *)
(* the poller replaces the toggles and the segments it reads.              *)
(*                                                                         *)
(* A document is what the server answers with.  The context of the call is *)
(* fixed: of a strategy and of a segment only the outcome in that context  *)
(* is kept, and of a list of variants the one its weights and overrides    *)
(* select.  The errors an evaluation reports are modelled in Client, its   *)
(* count in Metrics.  Calls that bring a resolver of their own, and        *)
(* strategies naming several segments, are left out.                       *)
(***************************************************************************)
EXTENDS Naturals, Sequences

CONSTANTS
  Callers,
  Names,         \* toggle names
  Documents,     \* what the server may answer with
  Updates,       \* bound: for each document, those that may come after it
  VariantNames,
  SegmentIds,
  Nil,           \* no toggle, variant or segment
  MaxInstalls    \* bound: documents that replace the first one

NoVariants   == "no variants"    \* the list of variants is empty
ZeroWeights  == "zero weights"   \* no override matches and all weights are 0
Disabled     == "disabled"       \* &api.DISABLED_VARIANT
FeatureOn    == "feature on"     \* disabledVariantFeatureEnabled
Fallback     == "fallback"       \* the variant of WithVariantFallback

DependencyType == [feature : Names, enabled : BOOLEAN, variants : SUBSET VariantNames]

\* known: the client has a strategy of that name; met: its constraints hold and
\* it is enabled; segment: the one it names; groupId: it has that parameter.
StrategyType ==
  [known : BOOLEAN, met : BOOLEAN, segment : SegmentIds \cup {Nil},
   variants : VariantNames \cup {NoVariants, ZeroWeights}, groupId : BOOLEAN]

FeatureType ==
  [enabled : BOOLEAN, dependencies : Seq(DependencyType), strategies : Seq(StrategyType),
   variants : VariantNames \cup {NoVariants, ZeroWeights}]

\* The features by name, and for each segment whether the context meets it.
IsDocument(d) ==
  /\ DOMAIN d.features \subseteq Names
  /\ \A name \in DOMAIN d.features : d.features[name] \in FeatureType
  /\ DOMAIN d.segments \subseteq SegmentIds
  /\ \A id \in DOMAIN d.segments : d.segments[id] \in BOOLEAN

ASSUME EvaluationAssumption ==
  /\ VariantNames \cap {NoVariants, ZeroWeights, Disabled, FeatureOn, Fallback, Nil} = {}
  /\ Nil \notin Names /\ Nil \notin SegmentIds
  /\ MaxInstalls \in Nat
  /\ \A d \in Documents : IsDocument(d)
  /\ Updates \in [Documents -> SUBSET Documents]

VARIABLES
  toggles, segments,  \* the documents they come from
  locked,             \* the poller is between Lock and Unlock of repository.fetch
  installs,           \* documents installed so far
  call,               \* what each caller asked for, and its answer
  stack,              \* its activations of isEnabled, the innermost last
  seen,               \* history: documents in memory since the call began
  since,              \* history: installs when the call began
  disabledVariant     \* the two flags of the variable api.DISABLED_VARIANT

store == <<toggles, segments, locked, installs>>
vars == <<toggles, segments, locked, installs, call, stack, seen, since, disabledVariant>>

Off      == [enabled |-> FALSE, variant |-> Nil]
On(variant) == [enabled |-> TRUE, variant |-> variant]
Idle     == [step |-> "idle", name |-> Nil, method |-> Nil, fallback |-> FALSE,
             feature |-> Nil, enabled |-> FALSE, variant |-> Nil]
Flags    == [enabled : BOOLEAN, featureEnabled : BOOLEAN]

Frame ==
  [name : Names, feature : FeatureType \cup {Nil}, index : Nat \ {0},
   step : {"resolving", "parents", "unsatisfied", "strategies"}]

CallRecord ==
  [step : {"idle", "running", "deciding", "returned"}, name : Names \cup {Nil},
   method : {"IsEnabled", "GetVariant", Nil}, fallback : BOOLEAN,
   feature : FeatureType \cup {Nil}, enabled : BOOLEAN,
   variant : VariantNames \cup {Disabled, FeatureOn, Fallback, Nil}]

TypeOK ==
  /\ toggles \in Documents /\ segments \in Documents
  /\ locked \in BOOLEAN
  /\ installs \in 0 .. MaxInstalls
  /\ call \in [Callers -> CallRecord]
  /\ stack \in [Callers -> Seq(Frame)]
  /\ seen \in [Callers -> SUBSET Documents]
  /\ since \in [Callers -> 0 .. MaxInstalls]
  /\ disabledVariant \in Flags

Init ==
  /\ toggles \in Documents /\ segments = toggles
  /\ locked = FALSE
  /\ installs = 0
  /\ call = [c \in Callers |-> Idle]
  /\ stack = [c \in Callers |-> <<>>]
  /\ seen = [c \in Callers |-> {}]
  /\ since = [c \in Callers |-> 0]
  /\ disabledVariant = [enabled |-> FALSE, featureEnabled |-> FALSE]

-----------------------------------------------------------------------------
(***************************************************************************)
(* The poller installs a document (see Repository).                        *)
(***************************************************************************)
InstallSegments(d) ==
  /\ ~locked
  /\ installs < MaxInstalls
  /\ locked' = TRUE
  /\ segments' = d
  /\ installs' = installs + 1
  /\ seen' = [c \in Callers |-> IF stack[c] = <<>> THEN seen[c] ELSE seen[c] \cup {d}]
  /\ UNCHANGED <<toggles, call, stack, since, disabledVariant>>

ResetToggles ==
  /\ locked
  /\ locked' = FALSE
  /\ toggles' = segments
  /\ UNCHANGED <<segments, installs, call, stack, seen, since, disabledVariant>>

-----------------------------------------------------------------------------
(***************************************************************************)
(* isEnabled: an activation looks its toggle up, asks for the parents, and *)
(* then tries the strategies in their order.                               *)
(***************************************************************************)
Opened(name) == [name |-> name, feature |-> Nil, index |-> 1, step |-> "resolving"]
Top(c)       == stack[c][Len(stack[c])]
At(c, step)  == stack[c] # <<>> /\ Top(c).step = step
Becomes(c, frame) == stack' = [stack EXCEPT ![c][Len(stack[c])] = frame]

\* IsEnabled, with WithFallback(fallback), or GetVariant with or without
\* WithVariantFallback; a caller may call again.
Call(c, name, method, fallback) ==
  /\ call[c].step \in {"idle", "returned"}
  /\ call' = [call EXCEPT ![c] = [Idle EXCEPT !.step = "running", !.name = name,
                                             !.method = method, !.fallback = fallback]]
  /\ stack' = [stack EXCEPT ![c] = <<Opened(name)>>]
  /\ seen' = [seen EXCEPT ![c] = {toggles, segments}]
  /\ since' = [since EXCEPT ![c] = installs]
  /\ UNCHANGED <<store, disabledVariant>>

\* Mutant: of a parent that is off the variant is still compared.
DependencyHoldsByVariant(dependency, outcome) ==
  IF dependency.enabled
  THEN dependency.variants # {} /\ outcome.variant # Nil
         => outcome.variant \in dependency.variants
  ELSE ~outcome.enabled

\* What isParentDependencySatisfied makes of the outcome of a parent.
DependencyHolds(dependency, outcome) ==
  IF dependency.enabled
  THEN /\ outcome.enabled
       /\ dependency.variants # {} /\ outcome.variant # Nil
            => outcome.variant \in dependency.variants
  ELSE ~outcome.enabled

\* Mutant: the loop over the dependencies does not advance.
ResumedAtSameParent(frame, outcome) ==
  IF DependencyHolds(frame.feature.dependencies[frame.index], outcome)
  THEN [frame EXCEPT !.step = "parents"] ELSE [frame EXCEPT !.step = "unsatisfied"]

\* The activation that asked for a parent goes on with its outcome.
Resumed(frame, outcome) ==
  LET dependencies == frame.feature.dependencies
      last         == frame.index = Len(dependencies)
  IN  IF ~DependencyHolds(dependencies[frame.index], outcome)
      THEN [frame EXCEPT !.step = "unsatisfied"]
      ELSE [frame EXCEPT !.step = IF last THEN "strategies" ELSE "parents",
                         !.index = IF last THEN 1 ELSE @ + 1]

\* The innermost activation returns; IsEnabled is done with the outermost.
Finish(c, outcome) ==
  LET rest == SubSeq(stack[c], 1, Len(stack[c]) - 1)
  IN  IF rest = <<>>
      THEN /\ stack' = [stack EXCEPT ![c] = <<>>]
           /\ call' = [call EXCEPT ![c] =
                [@ EXCEPT !.step = IF call[c].method = "IsEnabled" THEN "returned"
                                   ELSE "deciding",
                          !.feature = Top(c).feature,
                          !.enabled = outcome.enabled, !.variant = outcome.variant]]
      ELSE /\ stack' = [stack EXCEPT ![c] =
                          [rest EXCEPT ![Len(rest)] = Resumed(@, outcome)]]
           /\ UNCHANGED call

Unshared == UNCHANGED <<store, seen, since, disabledVariant>>

\* resolveToggle, under the read lock.  A fallback is only known to the
\* activation that IsEnabled made.
Resolve(c) ==
  /\ At(c, "resolving")
  /\ ~locked
  /\ LET name    == Top(c).name
         known   == name \in DOMAIN toggles.features
         feature == toggles.features[name]
         asked   == Len(stack[c]) = 1 /\ call[c].method = "IsEnabled"
     IN  \/ /\ known
            /\ Becomes(c, [Top(c) EXCEPT
                             !.feature = feature,
                             !.step = IF feature.dependencies = <<>> THEN "strategies"
                                      ELSE "parents"])
            /\ UNCHANGED call
         \/ ~known /\ Finish(c, IF asked /\ call[c].fallback THEN On(Nil) ELSE Off)
  /\ Unshared

\* Whether a parent with dependencies of its own is refused.
ParentAsked(c, nestingRefused) ==
  /\ At(c, "parents")
  /\ ~locked
  /\ LET parent == Top(c).feature.dependencies[Top(c).index].feature
         usable == /\ parent \in DOMAIN toggles.features
                   /\ nestingRefused => toggles.features[parent].dependencies = <<>>
     IN  IF usable
         THEN stack' = [stack EXCEPT ![c] = Append(@, Opened(parent))] /\ UNCHANGED call
         ELSE Finish(c, Off)
  /\ Unshared

\* Mutant: parents may have parents.
AskAnyParent(c) == ParentAsked(c, FALSE)

\* The parent toggle is looked up, and looked up again by its own isEnabled.
AskParent(c) == ParentAsked(c, TRUE)

Unsatisfied(c) == At(c, "unsatisfied") /\ Finish(c, Off) /\ Unshared

Feature(c) == Top(c).feature
Trying(c)  == At(c, "strategies") /\ Feature(c).enabled /\ Top(c).index <= Len(Feature(c).strategies)
Strategy(c) == Feature(c).strategies[Top(c).index]

SwitchedOff(c) == At(c, "strategies") /\ ~Feature(c).enabled /\ Finish(c, Off) /\ Unshared

WithoutStrategies(c) ==
  At(c, "strategies") /\ Feature(c).enabled /\ Feature(c).strategies = <<>>
  /\ Finish(c, On(Nil)) /\ Unshared

SegmentMissing(strategy, d) == strategy.segment # Nil /\ strategy.segment \notin DOMAIN d.segments
SegmentMet(strategy, d)     == strategy.segment # Nil => d.segments[strategy.segment]

NextStrategy(c) == Becomes(c, [Top(c) EXCEPT !.index = @ + 1]) /\ UNCHANGED call

\* The strategy is unknown, or its constraints or the strategy itself say no.
PassStrategy(c) ==
  /\ Trying(c)
  /\ Strategy(c).known
       => ~SegmentMissing(Strategy(c), segments)
          /\ ~(SegmentMet(Strategy(c), segments) /\ Strategy(c).met)
  /\ NextStrategy(c)
  /\ Unshared

\* Mutant: a strategy that names a lost segment is passed over.
PassLostSegment(c) ==
  /\ Trying(c)
  /\ Strategy(c).known /\ SegmentMissing(Strategy(c), segments)
  /\ NextStrategy(c)
  /\ Unshared

\* segment does not exist: the toggle is off, later strategies are not tried.
MissSegment(c) ==
  /\ Trying(c)
  /\ Strategy(c).known /\ SegmentMissing(Strategy(c), segments)
  /\ Finish(c, Off)
  /\ Unshared

\* Mutant: no variant when all weights are 0.
PickedByWeight(variants) == variants

\* VariantCollection.GetVariant, and the outcome it stands for: it sets both
\* flags of the variant it returns, whichever that is.
Picked(variants) == IF variants = ZeroWeights THEN Disabled ELSE variants
FlagsSet(variants) ==
  disabledVariant' = IF variants = ZeroWeights
                     THEN [enabled |-> TRUE, featureEnabled |-> TRUE] ELSE disabledVariant

Satisfied(c) ==
  /\ Trying(c)
  /\ Strategy(c).known
  /\ ~SegmentMissing(Strategy(c), segments)
  /\ SegmentMet(Strategy(c), segments) /\ Strategy(c).met

ApplyPlainStrategy(c) ==
  /\ Satisfied(c)
  /\ Strategy(c).variants = NoVariants
  /\ Finish(c, On(Nil))
  /\ Unshared

\* Without a group id among its parameters a strategy with variants is off.
ApplyStrategyWithVariants(c) ==
  /\ Satisfied(c)
  /\ Strategy(c).variants # NoVariants
  /\ \/ ~Strategy(c).groupId /\ Finish(c, Off) /\ UNCHANGED disabledVariant
     \/ /\ Strategy(c).groupId
        /\ Finish(c, On(Picked(Strategy(c).variants)))
        /\ FlagsSet(Strategy(c).variants)
  /\ UNCHANGED <<store, seen, since>>

NoStrategyLeft(c) ==
  /\ At(c, "strategies") /\ Feature(c).enabled /\ Feature(c).strategies # <<>>
  /\ Top(c).index > Len(Feature(c).strategies)
  /\ Finish(c, Off)
  /\ Unshared

-----------------------------------------------------------------------------
(***************************************************************************)
(* getVariantWithoutMetrics, after isEnabled.                              *)
(***************************************************************************)
FallbackVariant(c, otherwise) == IF call[c].fallback THEN Fallback ELSE otherwise

Deciding(c) == call[c].step = "deciding"

Answers(c, variant) ==
  /\ call' = [call EXCEPT ![c].step = "returned", ![c].variant = variant]
  /\ UNCHANGED <<store, stack, seen, since>>

VariantOfDisabled(c) ==
  /\ Deciding(c) /\ ~call[c].enabled
  /\ Answers(c, FallbackVariant(c, Disabled))
  /\ UNCHANGED disabledVariant

VariantOfStrategy(c) ==
  /\ Deciding(c) /\ call[c].enabled /\ call[c].variant # Nil
  /\ Answers(c, call[c].variant)
  /\ UNCHANGED disabledVariant

VariantOfFeature(c) ==
  /\ Deciding(c) /\ call[c].enabled /\ call[c].variant = Nil
  /\ \/ /\ call[c].feature.variants = NoVariants
        /\ Answers(c, FallbackVariant(c, FeatureOn))
        /\ UNCHANGED disabledVariant
     \/ /\ call[c].feature.variants # NoVariants
        /\ Answers(c, Picked(call[c].feature.variants))
        /\ FlagsSet(call[c].feature.variants)

-----------------------------------------------------------------------------
Evaluate(c) ==
  \/ Resolve(c) \/ AskParent(c) \/ Unsatisfied(c)
  \/ SwitchedOff(c) \/ WithoutStrategies(c) \/ PassStrategy(c) \/ MissSegment(c)
  \/ ApplyPlainStrategy(c) \/ ApplyStrategyWithVariants(c) \/ NoStrategyLeft(c)
  \/ VariantOfDisabled(c) \/ VariantOfStrategy(c) \/ VariantOfFeature(c)

Next ==
  \/ \E d \in Updates[toggles] : InstallSegments(d)
  \/ ResetToggles
  \/ \E c \in Callers :
       \/ Evaluate(c)
       \/ \E name \in Names, method \in {"IsEnabled", "GetVariant"}, fallback \in BOOLEAN :
            Call(c, name, method, fallback)

Spec == Init /\ [][Next]_vars

\* The goroutines run, the poller releases its lock, and an RWMutex lets a
\* reader in between two writers (SF).
FairSpec == Spec /\ WF_vars(ResetToggles) /\ \A c \in Callers : SF_vars(Evaluate(c))

-----------------------------------------------------------------------------
(***************************************************************************)
(* What an evaluation is meant to compute from one document.               *)
(***************************************************************************)

\* The strategies that settle the matter: they apply, or name a lost segment.
Decisive(d, f) ==
  {i \in DOMAIN f.strategies :
     LET s == f.strategies[i]
     IN  s.known /\ (SegmentMissing(s, d) \/ (SegmentMet(s, d) /\ s.met))}

OwnOutcome(d, f) ==
  IF ~f.enabled THEN Off
  ELSE IF f.strategies = <<>> THEN On(Nil)
  ELSE IF Decisive(d, f) = {} THEN Off
  ELSE LET first == f.strategies[CHOOSE i \in Decisive(d, f) : \A j \in Decisive(d, f) : i <= j]
       IN  IF SegmentMissing(first, d) THEN Off
           ELSE IF first.variants = NoVariants THEN On(Nil)
           ELSE IF first.groupId THEN On(Picked(first.variants)) ELSE Off

\* What a toggle that is on resolves to: the variant of the strategy that
\* applies, or else one of its own.
ResolvedVariant(d, f) ==
  IF OwnOutcome(d, f).variant # Nil THEN OwnOutcome(d, f).variant
  ELSE IF f.variants = NoVariants THEN FeatureOn ELSE Picked(f.variants)

\* "Variants contains a string of variants that the dependency should resolve
\* to" (api/feature.go:60).
ParentHolds(d, dependency) ==
  /\ dependency.feature \in DOMAIN d.features
  /\ LET parent == d.features[dependency.feature]
         on     == OwnOutcome(d, parent).enabled
     IN  /\ parent.dependencies = <<>>
         /\ on = dependency.enabled
         /\ on /\ dependency.variants # {} => ResolvedVariant(d, parent) \in dependency.variants

Outcome(d, f) ==
  IF \A i \in DOMAIN f.dependencies : ParentHolds(d, f.dependencies[i])
  THEN OwnOutcome(d, f) ELSE Off

IsOn(d, name, fallback) ==
  IF name \in DOMAIN d.features THEN Outcome(d, d.features[name]).enabled ELSE fallback

VariantFor(d, name, fallback) ==
  LET f       == d.features[name]
      Or(other) == IF fallback THEN Fallback ELSE other
  IN  IF ~IsOn(d, name, FALSE) THEN Or(Disabled)
      ELSE IF Outcome(d, f).variant # Nil THEN Outcome(d, f).variant
      ELSE IF f.variants = NoVariants THEN Or(FeatureOn)
      ELSE Picked(f.variants)

-----------------------------------------------------------------------------
(***************************************************************************)
(* Correctness.                                                            *)
(***************************************************************************)
Returned(c, method) == call[c].step = "returned" /\ call[c].method = method

\* A dependency on variants, of a parent that is on without a variant of a
\* strategy, and whose own variant is none of those.
OverlooksVariants(d, dependency) ==
  /\ dependency.enabled /\ dependency.variants # {}
  /\ dependency.feature \in DOMAIN d.features
  /\ LET parent == d.features[dependency.feature]
     IN  /\ OwnOutcome(d, parent) = On(Nil)
         /\ ResolvedVariant(d, parent) \notin dependency.variants

\* An evaluation that no install overtakes answers what the toggle, its
\* parents and its strategies in that document say, unless a dependency asks
\* for other variants than its parent's own: client.go:371 compares only what a
\* strategy gave (see DependencyVariantsRespected).
AnswerOfOneDocument ==
  \A c \in Callers : \A d \in seen[c] :
    /\ seen[c] = {d}
    /\ call[c].name \in DOMAIN d.features =>
         LET dependencies == d.features[call[c].name].dependencies
         IN  \A i \in DOMAIN dependencies : ~OverlooksVariants(d, dependencies[i])
    => /\ Returned(c, "IsEnabled") =>
            call[c].enabled = IsOn(d, call[c].name, call[c].fallback)
       /\ Returned(c, "GetVariant") =>
            call[c].variant = VariantFor(d, call[c].name, call[c].fallback)

\* A toggle is on only if each parent that must be on, in one of some variants,
\* resolves to one of them (api/feature.go:60).
DependencyVariantsRespected ==
  \A c \in Callers : \A d \in seen[c] :
    /\ seen[c] = {d} /\ call[c].name \in DOMAIN d.features
    /\ Returned(c, "IsEnabled") /\ call[c].enabled
    => LET dependencies == d.features[call[c].name].dependencies
       IN  \A i \in DOMAIN dependencies :
             dependencies[i].enabled /\ dependencies[i].variants # {} =>
               /\ dependencies[i].feature \in DOMAIN d.features
               /\ ResolvedVariant(d, d.features[dependencies[i].feature])
                    \in dependencies[i].variants

\* Parents of parents are never evaluated, so that toggles that depend on one
\* another cannot exhaust the stack; only an install between the two lookups
\* of a parent lets the evaluation go one level deeper.
StackBounded == \A c \in Callers : Len(stack[c]) <= 2 + installs - since[c]

\* What the strategies of a toggle may come to when each reads its segment from
\* any of some documents: one applies, and those before it do not.
Applies(docs, s) ==
  /\ s.known /\ s.met /\ (s.variants # NoVariants => s.groupId)
  /\ \E d \in docs : ~SegmentMissing(s, d) /\ SegmentMet(s, d)

Passes(docs, s) ==
  s.known => \E d \in docs : ~SegmentMissing(s, d) /\ ~(SegmentMet(s, d) /\ s.met)

CanBeOn(docs, f) ==
  /\ f.enabled
  /\ \/ f.strategies = <<>>
     \/ \E i \in DOMAIN f.strategies :
          Applies(docs, f.strategies[i]) /\ \A j \in 1 .. i - 1 : Passes(docs, f.strategies[j])

\* The documents in memory during a call may be mixed in its answer, but nothing
\* else may: a toggle that is on is switched on in one of them and its strategies
\* let the call in with segments of them, and so it is for each of the parents
\* it had there that must be on.  No single document need have the toggle on.
EnabledHasWitness ==
  \A c \in Callers : Returned(c, "IsEnabled") /\ call[c].enabled /\ call[c].feature # Nil =>
    \E d \in seen[c] :
      /\ call[c].name \in DOMAIN d.features
      /\ LET f == d.features[call[c].name]
         IN  /\ CanBeOn(seen[c], f)
             /\ \A i \in DOMAIN f.dependencies : f.dependencies[i].enabled =>
                  \E e \in seen[c] :
                    /\ f.dependencies[i].feature \in DOMAIN e.features
                    /\ CanBeOn(seen[c], e.features[f.dependencies[i].feature])

\* What an activation that knows its toggle has left to look at: strategies,
\* after the parents.
Left(frame) ==
  LET f == frame.feature
  IN  CASE frame.step = "unsatisfied" -> 0
        [] frame.step = "strategies"  -> Len(f.strategies) + 1 - frame.index
        [] frame.step = "parents"     -> Len(f.strategies) + 2 + Len(f.dependencies) - frame.index

Nearer(frame, next) ==
  /\ next.name = frame.name /\ next.step # "resolving" /\ Left(next) >= 0
  /\ frame.step # "resolving" => next.feature = frame.feature /\ Left(next) < Left(frame)

\* The activations below the innermost wait unchanged; that is either a new one
\* or has less left than before.
Forward(frames, next) ==
  LET i == Len(next)
  IN  /\ i <= Len(frames) + 1
      /\ \A j \in 1 .. i - 1 : next[j] = frames[j]
      /\ i <= Len(frames) => Nearer(frames[i], next[i])

\* No step of an evaluation is for nothing, whatever is installed meanwhile: it
\* returns, asks for a parent, or brings an activation, with the toggle it once
\* looked up, nearer to its end.  With StackBounded no call goes round for ever,
\* however the goroutines are scheduled.
EvaluationAdvances ==
  [][\A c \in Callers :
       stack[c] # <<>> /\ stack'[c] \notin {stack[c], <<>>} => Forward(stack[c], stack'[c])]_vars

\* Every evaluation returns, whatever the dependencies and however often the
\* document is replaced meanwhile.
EvaluationReturns ==
  \A c \in Callers : call[c].step = "running" ~> call[c].step = "returned"

\* The "default variant if feature is not found or if the feature is disabled"
\* tells so by its "Enabled and FeatureEnabled properties" (api/variant.go:88-91).
DefaultVariantIsOff ==
  \A c \in Callers : \A d \in seen[c] :
    seen[c] = {d} /\ Returned(c, "GetVariant") /\ call[c].variant = Disabled
      /\ ~IsOn(d, call[c].name, FALSE)
      => ~disabledVariant.enabled /\ ~disabledVariant.featureEnabled
==============================================================================
