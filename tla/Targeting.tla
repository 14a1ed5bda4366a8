------------------------------ MODULE Targeting ------------------------------
(***************************************************************************)
(* Whom a strategy turns a toggle on for, and with which variant: one      *)
(* strategy of isEnabled (client.go:301-346) with its constraints, its     *)
(* parameters and its variants (api/feature.go, api/variant.go), asked     *)
(* again and again for one context while an operator edits it.             *)
(*                                                                         *)
(* Evaluation has the strategies of a toggle one after the other, and      *)
(* takes what is computed here as the outcome of each.  The variants of a  *)
(* toggle itself go through the same VariantCollection, with the name of   *)
(* the toggle as the group.  The constraints are those of the segments,    *)
(* followed by those of the strategy.                                      *)
(***************************************************************************)
EXTENDS Strategies

CONSTANTS
  StaticContexts,   \* contexts that NewClient may have made
  Given,            \* contexts that calls bring
  VariantNames,
  Disabled,         \* DISABLED_VARIANT
  NoVariant,        \* the strategy has none, or is off
  NoAnswer,         \* nothing was asked yet
  Families,         \* sets of settings that one strategy is given in turn
  MaxClock,         \* bound: the clock stops there
  MaxCalls          \* bound: evaluations

OverrideRule == [contextName : FieldNames, values : SUBSET Values]

Variant ==
  [name : VariantNames, weight : Int, stickiness : FieldNames \cup {Empty, "default", "random"},
   overrides : Seq(OverrideRule)]

Setting ==
  [strategy : StrategyNames, parameters : Parameters, constraints : Seq(Constraint),
   variants : Seq(Variant)]

Settings == UNION Families

ASSUME TargetingAssumption ==
  /\ StaticContexts \subseteq Context /\ Given \subseteq Context
  /\ Settings \subseteq Setting
  /\ {Disabled, NoVariant} \cap VariantNames = {} /\ Disabled # NoVariant
  /\ NoAnswer \notin Setting
  /\ MaxClock \in Nat /\ MaxCalls \in Nat

VARIABLES
  family,            \* the settings that the strategy is edited to
  static, given,     \* the client's context, and the one of the calls
  clock,             \* time.Now
  step,              \* where the evaluation is
  setting,           \* the setting it found
  index,             \* of the loop it is in
  bounds,            \* history: the partial sums of the weights
  totalWeight, target, counter,
  since,             \* history: the time it began
  previous, answer,  \* history: the last two evaluations that ended
  calls

vars == <<family, static, given, clock, step, setting, index, bounds, totalWeight, target,
          counter, since, previous, answer, calls>>
world == <<family, static, given, clock>>
loops == <<bounds, totalWeight, target, counter>>
books == <<previous, answer>>

Steps == {"idle", "constraints", "strategy", "variants", "summing", "drawing", "picking"}
Ends  == {"on", "off", "error", "panic"}

\* picked is the index of a variant that its weight selected, and 0 otherwise.
AnswerRecord ==
  [setting : Setting, end : Ends, variant : VariantNames \cup {Disabled, NoVariant},
   picked : Nat, target : Nat, bounds : Seq(Int), since : Nat, until : Nat]

None == [setting |-> NoAnswer]

TypeOK ==
  /\ family \in Families /\ setting \in Setting
  /\ static \in Context /\ given \in Context
  /\ clock \in 0 .. MaxClock /\ since \in 0 .. MaxClock
  /\ step \in Steps
  /\ index \in Nat \ {0}
  /\ bounds \in Seq(Int) /\ totalWeight \in Int
  /\ target \in Nat /\ counter \in Nat
  /\ previous \in AnswerRecord \cup {None} /\ answer \in AnswerRecord \cup {None}
  /\ calls \in 0 .. MaxCalls

Init ==
  /\ family \in Families /\ setting \in family
  /\ static \in StaticContexts /\ given \in Given
  /\ clock = 0 /\ since = 0
  /\ step = "idle" /\ index = 1
  /\ bounds = <<>> /\ totalWeight = 0 /\ target = 0 /\ counter = 0
  /\ previous = None /\ answer = None
  /\ calls = 0

\* The context that is evaluated.
ctx == Override(static, given)

-----------------------------------------------------------------------------
(***************************************************************************)
(* Around the evaluation.                                                  *)
(***************************************************************************)
TimePasses ==
  /\ clock < MaxClock
  /\ clock' = clock + 1
  /\ UNCHANGED <<family, static, given, step, setting, index, loops, since, books, calls>>

\* The strategy may have been edited since the last call; an edit during a call
\* makes a new toggle and does not reach the one that is evaluated.
Ask(found) ==
  /\ step = "idle"
  /\ calls < MaxCalls
  /\ calls' = calls + 1
  /\ setting' = found
  /\ since' = clock
  /\ step' = "constraints" /\ index' = 1
  /\ UNCHANGED <<world, loops, books>>

Goto(next, i) ==
  /\ step' = next /\ index' = i
  /\ UNCHANGED <<world, setting, since, books, calls>>

Ended(end, variant, picked) ==
  /\ step' = "idle" /\ index' = 1
  /\ previous' = answer
  /\ answer' = [setting |-> setting, end |-> end, variant |-> variant, picked |-> picked,
                target |-> target, bounds |-> bounds, since |-> since, until |-> clock]
  /\ bounds' = <<>> /\ totalWeight' = 0 /\ target' = 0 /\ counter' = 0
  /\ UNCHANGED <<world, setting, since, calls>>

-----------------------------------------------------------------------------
(***************************************************************************)
(* constraints.Check, and IsEnabled of the strategy.                       *)
(***************************************************************************)
Checking == step = "constraints" /\ index <= Len(setting.constraints)
Checked  == CheckConstraintInvertible(ctx, setting.constraints[index], clock)

\* Mutant: a constraint with an error is passed when it is inverted.
PassWhenOk == Checking /\ Checked.ok /\ Goto("constraints", index + 1) /\ UNCHANGED loops

PassConstraint ==
  /\ Checking
  /\ Checked.ok /\ ~Checked.err
  /\ Goto("constraints", index + 1) /\ UNCHANGED loops

\* Mutant: the error of a constraint is not returned.
FailSilently ==
  /\ Checking
  /\ ~Checked.ok \/ Checked.err
  /\ Ended("off", NoVariant, 0)

FailConstraint ==
  /\ Checking
  /\ ~Checked.ok \/ Checked.err
  /\ Ended(IF Checked.err THEN "error" ELSE "off", NoVariant, 0)

AllConstraintsHold ==
  /\ step = "constraints" /\ index > Len(setting.constraints)
  /\ Goto("strategy", 1) /\ UNCHANGED loops

\* A strategy with variants is off without a group id among its parameters.
AskStrategy ==
  /\ step = "strategy"
  /\ \E reply \in StrategyAnswers(setting.strategy, setting.parameters, ctx) :
       \/ reply = "panic" /\ Ended("panic", NoVariant, 0)
       \/ reply = "no" /\ Ended("off", NoVariant, 0)
       \/ reply = "yes" /\ setting.variants = <<>> /\ Ended("on", NoVariant, 0)
       \/ /\ reply = "yes" /\ setting.variants # <<>>
          /\ IF setting.parameters.groupId \in Groups
             THEN Goto("variants", 1) /\ UNCHANGED loops
             ELSE Ended("off", NoVariant, 0)

-----------------------------------------------------------------------------
(***************************************************************************)
(* VariantCollection.GetVariant.                                           *)
(***************************************************************************)

\* An override knows three fields by name, and the properties.
GetIdentifier(rule) ==
  IF rule.contextName \in {"userId", "sessionId", "remoteAddress"}
  THEN ctx[rule.contextName] ELSE Property(ctx, rule.contextName)

MatchValue(rule) == GetIdentifier(rule) \in rule.values

Matches(variant) == \E i \in DOMAIN variant.overrides : MatchValue(variant.overrides[i])

\* getOverrideVariant: the first variant with an override that matches.
ScanOverrides ==
  /\ step = "variants"
  /\ IF index > Len(setting.variants)
     THEN Goto("summing", 1) /\ UNCHANGED loops
     ELSE IF Matches(setting.variants[index])
          THEN Ended("on", setting.variants[index].name, 0)
          ELSE Goto("variants", index + 1) /\ UNCHANGED loops

\* The first loop of getVariantFromWeights.
SumWeights ==
  /\ step = "summing" /\ index <= Len(setting.variants)
  /\ totalWeight' = totalWeight + setting.variants[index].weight
  /\ bounds' = Append(bounds, totalWeight')
  /\ Goto("summing", index + 1)
  /\ UNCHANGED <<target, counter>>

\* Mutant: a total of 0 is not looked at.
SummedUnchecked ==
  step = "summing" /\ index > Len(setting.variants) /\ Goto("drawing", 1) /\ UNCHANGED loops

WeightsSummed ==
  /\ step = "summing" /\ index > Len(setting.variants)
  /\ \/ totalWeight = 0 /\ Ended("on", Disabled, 0)
     \/ totalWeight # 0 /\ Goto("drawing", 1) /\ UNCHANGED loops

\* Mutant: the session is not looked at.
SeedsWithoutSession(sticky) ==
  IF sticky \in {"default", Empty}
  THEN IF ctx.userId # Empty THEN {ctx.userId}
       ELSE IF ctx.remoteAddress # Empty THEN {ctx.remoteAddress} ELSE RandomIds
  ELSE IF Field(ctx, sticky) # Empty THEN {Field(ctx, sticky)} ELSE RandomIds

\* What getSeed may return; "random" is the name of a field here.
SeedsOf(sticky) ==
  IF sticky \in {"default", Empty}
  THEN IF ctx.userId # Empty THEN {ctx.userId}
       ELSE IF ctx.sessionId # Empty THEN {ctx.sessionId}
       ELSE IF ctx.remoteAddress # Empty THEN {ctx.remoteAddress} ELSE RandomIds
  ELSE IF Field(ctx, sticky) # Empty THEN {Field(ctx, sticky)} ELSE RandomIds

\* The total is taken modulo 2^32, and a division by zero panics.
DrawTarget ==
  /\ step = "drawing"
  /\ \/ totalWeight % Width = 0 /\ Ended("panic", NoVariant, 0)
     \/ /\ totalWeight % Width # 0
        /\ \E id \in SeedsOf(setting.variants[1].stickiness) :
             target' = NormalizedVariantValue(id, setting.parameters.groupId, totalWeight,
                                              VariantSeed)
        /\ Goto("picking", 1)
        /\ UNCHANGED <<bounds, totalWeight, counter>>

\* Mutant: the counter has a sign.
SignedCounterAfter == counter + setting.variants[index].weight

CounterAfter == (counter + setting.variants[index].weight) % Width

\* Mutant: the variant before the target is taken.
PickVariantBefore ==
  /\ step = "picking"
  /\ IF index <= Len(setting.variants)
     THEN IF CounterAfter > target
          THEN Ended("on", setting.variants[index].name, index)
          ELSE counter' = CounterAfter /\ Goto("picking", index + 1)
               /\ UNCHANGED <<bounds, totalWeight, target>>
     ELSE Ended("on", Disabled, 0)

\* The second loop.  The return behind it is never reached: the last counter is
\* the total modulo 2^32, which no target exceeds.
PickVariant ==
  /\ step = "picking"
  /\ IF index <= Len(setting.variants)
     THEN IF CounterAfter >= target
          THEN Ended("on", setting.variants[index].name, index)
          ELSE counter' = CounterAfter /\ Goto("picking", index + 1)
               /\ UNCHANGED <<bounds, totalWeight, target>>
     ELSE Ended("on", Disabled, 0)

-----------------------------------------------------------------------------
Evaluate ==
  \/ PassConstraint \/ FailConstraint \/ AllConstraintsHold \/ AskStrategy
  \/ ScanOverrides \/ SumWeights \/ WeightsSummed \/ DrawTarget \/ PickVariant

Next == (\E found \in family : Ask(found)) \/ TimePasses \/ Evaluate

Spec == Init /\ [][Next]_vars

-----------------------------------------------------------------------------
(***************************************************************************)
(* What the settings mean.                                                 *)
(***************************************************************************)

\* The reference for one constraint: an error fulfils nothing, inverted or not.
Meets(c, time) == Evaluable(ctx, c) /\ CheckConstraint(ctx, c, time).ok # c.inverted

\* The clock goes on while an evaluation runs.
MetDuring(c, a)     == \E time \in a.since .. a.until : Meets(c, time)
MetThroughout(c, a) == \A time \in a.since .. a.until : Meets(c, time)

TotalOf(a) == a.bounds[Len(a.bounds)]

\* Shares make sense: no weight is negative and the total fits in 32 bits.
ProperWeights(variants) == \A i \in DOMAIN variants : variants[i].weight >= 0
ProperShares(a) == ProperWeights(a.setting.variants) /\ TotalOf(a) < Width

Gradual == {"flexibleRollout", "gradualRolloutUserId", "gradualRolloutSessionId"}

\* The id that a gradual strategy hashes, where it does not draw one.
StickyIds(s) ==
  CASE s.strategy = "gradualRolloutUserId"    -> {ctx.userId}
    [] s.strategy = "gradualRolloutSessionId" -> {ctx.sessionId}
    [] OTHER -> IF s.parameters.stickiness = "random" THEN {}
                ELSE IF s.parameters.stickiness \notin {"default", Empty}
                THEN {Field(ctx, s.parameters.stickiness)}
                ELSE {id \in {ctx.userId} : id # Empty}
                       \cup {id \in {ctx.sessionId} : ctx.userId = Empty /\ id # Empty}

\* Nothing in the setting is drawn anew, or depends on the time.
Sticky(s) ==
  /\ s.strategy # "gradualRolloutRandom"
  /\ s.strategy = "flexibleRollout" => StickyIds(s) # {}
  /\ \A i \in DOMAIN s.constraints : Timeless(ctx, s.constraints[i])

StickyVariants(s) ==
  LET sticky == s.variants[1].stickiness
  IN  IF sticky \in {"default", Empty}
      THEN {ctx.userId, ctx.sessionId, ctx.remoteAddress} # {Empty}
      ELSE Field(ctx, sticky) # Empty

\* The same setting, or one that differs in a higher rollout only.
Raised(from, to) ==
  \/ to = from
  \/ /\ to = [from EXCEPT !.parameters.rollout = to.parameters.rollout]
     /\ from.parameters.rollout \in Percentages /\ to.parameters.rollout \in Percentages
     /\ from.parameters.rollout <= to.parameters.rollout

-----------------------------------------------------------------------------
(***************************************************************************)
(* Correctness.                                                            *)
(***************************************************************************)
Pairs == {pair \in {<<previous, answer>>, <<answer, previous>>} : None \notin {pair[1], pair[2]}}

\* A strategy applies only to a context that meets all its constraints; a
\* constraint that cannot be evaluated lets nobody in, inverted or not, and is
\* reported when those before it are met, whatever comes after it.  Nothing else
\* is reported.
ConstraintsRespected ==
  answer # None =>
    LET constraints == answer.setting.constraints
        Unreadable(i) == ~Evaluable(ctx, constraints[i])
    IN  /\ answer.end \in {"on", "panic"} =>
             \A i \in DOMAIN constraints : MetDuring(constraints[i], answer)
        /\ \A i \in DOMAIN constraints :
             Unreadable(i) /\ (\A j \in 1 .. i - 1 : MetThroughout(constraints[j], answer))
               => answer.end = "error"
        /\ answer.end = "error" =>
             \E i \in DOMAIN constraints :
               Unreadable(i) /\ \A j \in 1 .. i - 1 : MetDuring(constraints[j], answer)

\* A rollout of 0 is on for nobody, a full one for everybody whom the strategy
\* has an id for.
RolloutEdges ==
  answer # None /\ answer.setting.strategy \in Gradual =>
    LET s == answer.setting
    IN  /\ s.parameters.rollout = 0 => answer.end # "on"
        /\ /\ s.parameters.rollout = Scale /\ s.parameters.groupId \in Groups
           /\ s.constraints = <<>>
           /\ s.strategy = "flexibleRollout" => s.parameters.stickiness \notin {Missing, Malformed}
           /\ StickyIds(s) # {Empty}
           => answer.end \notin {"off", "error"}

\* Raising the rollout of a strategy switches it off for nobody, lowering it
\* switches it on for nobody, and leaving it leaves every answer.
RaisingKeepsOn ==
  \A pair \in Pairs :
    /\ Raised(pair[1].setting, pair[2].setting)
    /\ Sticky(pair[1].setting)
    /\ pair[1].end = "on"
    => pair[2].end = "on"

\* A variant gets exactly its share of the targets, so nothing when its weight
\* is 0, and only of contexts that no override names; some variant is picked
\* unless all weights are 0.
ExactShares ==
  answer # None /\ answer.bounds # <<>> /\ ProperShares(answer) =>
    LET variants == answer.setting.variants
        i        == answer.picked
    IN  /\ \A j \in DOMAIN variants : ~Matches(variants[j])
        /\ i # 0 => /\ answer.variant = variants[i].name
                    /\ IF i = 1 THEN 0 < answer.target ELSE answer.bounds[i - 1] < answer.target
                    /\ answer.target <= answer.bounds[i]
        /\ i = 0 <=> answer.variant = Disabled
        /\ answer.variant = Disabled <=> TotalOf(answer) = 0

\* Weight that moves between other variants moves nobody: who was given a
\* variant keeps it as long as the total and the bounds of its share stay.
ReweighingKeepsOthers ==
  \A pair \in Pairs :
    LET a == pair[1]
        b == pair[2]
        i == a.picked
        BoundsAt(x) == IF i = 1 THEN <<0, x.bounds[1]>> ELSE <<x.bounds[i - 1], x.bounds[i]>>
    IN  /\ i # 0 /\ b.bounds # <<>> /\ Len(b.bounds) = Len(a.bounds)
        /\ ProperShares(a) /\ ProperShares(b)
        /\ TotalOf(a) = TotalOf(b) /\ BoundsAt(a) = BoundsAt(b)
        /\ StickyVariants(a.setting)
        /\ a.setting.variants[1].stickiness = b.setting.variants[1].stickiness
        /\ a.setting.parameters.groupId = b.setting.parameters.groupId
        => b.picked = i

\* No setting with parameters of their types and proper weights panics, even
\* when parameters are missing, except for the stickiness, which must be there.
OnlyImproperPanics ==
  answer # None /\ answer.end = "panic" =>
    \/ /\ answer.setting.strategy = "flexibleRollout"
       /\ \/ answer.setting.parameters.groupId = Malformed
          \/ answer.setting.parameters.stickiness \in {Missing, Malformed}
    \/ answer.bounds # <<>> /\ ~ProperShares(answer)
==============================================================================
