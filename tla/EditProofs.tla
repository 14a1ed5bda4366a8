------------------------------ MODULE EditProofs -------------------------------
(***************************************************************************)
(* What editing a strategy may do to the answers of Targeting, for every   *)
(* hash, every set of strings, every setting and any number of calls.      *)
(*                                                                         *)
(* Two answers are compared through what each records of itself: why it    *)
(* ended as it did, and in whose share its target was.  The context never  *)
(* changes, so these facts are about a context k and an answer a.          *)
(***************************************************************************)
EXTENDS TargetingProofs

\* Meets, Matches and SeedsOf, of a context.
MeetsIn(k, c, time) == Evaluable(k, c) /\ CheckConstraint(k, c, time).ok # c.inverted

IdentifierIn(k, rule) ==
  IF rule.contextName \in {"userId", "sessionId", "remoteAddress"}
  THEN k[rule.contextName] ELSE Property(k, rule.contextName)

Overridden(k, variants) ==
  \E j \in DOMAIN variants : \E i \in DOMAIN variants[j].overrides :
    IdentifierIn(k, variants[j].overrides[i]) \in variants[j].overrides[i].values

SeedsIn(k, sticky) ==
  IF sticky \in {"default", Empty}
  THEN IF k.userId # Empty THEN {k.userId}
       ELSE IF k.sessionId # Empty THEN {k.sessionId}
       ELSE IF k.remoteAddress # Empty THEN {k.remoteAddress} ELSE RandomIds
  ELSE IF Field(k, sticky) # Empty THEN {Field(k, sticky)} ELSE RandomIds

Replies(k, s) == StrategyAnswers(s.strategy, s.parameters, k)

\* The division by the total panics.
Indivisible(total) == total # 0 /\ total % Width = 0

\* Why an evaluation ended as it did.
EndReason(k, a) ==
  LET s == a.setting
  IN  /\ a.end = "on" =>
           /\ "yes" \in Replies(k, s)
           /\ \A i \in DOMAIN s.constraints :
                \E time \in a.since .. a.until : MeetsIn(k, s.constraints[i], time)
           /\ s.variants # <<>> =>
                /\ s.parameters.groupId \in Groups
                /\ Overridden(k, s.variants) \/ (a.bounds # <<>> /\ ~Indivisible(TotalOf(a)))
      /\ a.end \in {"off", "error"} =>
           \/ \E i \in DOMAIN s.constraints :
                \E time \in a.since .. a.until : ~MeetsIn(k, s.constraints[i], time)
           \/ "no" \in Replies(k, s)
           \/ s.variants # <<>> /\ s.parameters.groupId \notin Groups
      /\ a.end = "panic" =>
           \/ "panic" \in Replies(k, s)
           \/ ~Overridden(k, s.variants) /\ a.bounds # <<>> /\ Indivisible(TotalOf(a))

\* The sums are those of all weights; the target of a variant that its weight
\* selected is that of a seed of the context.
DrawReason(k, a) ==
  /\ a.bounds # <<>> => Len(a.bounds) = Len(a.setting.variants)
  /\ a.picked # 0 =>
       /\ a.bounds # <<>> /\ a.picked \in 1 .. Len(a.bounds)
       /\ \E id \in SeedsIn(k, a.setting.variants[1].stickiness) :
            a.target = NormalizedVariantValue(id, a.setting.parameters.groupId, TotalOf(a),
                                              VariantSeed)

Rising(sums) == \A m, n \in 1 .. Len(sums) : m <= n => sums[m] <= sums[n]

\* In whose share the target was.
ShareReason(a) ==
  a.bounds # <<>> /\ ProperShares(a) =>
    /\ Rising(a.bounds)
    /\ a.picked = 0 <=> TotalOf(a) = 0
    /\ a.picked # 0 => /\ BoundBefore(a.bounds, a.picked) < a.target
                       /\ a.target <= a.bounds[a.picked]

Reasons(k, a) == EndReason(k, a) /\ DrawReason(k, a) /\ ShareReason(a)

ReasonInv == \A a \in {previous, answer} : a # None => Reasons(ctx, a)

\* The loops: the sums rise, and the target is that of a seed.
RunInv ==
  /\ ProperWeights(setting.variants) => Rising(bounds)
  /\ step = "picking" =>
       \E id \in SeedsIn(ctx, setting.variants[1].stickiness) :
         target = NormalizedVariantValue(id, setting.parameters.groupId, totalWeight, VariantSeed)

\* Variants with the same weights have the same sums, from one call to the next.
SumsAgree ==
  /\ answer # None /\ answer.bounds # <<>> =>
       \A j \in 1 .. Len(answer.bounds) :
         answer.bounds[j] = BoundBefore(answer.bounds, j) + answer.setting.variants[j].weight
  /\ answer # None /\ answer.bounds # <<>> /\ answer.setting.variants = setting.variants =>
       \A j \in 1 .. Len(bounds) : bounds[j] = answer.bounds[j]
  /\ None \notin {previous, answer} /\ <<>> \notin {previous.bounds, answer.bounds}
       /\ previous.setting.variants = answer.setting.variants
     => TotalOf(previous) = TotalOf(answer)

EditInv == ReasonInv /\ RunInv /\ SumsAgree

-----------------------------------------------------------------------------
(***************************************************************************)
(* What a higher rollout does to a strategy.                               *)
(***************************************************************************)

\* The strategy draws nothing.
Settled(k, s) ==
  /\ s.strategy # "gradualRolloutRandom"
  /\ s.strategy = "flexibleRollout" =>
       \E id : ResolveStickiness(s.parameters.stickiness, k) = {id}

LEMMA StickySettled ==
  ASSUME NEW s \in Setting, Sticky(s)
  PROVE  Settled(ctx, s)
<1> HIDE DEF ctx
<1> DEFINE sticky == s.parameters.stickiness
<1>1. s.strategy # "gradualRolloutRandom"
  BY DEF Sticky
<1>2. ASSUME s.strategy = "flexibleRollout"
      PROVE  \E id : ResolveStickiness(sticky, ctx) = {id}
  <2>1. StickyIds(s) # {}
    BY <1>2 DEF Sticky
  <2>2. sticky # "random"
    BY <1>2, <2>1 DEF StickyIds
  <2>3. CASE sticky \in {"default", Empty}
    <3>1. ctx.userId # Empty \/ ctx.sessionId # Empty
      BY <1>2, <2>1, <2>2, <2>3 DEF StickyIds
    <3> QED
      BY <2>2, <2>3, <3>1 DEF ResolveStickiness
  <2>4. CASE sticky \notin {"default", Empty}
    BY <2>2, <2>4 DEF ResolveStickiness
  <2> QED
    BY <2>3, <2>4
<1> QED
  BY <1>1, <1>2 DEF Settled

\* Without a draw a strategy has one answer.
LEMMA OneReply ==
  ASSUME NEW k, NEW s \in Setting, Settled(k, s)
  PROVE  \E reply : Replies(k, s) = {reply}
<1> DEFINE p == s.parameters
<1>1. CASE s.strategy = "flexibleRollout"
  <2>1. Replies(k, s) = FlexibleRollout(p, k)
    BY <1>1 DEF Replies, StrategyAnswers
  <2>2. PICK id : ResolveStickiness(p.stickiness, k) = {id}
    BY <1>1 DEF Settled
  <2>3. CASE p.groupId = Malformed \/ ~IsNumber(p.rollout) \/ p.stickiness \in {Missing, Malformed}
    <3>1. FlexibleRollout(p, k) = {"panic"} \/ FlexibleRollout(p, k) = {"no"}
      BY <2>3 DEF FlexibleRollout
    <3> QED
      BY <2>1, <3>1
  <2>4. CASE ~(p.groupId = Malformed \/ ~IsNumber(p.rollout)
               \/ p.stickiness \in {Missing, Malformed})
    <3> DEFINE group == IF p.groupId = Missing THEN Empty ELSE p.groupId
    <3>1. FlexibleRollout(p, k) =
            {Answer(i # Empty /\ WithinRollout(i, group, p.rollout)) : i \in {id}}
      BY <2>2, <2>4 DEF FlexibleRollout
    <3>2. Replies(k, s) = {Answer(id # Empty /\ WithinRollout(id, group, p.rollout))}
      BY <2>1, <3>1
    <3> QED
      BY <3>2
  <2> QED
    BY <2>3, <2>4
<1>2. CASE s.strategy # "flexibleRollout"
  <2>1. s.strategy \in {"default", "userWithId", "gradualRolloutUserId",
                        "gradualRolloutSessionId", "applicationHostname", "remoteAddress"}
    BY <1>2 DEF Settled, Setting, StrategyNames
  <2> QED
    BY <2>1 DEF Replies, StrategyAnswers
<1> QED
  BY <1>1, <1>2

\* A higher rollout turns no yes into anything else.
LEMMA HigherRollout ==
  ASSUME NEW id, NEW group, NEW low \in Percentages, NEW high \in Percentages, low <= high,
         NormalizedRolloutValue(id, group) \in Int, WithinRollout(id, group, low)
  PROVE  WithinRollout(id, group, high)
<1>1. low \in Nat /\ high \in Nat
  BY StrategiesAssumption DEF Percentages
<1> QED
  BY <1>1 DEF WithinRollout

LEMMA RolloutTyping ==
  ASSUME NEW id \in Values, NEW group \in Groups
  PROVE  NormalizedRolloutValue(id, group) \in Int
<1>1. Scale \in Nat \ {0} /\ Width \in Nat /\ Scale < Width /\ RolloutSeed \in Seeds
  BY StrategiesAssumption
<1>2. Scale % Width = Scale /\ Scale \in Int
  BY <1>1, RemainderFits
<1> QED
  BY <1>1, <1>2, TargetRange DEF NormalizedRolloutValue

LEMMA RaisedReplies ==
  ASSUME NEW k \in Context, NEW from \in Setting, NEW to \in Setting, Raised(from, to),
         Settled(k, from), "yes" \in Replies(k, from)
  PROVE  Replies(k, to) = {"yes"}
<1>0. Replies(k, from) = {"yes"}
  BY OneReply
<1>1. CASE to = from
  BY <1>0, <1>1
<1>2. CASE /\ to = [from EXCEPT !.parameters.rollout = to.parameters.rollout]
           /\ from.parameters.rollout \in Percentages /\ to.parameters.rollout \in Percentages
           /\ from.parameters.rollout <= to.parameters.rollout
  <2> DEFINE p == from.parameters
             q == to.parameters
             low == p.rollout
             high == q.rollout
  <2>1. /\ to.strategy = from.strategy /\ q.groupId = p.groupId
        /\ q.stickiness = p.stickiness /\ q.hasList = p.hasList /\ q.list = p.list
    BY <1>2 DEF Setting, Parameters
  <2>2. low \in Percentages /\ high \in Percentages /\ low <= high
        /\ IsNumber(low) /\ IsNumber(high)
    BY <1>2 DEF IsNumber
  <2> HIDE DEF low, high
  <2>3. k.userId \in Values /\ k.sessionId \in Values
    BY DEF Context
  <2>4. ASSUME NEW id \in Values, id \in {k.userId, k.sessionId}, GradualRollout(p, id) = "yes"
        PROVE  GradualRollout(q, id) = "yes"
    <3>1. id # Empty /\ p.groupId \in Groups /\ WithinRollout(id, p.groupId, low)
      BY <2>4 DEF GradualRollout, Answer, low
    <3>2. WithinRollout(id, p.groupId, high)
      BY <2>2, <3>1, RolloutTyping, HigherRollout
    <3> QED
      BY <2>1, <2>2, <3>1, <3>2 DEF GradualRollout, Answer, high
  <2>5. CASE from.strategy = "flexibleRollout"
    <3> DEFINE group == IF p.groupId = Missing THEN Empty ELSE p.groupId
    <3>1. Replies(k, from) = FlexibleRollout(p, k) /\ Replies(k, to) = FlexibleRollout(q, k)
      BY <2>1, <2>5 DEF Replies, StrategyAnswers
    <3>2. PICK id : ResolveStickiness(p.stickiness, k) = {id}
      BY <2>5 DEF Settled
    <3>3. id \in Values
      BY <3>2, StickinessTyping
    <3>4. p.groupId # Malformed /\ p.stickiness \notin {Missing, Malformed}
      BY <1>0, <2>2, <3>1 DEF FlexibleRollout, low
    <3>5. group \in Groups
      BY <3>4, StrategiesAssumption DEF Setting, Parameters
    <3> HIDE DEF group
    <3>6. FlexibleRollout(p, k) =
            {Answer(i # Empty /\ WithinRollout(i, group, low)) : i \in {id}}
      BY <2>2, <3>2, <3>4 DEF FlexibleRollout, group, low
    <3>7. FlexibleRollout(q, k) =
            {Answer(i # Empty /\ WithinRollout(i, group, high)) : i \in {id}}
      BY <2>1, <2>2, <3>2, <3>4 DEF FlexibleRollout, group, high
    <3>8. id # Empty /\ WithinRollout(id, group, low)
      BY <1>0, <3>1, <3>6 DEF Answer
    <3>9. WithinRollout(id, group, high)
      BY <2>2, <3>3, <3>5, <3>8, RolloutTyping, HigherRollout
    <3> QED
      BY <3>1, <3>7, <3>8, <3>9 DEF Answer
  <2>6. CASE from.strategy \in {"gradualRolloutUserId", "gradualRolloutSessionId"}
    <3>1. PICK id \in {k.userId, k.sessionId} :
            /\ Replies(k, from) = {GradualRollout(p, id)}
            /\ Replies(k, to) = {GradualRollout(q, id)}
      BY <2>1, <2>6 DEF Replies, StrategyAnswers
    <3> QED
      BY <1>0, <2>3, <2>4, <3>1
  <2>7. CASE from.strategy \in {"default", "userWithId", "applicationHostname", "remoteAddress"}
    <3>1. Replies(k, to) = Replies(k, from)
      BY <2>1, <2>7
         DEF Replies, StrategyAnswers, UserWithId, ApplicationHostname, RemoteAddress
    <3> QED
      BY <1>0, <3>1
  <2> QED
    BY <2>5, <2>6, <2>7 DEF Settled, Setting, StrategyNames
<1> QED
  BY <1>1, <1>2 DEF Raised

\* What a constraint says of a timeless field it says at any time.
LEMMA TimelessMeets ==
  ASSUME NEW k, NEW c \in Constraint, Timeless(k, c), NEW early, NEW late
  PROVE  MeetsIn(k, c, early) = MeetsIn(k, c, late)
<1>1. CheckConstraint(k, c, early) = CheckConstraint(k, c, late)
  <2>1. CASE c.operator \in OrderOperators
    <3>1. ParserOf[c.operator] = "date" => Field(k, c.contextName) # Empty
      BY <2>1 DEF OrderOperators, ParserOf, Timeless
    <3>2. OperatorOrder(k, c, early) = OperatorOrder(k, c, late)
      BY <3>1 DEF OperatorOrder
    <3> QED
      BY <2>1, <3>2 DEF CheckConstraint, OrderOperators, ParserOf, StrOperators
  <2>2. CASE c.operator \notin OrderOperators
    BY <2>2 DEF CheckConstraint
  <2> QED
    BY <2>1, <2>2
<1> QED
  BY <1>1 DEF MeetsIn

-----------------------------------------------------------------------------
(***************************************************************************)
(* An evaluation that ends knows why.                                      *)
(***************************************************************************)

\* MeetsIn, SeedsIn and Overridden are what the module says of its context.
LEMMA InContext ==
  /\ \A c, time : Meets(c, time) <=> MeetsIn(ctx, c, time)
  /\ \A sticky : SeedsOf(sticky) = SeedsIn(ctx, sticky)
<1> HIDE DEF ctx
<1> QED
  BY DEF Meets, MeetsIn, SeedsOf, SeedsIn

LEMMA OverridesInContext ==
  ASSUME NEW variants
  PROVE  Overridden(ctx, variants) <=> \E j \in DOMAIN variants : Matches(variants[j])
<1> HIDE DEF ctx
<1> QED
  BY DEF Overridden, Matches, MatchValue, GetIdentifier, IdentifierIn

\* What a return records.
LEMMA EndFacts ==
  ASSUME NEW end, NEW variant, NEW picked, Ended(end, variant, picked)
  PROVE  /\ previous' = answer
         /\ answer'.setting = setting /\ answer'.end = end /\ answer'.picked = picked
         /\ answer'.target = target /\ answer'.bounds = bounds
         /\ answer'.since = since /\ answer'.until = clock
         /\ bounds' = <<>> /\ step' = "idle"
         /\ UNCHANGED <<static, given, setting>> /\ ctx' = ctx
<1>1. UNCHANGED <<static, given>>
  BY DEF Ended, world
<1>2. ctx' = ctx
  BY <1>1, SameContext
<1> QED
  BY <1>1, <1>2 DEF Ended

\* The sums are complete, or there are none.
SumsDone == bounds # <<>> => Len(bounds) = Len(setting.variants)

LEMMA EndDraw ==
  ASSUME TypeOK, ShareInv, RunInv, SumsDone, NEW end, NEW variant, NEW picked,
         Ended(end, variant, picked),
         picked # 0 => step = "picking" /\ picked \in 1 .. Len(setting.variants)
  PROVE  DrawReason(ctx, answer')
<1>1. /\ answer'.setting = setting /\ answer'.picked = picked
      /\ answer'.target = target /\ answer'.bounds = bounds
  BY EndFacts
<1>2. ASSUME picked # 0
      PROVE  /\ bounds # <<>> /\ TotalOf(answer') = totalWeight
             /\ picked \in 1 .. Len(bounds)
             /\ \E id \in SeedsIn(ctx, setting.variants[1].stickiness) :
                  target = NormalizedVariantValue(id, setting.parameters.groupId, totalWeight,
                                                  VariantSeed)
  <2>1. step = "picking" /\ bounds # <<>>
    BY <1>2 DEF ShareInv, SumInv
  <2>2. TotalOf(answer') = totalWeight
    BY <1>1, <2>1, LastBound DEF ShareInv, TotalOf
  <2> QED
    BY <1>2, <2>1, <2>2 DEF SumsDone, RunInv
<1> HIDE DEF ctx
<1> QED
  BY <1>1, <1>2 DEF DrawReason, SumsDone

LEMMA EndShare ==
  ASSUME TypeOK, RunInv, ExactShares', NEW end, NEW variant, NEW picked, Ended(end, variant, picked)
  PROVE  ShareReason(answer')
<1>1. answer'.setting = setting /\ answer'.bounds = bounds /\ answer' # None
  <2>1. answer'.setting = setting /\ answer'.bounds = bounds
    BY EndFacts
  <2>2. answer' # None
    BY <2>1, TargetingAssumption DEF TypeOK, None
  <2> QED
    BY <2>1, <2>2
<1> QED
  BY <1>1 DEF ShareReason, ExactShares, ProperShares, BoundBefore, RunInv

\* An answer of yes, for a strategy that has no variants or gets to them.
LEMMA EndOn ==
  ASSUME TypeOK, NEW variant, NEW picked, Ended("on", variant, picked),
         \A i \in 1 .. Len(setting.constraints) : MetSince(i),
         "yes" \in StrategyAnswers(setting.strategy, setting.parameters, ctx),
         setting.variants # <<>> =>
           /\ setting.parameters.groupId \in Groups
           /\ \/ \E j \in DOMAIN setting.variants : Matches(setting.variants[j])
              \/ bounds # <<>> /\ ~Indivisible(bounds[Len(bounds)])
  PROVE  EndReason(ctx, answer')
<1>1. /\ answer'.setting = setting /\ answer'.end = "on" /\ answer'.bounds = bounds
      /\ answer'.since = since /\ answer'.until = clock
  BY EndFacts
<1>2. DOMAIN setting.constraints = 1 .. Len(setting.constraints)
  BY LenProperties DEF TypeOK, Setting
<1>3. \A i \in DOMAIN setting.constraints :
        \E time \in since .. clock : MeetsIn(ctx, setting.constraints[i], time)
  BY <1>2, InContext DEF MetSince
<1>4. (\E j \in DOMAIN setting.variants : Matches(setting.variants[j]))
        => Overridden(ctx, setting.variants)
  BY OverridesInContext
<1> HIDE DEF ctx
<1> QED
  BY <1>1, <1>3, <1>4, Zenon DEF EndReason, Replies, TotalOf

\* An answer of no, or an error.
LEMMA EndOff ==
  ASSUME NEW end \in {"off", "error"}, NEW variant, NEW picked, Ended(end, variant, picked),
         \/ \E i \in DOMAIN setting.constraints :
              \E time \in since .. clock : ~Meets(setting.constraints[i], time)
         \/ "no" \in StrategyAnswers(setting.strategy, setting.parameters, ctx)
         \/ setting.variants # <<>> /\ setting.parameters.groupId \notin Groups
  PROVE  EndReason(ctx, answer')
<1>1. /\ answer'.setting = setting /\ answer'.end = end /\ end # "on" /\ end # "panic"
      /\ answer'.since = since /\ answer'.until = clock
  BY EndFacts
<1>2. \A c, time : Meets(c, time) <=> MeetsIn(ctx, c, time)
  BY InContext
<1> HIDE DEF ctx, Meets
<1> QED
  BY <1>1, <1>2 DEF EndReason, Replies

\* A panic, in the strategy or in the division.
LEMMA EndPanic ==
  ASSUME NEW variant, NEW picked, Ended("panic", variant, picked),
         \/ "panic" \in StrategyAnswers(setting.strategy, setting.parameters, ctx)
         \/ /\ ~\E j \in DOMAIN setting.variants : Matches(setting.variants[j])
            /\ bounds # <<>> /\ Indivisible(bounds[Len(bounds)])
  PROVE  EndReason(ctx, answer')
<1>1. answer'.setting = setting /\ answer'.end = "panic" /\ answer'.bounds = bounds
  BY EndFacts
<1>2. Overridden(ctx, setting.variants)
        => \E j \in DOMAIN setting.variants : Matches(setting.variants[j])
  BY OverridesInContext
<1> HIDE DEF ctx
<1> QED
  BY <1>1, <1>2 DEF EndReason, Replies, TotalOf

\* The reasons of the answers that are kept do not change.
LEMMA ReasonsShift ==
  ASSUME ReasonInv, NEW end, NEW variant, NEW picked, Ended(end, variant, picked),
         Reasons(ctx, answer')
  PROVE  ReasonInv'
<1>1. previous' = answer /\ ctx' = ctx
  BY EndFacts
<1> HIDE DEF ctx
<1> QED
  BY <1>1 DEF ReasonInv

LEMMA ReasonsStay ==
  ASSUME ReasonInv, UNCHANGED <<previous, answer, static, given>>
  PROVE  ReasonInv'
<1>1. ctx' = ctx
  BY SameContext
<1> HIDE DEF ctx
<1> QED
  BY <1>1 DEF ReasonInv

LEMMA EndAll ==
  ASSUME TypeOK, ShareInv, RunInv, ReasonInv, ExactShares', SumsDone,
         NEW end, NEW variant, NEW picked, Ended(end, variant, picked),
         picked # 0 => step = "picking" /\ picked \in 1 .. Len(setting.variants),
         EndReason(ctx, answer')
  PROVE  ReasonInv'
<1>1. DrawReason(ctx, answer') /\ ShareReason(answer')
  BY EndDraw, EndShare
<1> QED
  BY <1>1, ReasonsShift DEF Reasons

LEMMA NextReasons ==
  TypeOK /\ GroupInv /\ ShareInv /\ PassedInv /\ GrantInv /\ ExactShares' /\ RunInv /\ ReasonInv
    /\ [Next]_vars => ReasonInv'
<1> SUFFICES ASSUME TypeOK, GroupInv, ShareInv, PassedInv, GrantInv, ExactShares', RunInv,
                    ReasonInv, [Next]_vars
             PROVE  ReasonInv'
  OBVIOUS
<1>0. ASSUME UNCHANGED <<previous, answer, static, given>> PROVE ReasonInv'
  BY <1>0, ReasonsStay
<1>1. ASSUME NEW next, NEW i, Goto(next, i) PROVE ReasonInv'
  BY <1>0, <1>1 DEF Goto, world, books
<1>2. CASE (\E found \in family : Ask(found)) \/ TimePasses \/ UNCHANGED vars
  BY <1>0, <1>2 DEF Ask, TimePasses, world, books, vars
<1>3. CASE FailConstraint
  <2> DEFINE c == setting.constraints[index]
  <2>1. /\ index \in Nat \ {0} /\ index <= Len(setting.constraints) /\ step = "constraints"
        /\ setting.constraints \in Seq(Constraint) /\ Len(setting.constraints) \in Nat
    BY <1>3, LenProperties DEF FailConstraint, Checking, TypeOK, Setting
  <2>2. index \in DOMAIN setting.constraints /\ c \in Constraint
    BY <2>1, ElementOfSeq, LenProperties
  <2>3. ~Meets(c, clock)
    BY <1>3, <2>2, CheckMeans DEF FailConstraint, Checked
  <2>4. clock \in since .. clock
    BY TargetingAssumption DEF TypeOK, PassedInv
  <2>5. PICK end \in {"error", "off"} : Ended(end, NoVariant, 0)
    BY <1>3 DEF FailConstraint
  <2>6. EndReason(ctx, answer')
    BY <2>2, <2>3, <2>4, <2>5, EndOff
  <2>7. SumsDone
    BY <2>1 DEF SumsDone, ShareInv, SumInv
  <2> QED
    BY <2>5, <2>6, <2>7, EndAll
<1>4. CASE AskStrategy
  <2>1. step = "strategy" /\ \A i \in 1 .. Len(setting.constraints) : MetSince(i)
    BY <1>4 DEF AskStrategy, PassedInv
  <2>2. SumsDone
    BY <2>1 DEF SumsDone, ShareInv, SumInv
  <2>3. ASSUME NEW end, Ended(end, NoVariant, 0), EndReason(ctx, answer') PROVE ReasonInv'
    BY <2>2, <2>3, EndAll
  <2>4. PICK reply \in StrategyAnswers(setting.strategy, setting.parameters, ctx) :
          \/ reply = "panic" /\ Ended("panic", NoVariant, 0)
          \/ reply = "no" /\ Ended("off", NoVariant, 0)
          \/ reply = "yes" /\ setting.variants = <<>> /\ Ended("on", NoVariant, 0)
          \/ /\ setting.variants # <<>> /\ setting.parameters.groupId \notin Groups
             /\ Ended("off", NoVariant, 0)
          \/ Goto("variants", 1)
    BY <1>4 DEF AskStrategy
  <2>5. CASE reply = "panic" /\ Ended("panic", NoVariant, 0)
    BY <2>3, <2>4, <2>5, EndPanic
  <2>6. CASE reply = "no" /\ Ended("off", NoVariant, 0)
    BY <2>3, <2>4, <2>6, EndOff
  <2>7. CASE reply = "yes" /\ setting.variants = <<>> /\ Ended("on", NoVariant, 0)
    BY <2>1, <2>3, <2>4, <2>7, EndOn
  <2>8. CASE /\ setting.variants # <<>> /\ setting.parameters.groupId \notin Groups
             /\ Ended("off", NoVariant, 0)
    BY <2>3, <2>8, EndOff
  <2> QED
    BY <1>1, <2>4, <2>5, <2>6, <2>7, <2>8
<1>5. ASSUME Weighing
      PROVE  /\ \A i \in 1 .. Len(setting.constraints) : MetSince(i)
             /\ "yes" \in StrategyAnswers(setting.strategy, setting.parameters, ctx)
             /\ setting.parameters.groupId \in Groups
  BY <1>5 DEF PassedInv, GrantInv, GroupInv
<1>6. CASE ScanOverrides
  <2>1. step = "variants" /\ Weighing /\ SumsDone
    BY <1>6 DEF ScanOverrides, Weighing, SumsDone, ShareInv, SumInv
  <2>2. CASE index > Len(setting.variants)
    BY <1>1, <1>6, <2>2 DEF ScanOverrides
  <2>3. CASE ~(index > Len(setting.variants)) /\ ~Matches(setting.variants[index])
    BY <1>1, <1>6, <2>3 DEF ScanOverrides
  <2>4. CASE ~(index > Len(setting.variants)) /\ Matches(setting.variants[index])
    <3>1. Ended("on", setting.variants[index].name, 0)
      BY <1>6, <2>4 DEF ScanOverrides
    <3>2. index \in Nat \ {0} /\ index <= Len(setting.variants)
      BY <2>4, LenProperties DEF TypeOK, Setting
    <3>3. index \in DOMAIN setting.variants
      BY <3>2, VariantTyping
    <3>4. EndReason(ctx, answer')
      BY <1>5, <2>1, <2>4, <3>1, <3>3, EndOn
    <3> QED
      BY <2>1, <3>1, <3>4, EndAll
  <2> QED
    BY <2>2, <2>3, <2>4
<1>7. CASE SumWeights
  BY <1>1, <1>7 DEF SumWeights
<1>8. CASE WeightsSummed
  <2>1. CASE totalWeight # 0
    BY <1>1, <1>8, <2>1 DEF WeightsSummed
  <2>2. CASE totalWeight = 0
    <3>1. Ended("on", Disabled, 0) /\ step = "summing" /\ Weighing
      BY <1>8, <2>2 DEF WeightsSummed, Weighing
    <3>2. Len(bounds) = index - 1 /\ index > Len(setting.variants) /\ index \in Nat
          /\ index <= Len(setting.variants) + 1 /\ Len(setting.variants) \in Nat \ {0}
      BY <1>8, <3>1, LenProperties, EmptySeq
         DEF WeightsSummed, ShareInv, SumInv, TypeOK, Setting, GroupInv
    <3>3. SumsDone /\ bounds # <<>>
      <4>1. Len(bounds) = Len(setting.variants) /\ Len(bounds) # 0
        BY <3>2
      <4> QED
        BY <4>1, EmptySeq DEF SumsDone
    <3>4. bounds[Len(bounds)] = 0
      BY <2>2, <3>3, LastBound DEF ShareInv
    <3>5. EndReason(ctx, answer')
      BY <1>5, <3>1, <3>3, <3>4, EndOn DEF Indivisible
    <3> QED
      BY <3>1, <3>3, <3>5, EndAll
  <2> QED
    BY <2>1, <2>2
<1>9. CASE DrawTarget
  <2>1. CASE totalWeight % Width # 0
    BY <1>1, <1>9, <2>1 DEF DrawTarget
  <2>2. CASE totalWeight % Width = 0
    <3>1. Ended("panic", NoVariant, 0) /\ step = "drawing"
      BY <1>9, <2>2 DEF DrawTarget
    <3>2. /\ bounds # <<>> /\ totalWeight # 0 /\ SumsDone
          /\ \A j \in DOMAIN setting.variants : ~Matches(setting.variants[j])
      BY <3>1, LenProperties DEF ShareInv, SumInv, ScanInv, SumsDone, TypeOK, Setting
    <3>3. Indivisible(bounds[Len(bounds)])
      BY <2>2, <3>2, LastBound DEF Indivisible, ShareInv
    <3>4. EndReason(ctx, answer')
      BY <3>1, <3>2, <3>3, EndPanic
    <3> QED
      BY <3>1, <3>2, <3>4, EndAll
  <2> QED
    BY <2>1, <2>2
<1>10. CASE PickVariant
  <2>1. /\ step = "picking" /\ Weighing /\ bounds # <<>> /\ SumsDone
        /\ index \in Nat \ {0} /\ Len(setting.variants) \in Nat
    BY <1>10, LenProperties
       DEF PickVariant, Weighing, ShareInv, SumInv, SumsDone, TypeOK, Setting
  <2>2. ~Indivisible(bounds[Len(bounds)])
    <3>1. bounds[Len(bounds)] = totalWeight
      BY <2>1, LastBound DEF ShareInv
    <3>2. totalWeight % Width # 0
      BY <2>1, RemainderRange, StrategiesAssumption DEF ShareInv, PickInv, TypeOK
    <3> QED
      BY <3>1, <3>2 DEF Indivisible
  <2>3. ASSUME NEW variant, NEW picked, picked # 0 => picked \in 1 .. Len(setting.variants),
               Ended("on", variant, picked)
        PROVE  ReasonInv'
    <3>1. EndReason(ctx, answer')
      BY <1>5, <2>1, <2>2, <2>3, EndOn
    <3> QED
      BY <2>1, <2>3, <3>1, EndAll
  <2>4. CASE index <= Len(setting.variants) /\ CounterAfter >= target
    <3>1. Ended("on", setting.variants[index].name, index) /\ index \in 1 .. Len(setting.variants)
      BY <1>10, <2>1, <2>4 DEF PickVariant
    <3> QED
      BY <2>3, <3>1
  <2>5. CASE index <= Len(setting.variants) /\ ~(CounterAfter >= target)
    BY <1>1, <1>10, <2>5 DEF PickVariant
  <2>6. CASE ~(index <= Len(setting.variants))
    BY <1>10, <2>3, <2>6 DEF PickVariant
  <2> QED
    BY <2>4, <2>5, <2>6
<1> QED
  BY <1>1, <1>2, <1>3, <1>4, <1>6, <1>7, <1>8, <1>9, <1>10
     DEF Next, Evaluate, PassConstraint, AllConstraintsHold

-----------------------------------------------------------------------------
(***************************************************************************)
(* The loops.                                                              *)
(***************************************************************************)

\* One more weight that is not negative.
LEMMA RisingStep ==
  ASSUME NEW sums \in Seq(Int), NEW total \in Int, Rising(sums),
         \A j \in 1 .. Len(sums) : sums[j] <= total
  PROVE  Rising(Append(sums, total))
<1> DEFINE more == Append(sums, total)
           n == Len(sums)
<1>1. /\ n \in Nat /\ Len(more) = n + 1 /\ more[n + 1] = total
      /\ \A j \in 1 .. n : more[j] = sums[j]
  BY LenProperties, AppendProperties
<1> HIDE DEF more
<1> SUFFICES ASSUME NEW i \in 1 .. Len(more), NEW j \in 1 .. Len(more), i <= j
             PROVE  more[i] <= more[j]
  BY DEF Rising, more
<1>2. CASE j = n + 1 /\ i = n + 1
  BY <1>1, <1>2
<1>3. CASE j = n + 1 /\ i # n + 1
  BY <1>1, <1>3
<1>4. CASE j # n + 1
  <2>1. i \in 1 .. n /\ j \in 1 .. n
    BY <1>1, <1>4
  <2> QED
    BY <1>1, <2>1 DEF Rising
<1> QED
  BY <1>2, <1>3, <1>4

LEMMA RisingEmpty == Rising(<<>>)
<1>1. 1 .. Len(<<>>) = {}
  BY EmptySeq
<1> QED
  BY <1>1 DEF Rising

LEMMA NextRun == TypeOK /\ ShareInv /\ RunInv /\ [Next]_vars => RunInv'
<1> SUFFICES ASSUME TypeOK, ShareInv, RunInv, [Next]_vars PROVE RunInv'
  OBVIOUS
<1>1. ASSUME bounds' = <<>>, step' # "picking" PROVE RunInv'
  BY <1>1, RisingEmpty DEF RunInv
<1>2. ASSUME UNCHANGED <<bounds, setting>>, step' # "picking" PROVE RunInv'
  BY <1>2 DEF RunInv, ProperWeights
<1>3. ASSUME UNCHANGED <<bounds, setting, step, target, totalWeight, static, given>> PROVE RunInv'
  <2>1. ctx' = ctx
    BY <1>3, SameContext
  <2> HIDE DEF ctx
  <2> QED
    BY <1>3, <2>1 DEF RunInv, ProperWeights
<1>4. ASSUME NEW end, NEW variant, NEW picked, Ended(end, variant, picked) PROVE RunInv'
  BY <1>1, <1>4 DEF Ended
<1>5. CASE \E found \in family : Ask(found)
  <2>1. bounds' = <<>> /\ step' # "picking"
    BY <1>5 DEF Ask, loops, ShareInv, SumInv
  <2> QED
    BY <1>1, <2>1
<1>6. CASE TimePasses \/ UNCHANGED vars
  BY <1>3, <1>6 DEF TimePasses, vars, loops
<1>7. CASE PassConstraint \/ AllConstraintsHold
  BY <1>2, <1>7 DEF PassConstraint, AllConstraintsHold, Goto, loops
<1>8. CASE FailConstraint
  BY <1>4, <1>8 DEF FailConstraint
<1>9. CASE AskStrategy
  BY <1>2, <1>4, <1>9 DEF AskStrategy, Goto, loops
<1>10. CASE ScanOverrides
  BY <1>2, <1>4, <1>10 DEF ScanOverrides, Goto, loops
<1>11. CASE SumWeights
  <2>1. /\ bounds' = Append(bounds, totalWeight') /\ setting' = setting /\ step' = "summing"
        /\ bounds \in Seq(Int)
    BY <1>11 DEF SumWeights, Goto, TypeOK
  <2>2. totalWeight' \in Int
    <3>1. index \in Nat \ {0} /\ index <= Len(setting.variants)
      BY <1>11 DEF SumWeights, TypeOK
    <3>2. setting.variants[index].weight \in Int
      BY <3>1, VariantTyping
    <3> QED
      BY <1>11, <3>2 DEF SumWeights, TypeOK
  <2>3. ASSUME ProperWeights(setting.variants) PROVE Rising(bounds')
    <3>1. \A j \in 1 .. Len(bounds') : bounds'[j] <= totalWeight'
      BY <1>11, <2>1, <2>3, SumStep DEF ShareInv, SumInv, ProperWeights
    <3>2. \A j \in 1 .. Len(bounds) : bounds[j] <= totalWeight'
      <4>1. /\ Len(bounds') = Len(bounds) + 1 /\ Len(bounds) \in Nat
            /\ \A j \in 1 .. Len(bounds) : bounds'[j] = bounds[j]
        BY <2>1, <2>2, AppendProperties, LenProperties
      <4> QED
        BY <3>1, <4>1
    <3>3. Rising(bounds)
      BY <2>3 DEF RunInv
    <3> QED
      BY <2>1, <2>2, <3>2, <3>3, RisingStep
  <2> QED
    BY <2>1, <2>3 DEF RunInv, ProperWeights
<1>12. CASE WeightsSummed
  BY <1>2, <1>4, <1>12 DEF WeightsSummed, Goto, loops
<1>13. CASE DrawTarget
  <2>1. CASE Ended("panic", NoVariant, 0)
    BY <1>4, <2>1
  <2>2. ASSUME NEW id \in SeedsOf(setting.variants[1].stickiness),
               target' = NormalizedVariantValue(id, setting.parameters.groupId, totalWeight,
                                                VariantSeed),
               Goto("picking", 1), UNCHANGED <<bounds, totalWeight, counter>>
        PROVE  RunInv'
    <3>1. UNCHANGED <<static, given, setting, bounds, totalWeight>>
      BY <2>2 DEF Goto, world
    <3>2. ctx' = ctx
      BY <3>1, SameContext
    <3>3. id \in SeedsIn(ctx, setting.variants[1].stickiness)
      BY <2>2, InContext
    <3> HIDE DEF ctx
    <3> QED
      BY <2>2, <3>1, <3>2, <3>3 DEF RunInv, ProperWeights
  <2> QED
    BY <1>13, <2>1, <2>2 DEF DrawTarget
<1>14. CASE PickVariant
  <2>1. CASE \E variant, picked : Ended("on", variant, picked)
    BY <1>4, <2>1
  <2>2. CASE step = "picking" /\ Goto("picking", index + 1)
             /\ UNCHANGED <<bounds, totalWeight, target>>
    BY <1>3, <2>2 DEF Goto, world
  <2> QED
    BY <1>14, <2>1, <2>2 DEF PickVariant
<1> QED
  BY <1>5, <1>6, <1>7, <1>8, <1>9, <1>10, <1>11, <1>12, <1>13, <1>14 DEF Next, Evaluate

\* A sum of the same weights is the sum of the last answer.
LEMMA SameSum ==
  ASSUME NEW variants \in Seq(Variant), NEW sums \in Seq(Int), NEW others \in Seq(Int),
         Len(sums) < Len(variants), Len(others) = Len(variants),
         \A j \in 1 .. Len(sums) : sums[j] = others[j],
         \A j \in 1 .. Len(others) : others[j] = BoundBefore(others, j) + variants[j].weight
  PROVE  BoundBefore(sums, Len(sums) + 1) + variants[Len(sums) + 1].weight
           = others[Len(sums) + 1]
<1>1. Len(sums) \in Nat /\ Len(variants) \in Nat
  BY LenProperties
<1>2. BoundBefore(sums, Len(sums) + 1) = BoundBefore(others, Len(sums) + 1)
  BY <1>1 DEF BoundBefore
<1>3. Len(sums) + 1 \in 1 .. Len(others)
  BY <1>1
<1> QED
  BY <1>2, <1>3

LEMMA EndSums ==
  ASSUME TypeOK, ShareInv, ReasonInv, ReasonInv', SumsAgree, NEW end, NEW variant, NEW picked,
         Ended(end, variant, picked)
  PROVE  SumsAgree'
<1>1. /\ previous' = answer /\ answer'.setting = setting /\ answer'.bounds = bounds
      /\ bounds' = <<>> /\ setting' = setting
  BY EndFacts
<1>2. answer' # None
  BY <1>1, TargetingAssumption DEF TypeOK, None
<1>3. \A j \in 1 .. Len(bounds) :
        bounds[j] = BoundBefore(bounds, j) + setting.variants[j].weight
  BY DEF ShareInv, SumInv
<1>4. ~\E j \in 1 .. Len(bounds') : TRUE
  BY <1>1, EmptySeq
<1>5. ASSUME answer # None, answer.bounds # <<>>, bounds # <<>>,
             answer.setting.variants = setting.variants
      PROVE  TotalOf(answer) = TotalOf(answer')
  <2>1. Len(bounds) = Len(setting.variants)
    BY <1>1, <1>2, <1>5 DEF ReasonInv, Reasons, DrawReason
  <2>2. Len(answer.bounds) = Len(setting.variants)
    BY <1>5 DEF ReasonInv, Reasons, DrawReason
  <2>3. Len(bounds) \in 1 .. Len(bounds)
    BY <1>5, LastBound DEF ShareInv
  <2>4. bounds[Len(bounds)] = answer.bounds[Len(bounds)]
    BY <1>5, <2>3 DEF SumsAgree
  <2> QED
    BY <1>1, <2>1, <2>2, <2>4 DEF TotalOf
<1>6. \A j : BoundBefore(answer.bounds, j)' = BoundBefore(bounds, j)
  BY <1>1 DEF BoundBefore
<1> QED
  BY <1>1, <1>3, <1>4, <1>5, <1>6 DEF SumsAgree

LEMMA NextSums ==
  TypeOK /\ ShareInv /\ ReasonInv /\ ReasonInv' /\ SumsAgree /\ [Next]_vars => SumsAgree'
<1> SUFFICES ASSUME TypeOK, ShareInv, ReasonInv, ReasonInv', SumsAgree, [Next]_vars
             PROVE  SumsAgree'
  OBVIOUS
<1>1. ASSUME NEW end, NEW variant, NEW picked, Ended(end, variant, picked) PROVE SumsAgree'
  BY <1>1, EndSums
<1>2. ASSUME UNCHANGED <<bounds, setting, previous, answer>> PROVE SumsAgree'
  BY <1>2 DEF SumsAgree, TotalOf, BoundBefore
<1>3. CASE \E found \in family : Ask(found)
  <2>1. bounds' = bounds /\ bounds = <<>> /\ UNCHANGED <<previous, answer>>
    BY <1>3 DEF Ask, loops, books, ShareInv, SumInv
  <2>2. ~\E j \in 1 .. Len(bounds') : TRUE
    BY <2>1, EmptySeq
  <2> QED
    BY <2>1, <2>2 DEF SumsAgree, TotalOf, BoundBefore
<1>4. CASE SumWeights
  <2>1. /\ index \in Nat \ {0} /\ index <= Len(setting.variants) /\ step = "summing"
        /\ Len(bounds) \in Nat /\ Len(bounds) = index - 1 /\ bounds \in Seq(Int)
        /\ setting.variants \in Seq(Variant)
        /\ totalWeight = BoundBefore(bounds, Len(bounds) + 1)
    BY <1>4, LenProperties DEF SumWeights, ShareInv, SumInv, TypeOK, Setting
  <2>2. /\ bounds' = Append(bounds, totalWeight')
        /\ totalWeight' = totalWeight + setting.variants[index].weight
        /\ UNCHANGED <<setting, previous, answer>>
    BY <1>4 DEF SumWeights, Goto, books
  <2>3. totalWeight' \in Int
    BY <2>1, <2>2, VariantTyping DEF TypeOK
  <2>4. /\ Len(bounds') = Len(bounds) + 1 /\ bounds'[Len(bounds) + 1] = totalWeight'
        /\ \A j \in 1 .. Len(bounds) : bounds'[j] = bounds[j]
    BY <2>1, <2>2, <2>3, AppendProperties
  <2>5. ASSUME answer # None, answer.bounds # <<>>, answer.setting.variants = setting.variants
        PROVE  \A j \in 1 .. Len(bounds') : bounds'[j] = answer.bounds[j]
    <3>1. answer.bounds \in Seq(Int)
      BY <2>5 DEF TypeOK, AnswerRecord
    <3>2. Len(answer.bounds) = Len(setting.variants)
      BY <2>5 DEF ReasonInv, Reasons, DrawReason
    <3>3. \A j \in 1 .. Len(bounds) : bounds[j] = answer.bounds[j]
      BY <2>5 DEF SumsAgree
    <3>4. \A j \in 1 .. Len(answer.bounds) :
            answer.bounds[j] = BoundBefore(answer.bounds, j) + setting.variants[j].weight
      BY <2>5 DEF SumsAgree
    <3>5. Len(bounds) < Len(setting.variants) /\ index = Len(bounds) + 1
      BY <2>1, LenProperties
    <3>6. totalWeight' = answer.bounds[Len(bounds) + 1]
      BY <2>1, <2>2, <3>1, <3>2, <3>3, <3>4, <3>5, SameSum
    <3> QED
      BY <2>1, <2>4, <3>3, <3>6
  <2> QED
    BY <2>2, <2>5 DEF SumsAgree, TotalOf, BoundBefore
<1>5. CASE TimePasses \/ UNCHANGED vars \/ PassConstraint \/ AllConstraintsHold
  BY <1>2, <1>5 DEF TimePasses, vars, loops, books, PassConstraint, AllConstraintsHold, Goto
<1>6. CASE FailConstraint
  BY <1>1, <1>6 DEF FailConstraint
<1>7. CASE AskStrategy
  BY <1>1, <1>2, <1>7 DEF AskStrategy, Goto, loops, books
<1>8. CASE ScanOverrides
  BY <1>1, <1>2, <1>8 DEF ScanOverrides, Goto, loops, books
<1>9. CASE WeightsSummed
  BY <1>1, <1>2, <1>9 DEF WeightsSummed, Goto, loops, books
<1>10. CASE DrawTarget
  BY <1>1, <1>2, <1>10 DEF DrawTarget, Goto, books
<1>11. CASE PickVariant
  BY <1>1, <1>2, <1>11 DEF PickVariant, Goto, books
<1> QED
  BY <1>3, <1>4, <1>5, <1>6, <1>7, <1>8, <1>9, <1>10, <1>11 DEF Next, Evaluate

LEMMA InitEdit == Init => EditInv
<1> SUFFICES ASSUME Init PROVE EditInv
  OBVIOUS
<1>1. RunInv
  BY RisingEmpty DEF Init, RunInv
<1> QED
  BY <1>1 DEF Init, EditInv, ReasonInv, SumsAgree

\* Every answer has its reasons.
LEMMA EditInvariance == Spec => [](TypeOK /\ EditInv)
<1>1. Spec => [](TypeOK /\ GroupInv /\ ShareInv)
  BY Invariance
<1>2. Spec => []ExactShares
  BY ShareSafety
<1> DEFINE Known == TypeOK /\ GroupInv /\ ShareInv /\ ExactShares
<1>3. Init => PassedInv /\ GrantInv /\ AnswersRight /\ EditInv
  BY InitAnswers, InitEdit
<1>4. /\ Known /\ Known' /\ PassedInv /\ GrantInv /\ AnswersRight /\ EditInv /\ [Next]_vars
      => PassedInv' /\ GrantInv' /\ AnswersRight' /\ EditInv'
  BY NextAnswers, NextReasons, NextRun, NextSums DEF EditInv
<1> QED
  BY <1>1, <1>2, <1>3, <1>4, PTL DEF Spec

-----------------------------------------------------------------------------
(***************************************************************************)
(* Two answers.                                                            *)
(***************************************************************************)

\* A setting with a higher rollout asks for the same constraints, group and
\* variants.
LEMMA RaisedRest ==
  ASSUME NEW from \in Setting, NEW to \in Setting, Raised(from, to)
  PROVE  /\ to.constraints = from.constraints /\ to.variants = from.variants
         /\ to.parameters.groupId = from.parameters.groupId
BY DEF Raised, Setting, Parameters

\* Raising a rollout switches a strategy off for nobody, lowering it switches
\* it on for nobody, and leaving it leaves every answer, whatever the hash and
\* whatever was asked before: the stickiness of flexibleRollout.
THEOREM RaisingSafety == Spec => []RaisingKeepsOn
<1>1. TypeOK /\ EditInv => RaisingKeepsOn
  <2> SUFFICES ASSUME TypeOK, EditInv, NEW pair \in Pairs,
                      Raised(pair[1].setting, pair[2].setting), Sticky(pair[1].setting),
                      pair[1].end = "on"
               PROVE  pair[2].end = "on"
    BY DEF RaisingKeepsOn
  <2> DEFINE a == pair[1]
             b == pair[2]
             s == a.setting
             t == b.setting
  <2>1. /\ a # None /\ b # None /\ a \in {previous, answer} /\ b \in {previous, answer}
        /\ <<a, b>> \in {<<previous, answer>>, <<answer, previous>>}
    BY DEF Pairs
  <2>2. /\ Reasons(ctx, a) /\ Reasons(ctx, b) /\ a \in AnswerRecord /\ b \in AnswerRecord
    BY <2>1 DEF EditInv, ReasonInv, TypeOK
  <2>3. s \in Setting /\ t \in Setting /\ b.end \in Ends /\ ctx \in Context
    BY <2>2, OverrideTyping DEF AnswerRecord, TypeOK, ctx
  <2>4. Settled(ctx, s)
    BY <2>3, StickySettled
  <2>5. \A i \in DOMAIN s.constraints : Timeless(ctx, s.constraints[i])
    BY DEF Sticky
  <2>6. ASSUME a.bounds # <<>>, b.bounds # <<>>, s.variants = t.variants
        PROVE  TotalOf(a) = TotalOf(b)
    BY <2>1, <2>6 DEF EditInv, SumsAgree
  <2>7. /\ t.constraints = s.constraints /\ t.variants = s.variants
        /\ t.parameters.groupId = s.parameters.groupId
    BY <2>3, RaisedRest
  <2>8. EndReason(ctx, a) /\ EndReason(ctx, b) /\ DrawReason(ctx, b) /\ a.end = "on"
    BY <2>2 DEF Reasons
  <2>9. Raised(s, t)
    OBVIOUS
  <2> HIDE DEF a, b, ctx
  <2>10. "yes" \in Replies(ctx, s)
    BY <2>8 DEF EndReason
  <2>11. Replies(ctx, t) = {"yes"}
    BY <2>3, <2>4, <2>9, <2>10, RaisedReplies
  <2>12. ASSUME NEW i \in DOMAIN s.constraints, NEW time PROVE MeetsIn(ctx, s.constraints[i], time)
    <3>1. PICK early : MeetsIn(ctx, s.constraints[i], early)
      BY <2>8 DEF EndReason
    <3>2. s.constraints[i] \in Constraint
      BY <2>3, ElementOfSeq, LenProperties DEF Setting
    <3> QED
      BY <2>5, <3>1, <3>2, TimelessMeets
  <2>13. s.variants # <<>> =>
           /\ s.parameters.groupId \in Groups
           /\ Overridden(ctx, s.variants) \/ (a.bounds # <<>> /\ ~Indivisible(TotalOf(a)))
    BY <2>8 DEF EndReason
  <2>14. b.end \notin {"off", "error"}
    BY <2>7, <2>8, <2>11, <2>12, <2>13 DEF EndReason
  <2>15. b.end # "panic"
    <3> SUFFICES ASSUME b.end = "panic" PROVE FALSE
      OBVIOUS
    <3>1. ~Overridden(ctx, t.variants) /\ b.bounds # <<>> /\ Indivisible(TotalOf(b))
      BY <2>8, <2>11 DEF EndReason
    <3>2. t.variants # <<>>
      <4>1. Len(b.bounds) = Len(t.variants) /\ b.bounds \in Seq(Int)
        BY <2>2, <2>8, <3>1 DEF DrawReason, AnswerRecord
      <4> QED
        BY <3>1, <4>1, EmptySeq
    <3> QED
      BY <2>6, <2>7, <2>13, <3>1, <3>2
  <2>16. b.end = "on"
    BY <2>3, <2>14, <2>15 DEF Ends
  <2> QED
    BY <2>16 DEF b
<1> QED
  BY <1>1, EditInvariance, PTL

\* A context with a sticky id has one seed.
LEMMA OneSeed ==
  ASSUME NEW s \in Setting, StickyVariants(s)
  PROVE  \E id : SeedsIn(ctx, s.variants[1].stickiness) = {id}
<1> HIDE DEF ctx
<1> DEFINE sticky == s.variants[1].stickiness
<1>1. CASE sticky \in {"default", Empty}
  <2>1. ctx.userId # Empty \/ ctx.sessionId # Empty \/ ctx.remoteAddress # Empty
    BY <1>1 DEF StickyVariants
  <2> QED
    BY <1>1, <2>1 DEF SeedsIn
<1>2. CASE sticky \notin {"default", Empty}
  BY <1>2 DEF StickyVariants, SeedsIn
<1> QED
  BY <1>1, <1>2

\* Shares do not overlap.
LEMMA OneShare ==
  ASSUME NEW sums \in Seq(Int), Rising(sums), NEW x \in Int,
         NEW i \in 1 .. Len(sums), BoundBefore(sums, i) < x, x <= sums[i],
         NEW j \in 1 .. Len(sums), BoundBefore(sums, j) < x, x <= sums[j]
  PROVE  i = j
<1>0. Len(sums) \in Nat
  BY LenProperties
<1>1. ASSUME NEW m \in 1 .. Len(sums), NEW n \in 1 .. Len(sums), m < n, x <= sums[m],
             BoundBefore(sums, n) < x
      PROVE  FALSE
  <2>1. n - 1 \in 1 .. Len(sums) /\ m <= n - 1 /\ n # 1
    BY <1>0, <1>1
  <2>2. sums[m] <= sums[n - 1] /\ sums[m] \in Int /\ sums[n - 1] \in Int
    BY <2>1, ElementOfSeq DEF Rising
  <2>3. sums[n - 1] < x
    BY <1>1, <2>1 DEF BoundBefore
  <2> QED
    BY <1>1, <2>2, <2>3
<1>2. ~(i < j) /\ ~(j < i)
  BY <1>1
<1> QED
  BY <1>0, <1>2

\* Weight that moves between other variants moves nobody, whatever the hash and
\* however many variants there are: the promise behind getVariantFromWeights.
THEOREM ReweighingSafety == Spec => []ReweighingKeepsOthers
<1>1. TypeOK /\ EditInv => ReweighingKeepsOthers
  <2> SUFFICES ASSUME TypeOK, EditInv, NEW pair \in Pairs
               PROVE  LET a == pair[1]
                          b == pair[2]
                          i == a.picked
                          BoundsAt(x) == IF i = 1 THEN <<0, x.bounds[1]>>
                                         ELSE <<x.bounds[i - 1], x.bounds[i]>>
                      IN  /\ i # 0 /\ b.bounds # <<>> /\ Len(b.bounds) = Len(a.bounds)
                          /\ ProperShares(a) /\ ProperShares(b)
                          /\ TotalOf(a) = TotalOf(b) /\ BoundsAt(a) = BoundsAt(b)
                          /\ StickyVariants(a.setting)
                          /\ a.setting.variants[1].stickiness = b.setting.variants[1].stickiness
                          /\ a.setting.parameters.groupId = b.setting.parameters.groupId
                          => b.picked = i
    BY DEF ReweighingKeepsOthers
  <2> DEFINE a == pair[1]
             b == pair[2]
             i == a.picked
             BoundsAt(x) == IF i = 1 THEN <<0, x.bounds[1]>> ELSE <<x.bounds[i - 1], x.bounds[i]>>
  <2> SUFFICES ASSUME i # 0, b.bounds # <<>>, Len(b.bounds) = Len(a.bounds),
                      ProperShares(a), ProperShares(b),
                      TotalOf(a) = TotalOf(b), BoundsAt(a) = BoundsAt(b),
                      StickyVariants(a.setting),
                      a.setting.variants[1].stickiness = b.setting.variants[1].stickiness,
                      a.setting.parameters.groupId = b.setting.parameters.groupId
               PROVE  b.picked = i
    OBVIOUS
  <2>1. a # None /\ b # None /\ a \in {previous, answer} /\ b \in {previous, answer}
    BY DEF Pairs
  <2>2. Reasons(ctx, a) /\ Reasons(ctx, b) /\ a \in AnswerRecord /\ b \in AnswerRecord
    BY <2>1 DEF EditInv, ReasonInv, TypeOK
  <2>3. a.setting \in Setting /\ b.bounds \in Seq(Int) /\ b.target \in Int /\ a.bounds \in Seq(Int)
    BY <2>2 DEF AnswerRecord
  <2>4. PICK id : SeedsIn(ctx, a.setting.variants[1].stickiness) = {id}
    BY <2>3, OneSeed
  <2> HIDE DEF a, b, ctx, i
  <2>5. /\ a.bounds # <<>> /\ i \in 1 .. Len(a.bounds)
        /\ a.target = NormalizedVariantValue(id, a.setting.parameters.groupId, TotalOf(a),
                                             VariantSeed)
    BY <2>2, <2>4 DEF Reasons, DrawReason, i
  <2>6. /\ TotalOf(a) # 0 /\ BoundBefore(a.bounds, i) < a.target /\ a.target <= a.bounds[i]
    BY <2>2, <2>5 DEF Reasons, ShareReason, i
  <2>7. Rising(b.bounds) /\ b.picked # 0
    BY <2>2, <2>6 DEF Reasons, ShareReason
  <2>8. /\ b.picked \in 1 .. Len(b.bounds)
        /\ b.target = NormalizedVariantValue(id, b.setting.parameters.groupId, TotalOf(b),
                                             VariantSeed)
    BY <2>2, <2>4, <2>7 DEF Reasons, DrawReason
  <2>9. BoundBefore(b.bounds, b.picked) < b.target /\ b.target <= b.bounds[b.picked]
    BY <2>2, <2>7 DEF Reasons, ShareReason
  <2>10. b.target = a.target
    BY <2>5, <2>8
  <2>11. BoundBefore(b.bounds, i) = BoundBefore(a.bounds, i) /\ b.bounds[i] = a.bounds[i]
    BY DEF BoundBefore
  <2>12. BoundBefore(b.bounds, i) < b.target /\ b.target <= b.bounds[i]
    BY <2>6, <2>10, <2>11
  <2> QED
    BY <2>3, <2>5, <2>7, <2>8, <2>9, <2>12, OneShare
<1> QED
  BY <1>1, EditInvariance, PTL
==============================================================================
