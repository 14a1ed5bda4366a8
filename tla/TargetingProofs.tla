--------------------------- MODULE TargetingProofs ---------------------------
(***************************************************************************)
(* Constraints, shares and panics of Targeting, for every hash, every set  *)
(* of strings, every setting and any number of calls.                      *)
(***************************************************************************)
EXTENDS Targeting, SequenceTheorems, TLAPS

-----------------------------------------------------------------------------
(***************************************************************************)
(* Arithmetic of the shares.                                               *)
(***************************************************************************)

LEMMA RemainderRange ==
  ASSUME NEW a \in Int, NEW n \in Nat \ {0}
  PROVE  a % n \in Nat /\ a % n < n
BY Z3

\* An uint32 that is in range is not changed.
LEMMA RemainderFits ==
  ASSUME NEW a \in Nat, NEW n \in Nat, a < n
  PROVE  a % n = a
BY Z3

\* NormalizedVariantValue: a target between 1 and the total.
LEMMA TargetRange ==
  ASSUME NEW id \in Values, NEW group \in Groups, NEW total \in Int, NEW seed \in Seeds,
         total % Width # 0
  PROVE  /\ NormalizedVariantValue(id, group, total, seed) \in Nat
         /\ 1 <= NormalizedVariantValue(id, group, total, seed)
         /\ NormalizedVariantValue(id, group, total, seed) <= total % Width
<1>1. total % Width \in Nat \ {0}
  BY RemainderRange, StrategiesAssumption
<1>2. Hash[<<seed, group, id>>] \in Int
  BY StrategiesAssumption
<1>3. /\ Hash[<<seed, group, id>>] % (total % Width) \in Nat
      /\ Hash[<<seed, group, id>>] % (total % Width) < total % Width
  BY <1>1, <1>2, RemainderRange
<1> QED
  BY <1>1, <1>3 DEF NormalizedVariantValue

-----------------------------------------------------------------------------
(***************************************************************************)
(* Types.                                                                  *)
(***************************************************************************)

\* Context.Override and Context.Field.
LEMMA OverrideTyping ==
  ASSUME NEW base \in Context, NEW src \in Context
  PROVE  Override(base, src) \in Context
BY DEF Override, Context

LEMMA FieldTyping ==
  ASSUME NEW c \in Context, NEW name
  PROVE  Field(c, name) \in Values
<1>1. Property(c, name) \in Values
  BY ConstraintsAssumption DEF Property, Context, Properties
<1>2. CASE name \in TypedFields
  BY <1>2 DEF Field, TypedFields, Context
<1> QED
  BY <1>1, <1>2 DEF Field

\* getSeed returns a string.
LEMMA SeedTyping ==
  ASSUME TypeOK, NEW sticky
  PROVE  SeedsOf(sticky) \subseteq Values
<1>1. ctx \in Context
  BY OverrideTyping DEF TypeOK, ctx
<1>2. Field(ctx, sticky) \in Values
  BY <1>1, FieldTyping
<1> HIDE DEF ctx
<1>3. ctx.userId \in Values /\ ctx.sessionId \in Values /\ ctx.remoteAddress \in Values
  BY <1>1 DEF Context
<1> QED
  BY <1>2, <1>3, StrategiesAssumption DEF SeedsOf

\* The evaluation has got to the variants, so there are some, and a group.
Weighing == step \in {"variants", "summing", "drawing", "picking"}

GroupInv == Weighing => setting.parameters.groupId \in Groups /\ setting.variants # <<>>

LEMMA InitTypes == Init => TypeOK /\ GroupInv
<1> SUFFICES ASSUME Init PROVE TypeOK /\ GroupInv
  OBVIOUS
<1> USE TargetingAssumption
<1>1. setting \in Setting
  BY DEF Init, Settings
<1>2. bounds \in Seq(Int)
  BY EmptySeq DEF Init
<1>3. clock \in 0 .. MaxClock /\ since \in 0 .. MaxClock /\ calls \in 0 .. MaxCalls
  BY DEF Init
<1>4. index \in Nat \ {0}
  BY DEF Init
<1> QED
  BY <1>1, <1>2, <1>3, <1>4 DEF Init, TypeOK, GroupInv, Weighing, Steps

\* The indices of the loops.
LEMMA NextIndex == TypeOK => index + 1 \in Nat \ {0} /\ 1 \in Nat \ {0}
BY DEF TypeOK

\* A step of a loop.
LEMMA GotoTyping ==
  ASSUME TypeOK, NEW next \in Steps, NEW i \in Nat \ {0}, Goto(next, i),
         bounds' \in Seq(Int), totalWeight' \in Int, target' \in Nat, counter' \in Nat
  PROVE  TypeOK'
BY DEF TypeOK, Goto, world, books

\* A return.
LEMMA EndTyping ==
  ASSUME TypeOK, NEW end \in Ends, NEW variant \in VariantNames \cup {Disabled, NoVariant},
         NEW picked \in Nat, Ended(end, variant, picked)
  PROVE  TypeOK' /\ GroupInv'
<1>1. answer' \in AnswerRecord
  <2>1. clock \in Nat /\ since \in Nat
    BY TargetingAssumption DEF TypeOK
  <2> QED
    BY <2>1 DEF Ended, AnswerRecord, TypeOK
<1>2. bounds' \in Seq(Int)
  BY EmptySeq DEF Ended
<1>3. index' \in Nat \ {0}
  BY DEF Ended
<1>4. totalWeight' \in Int /\ target' \in Nat /\ counter' \in Nat
  BY DEF Ended
<1>5. step' = "idle"
  BY DEF Ended
<1> QED
  BY <1>1, <1>2, <1>3, <1>4, <1>5 DEF Ended, world, TypeOK, Steps, GroupInv, Weighing

\* What is known of the variant that a loop looks at.
LEMMA VariantTyping ==
  ASSUME TypeOK, NEW i \in Nat \ {0}, i <= Len(setting.variants)
  PROVE  /\ i \in DOMAIN setting.variants
         /\ setting.variants[i].name \in VariantNames
         /\ setting.variants[i].weight \in Int
<1>1. setting.variants \in Seq(Variant)
  BY DEF TypeOK, Setting
<1>2. i \in 1 .. Len(setting.variants)
  BY <1>1, LenProperties
<1>3. setting.variants[i] \in Variant /\ i \in DOMAIN setting.variants
  BY <1>1, <1>2, ElementOfSeq, LenProperties
<1> QED
  BY <1>3 DEF Variant

LEMMA NextTypes == TypeOK /\ GroupInv /\ [Next]_vars => TypeOK' /\ GroupInv'
<1> SUFFICES ASSUME TypeOK, GroupInv, [Next]_vars PROVE TypeOK' /\ GroupInv'
  OBVIOUS
<1>1. ASSUME NEW found \in family, Ask(found) PROVE TypeOK' /\ GroupInv'
  <2>1. found \in Setting
    BY TargetingAssumption DEF TypeOK, Settings
  <2>2. calls' \in 0 .. MaxCalls
    BY <1>1, TargetingAssumption DEF Ask, TypeOK
  <2>3. index' \in Nat \ {0}
    BY <1>1 DEF Ask
  <2> QED
    BY <1>1, <2>1, <2>2, <2>3 DEF Ask, TypeOK, GroupInv, Weighing, Steps, world, loops, books
<1>2. CASE TimePasses
  <2>1. clock' \in 0 .. MaxClock
    BY <1>2, TargetingAssumption DEF TimePasses, TypeOK
  <2> QED
    BY <1>2, <2>1 DEF TimePasses, TypeOK, GroupInv, Weighing, loops, books
<1>3. CASE PassConstraint
  <2>1. TypeOK'
    BY <1>3, NextIndex, GotoTyping DEF PassConstraint, loops, Steps, TypeOK
  <2> QED
    BY <1>3, <2>1 DEF PassConstraint, Goto, GroupInv, Weighing
<1>4. CASE FailConstraint
  <2>1. PICK end \in {"error", "off"} : Ended(end, NoVariant, 0)
    BY <1>4 DEF FailConstraint
  <2>2. end \in Ends /\ 0 \in Nat
    BY DEF Ends
  <2> QED
    BY <2>1, <2>2, EndTyping
<1>5. CASE AllConstraintsHold
  <2>1. TypeOK'
    BY <1>5, NextIndex, GotoTyping DEF AllConstraintsHold, loops, Steps, TypeOK
  <2> QED
    BY <1>5, <2>1 DEF AllConstraintsHold, Goto, GroupInv, Weighing
<1>6. CASE AskStrategy
  <2>1. ASSUME NEW end \in {"panic", "off", "on"}, Ended(end, NoVariant, 0)
        PROVE  TypeOK' /\ GroupInv'
    BY <2>1, EndTyping DEF Ends
  <2>2. CASE Goto("variants", 1) /\ UNCHANGED loops /\ setting.parameters.groupId \in Groups
             /\ setting.variants # <<>>
    <3>1. TypeOK'
      BY <2>2, NextIndex, GotoTyping DEF loops, Steps, TypeOK
    <3> QED
      BY <2>2, <3>1 DEF Goto, GroupInv
  <2> QED
    BY <1>6, <2>1, <2>2 DEF AskStrategy
<1>7. CASE ScanOverrides
  <2>1. CASE index > Len(setting.variants)
    <3>1. Goto("summing", 1) /\ UNCHANGED loops
      BY <1>7, <2>1 DEF ScanOverrides
    <3>2. TypeOK'
      BY <3>1, NextIndex, GotoTyping DEF loops, Steps, TypeOK
    <3> QED
      BY <1>7, <3>1, <3>2 DEF ScanOverrides, Goto, GroupInv, Weighing
  <2>2. CASE ~(index > Len(setting.variants)) /\ Matches(setting.variants[index])
    <3>1. Ended("on", setting.variants[index].name, 0)
      BY <1>7, <2>2 DEF ScanOverrides
    <3>2. setting.variants \in Seq(Variant)
      BY DEF TypeOK, Setting
    <3>3. index \in Nat \ {0} /\ index <= Len(setting.variants)
      BY <2>2, <3>2, LenProperties DEF TypeOK
    <3>4. setting.variants[index].name \in VariantNames
      BY <3>3, VariantTyping
    <3>5. "on" \in Ends /\ 0 \in Nat
      BY DEF Ends
    <3> QED
      BY <3>1, <3>4, <3>5, EndTyping
  <2>3. CASE ~(index > Len(setting.variants)) /\ ~Matches(setting.variants[index])
    <3>1. Goto("variants", index + 1) /\ UNCHANGED loops
      BY <1>7, <2>3 DEF ScanOverrides
    <3>2. TypeOK'
      BY <3>1, NextIndex, GotoTyping DEF loops, Steps, TypeOK
    <3> QED
      BY <1>7, <3>1, <3>2 DEF ScanOverrides, Goto, GroupInv, Weighing
  <2> QED
    BY <2>1, <2>2, <2>3
<1>8. CASE SumWeights
  <2>1. index \in Nat \ {0}
    BY DEF TypeOK
  <2>2. setting.variants[index].weight \in Int
    BY <1>8, <2>1, VariantTyping DEF SumWeights
  <2>3. totalWeight' \in Int
    BY <1>8, <2>2 DEF SumWeights, TypeOK
  <2>4. bounds' \in Seq(Int)
    BY <1>8, <2>3, AppendProperties DEF SumWeights, TypeOK
  <2>5. TypeOK'
    BY <1>8, <2>3, <2>4, NextIndex, GotoTyping DEF SumWeights, Steps, TypeOK
  <2> QED
    BY <1>8, <2>5 DEF SumWeights, Goto, GroupInv, Weighing
<1>9. CASE WeightsSummed
  <2>1. CASE Ended("on", Disabled, 0)
    BY <2>1, EndTyping DEF Ends
  <2>2. CASE Goto("drawing", 1) /\ UNCHANGED loops
    <3>1. TypeOK'
      BY <2>2, NextIndex, GotoTyping DEF loops, Steps, TypeOK
    <3> QED
      BY <1>9, <2>2, <3>1 DEF WeightsSummed, Goto, GroupInv, Weighing
  <2> QED
    BY <1>9, <2>1, <2>2 DEF WeightsSummed
<1>10. CASE DrawTarget
  <2>1. CASE Ended("panic", NoVariant, 0)
    BY <2>1, EndTyping DEF Ends
  <2>2. ASSUME totalWeight % Width # 0, NEW id \in SeedsOf(setting.variants[1].stickiness),
               target' = NormalizedVariantValue(id, setting.parameters.groupId, totalWeight,
                                                VariantSeed),
               Goto("picking", 1), UNCHANGED <<bounds, totalWeight, counter>>
        PROVE  TypeOK' /\ GroupInv'
    <3>1. id \in Values
      BY <2>2, SeedTyping
    <3>2. setting.parameters.groupId \in Groups
      BY <1>10 DEF DrawTarget, GroupInv, Weighing
    <3>3. totalWeight \in Int
      BY DEF TypeOK
    <3>4. target' \in Nat
      BY <2>2, <3>1, <3>2, <3>3, TargetRange, StrategiesAssumption
    <3>5. TypeOK'
      BY <2>2, <3>4, NextIndex, GotoTyping DEF Steps, TypeOK
    <3> QED
      BY <1>10, <2>2, <3>5 DEF DrawTarget, Goto, GroupInv, Weighing
  <2> QED
    BY <1>10, <2>1, <2>2 DEF DrawTarget
<1>11. CASE PickVariant /\ index <= Len(setting.variants)
  <2>1. index \in Nat \ {0} /\ index <= Len(setting.variants)
    BY <1>11 DEF TypeOK, PickVariant
  <2>2. /\ setting.variants[index].name \in VariantNames
        /\ setting.variants[index].weight \in Int
    BY <2>1, VariantTyping
  <2>3. CASE CounterAfter >= target
    <3>1. Ended("on", setting.variants[index].name, index)
      BY <1>11, <2>3 DEF PickVariant
    <3> QED
      BY <2>1, <2>2, <3>1, EndTyping DEF Ends
  <2>4. CASE ~(CounterAfter >= target)
    <3>1. /\ counter' = CounterAfter /\ Goto("picking", index + 1)
          /\ UNCHANGED <<bounds, totalWeight, target>>
      BY <1>11, <2>4 DEF PickVariant
    <3>2. counter + setting.variants[index].weight \in Int
      BY <2>2 DEF TypeOK
    <3>3. counter' \in Nat
      BY <3>1, <3>2, RemainderRange, StrategiesAssumption DEF CounterAfter
    <3>4. TypeOK'
      BY <3>1, <3>3, NextIndex, GotoTyping DEF Steps, TypeOK
    <3> QED
      BY <1>11, <3>1, <3>4 DEF PickVariant, Goto, GroupInv, Weighing
  <2> QED
    BY <2>3, <2>4
<1>12. CASE PickVariant /\ ~(index <= Len(setting.variants))
  BY <1>12, EndTyping DEF PickVariant, Ends
<1>13. CASE UNCHANGED vars
  BY <1>13 DEF vars, TypeOK, GroupInv, Weighing
<1> QED
  BY <1>1, <1>2, <1>3, <1>4, <1>5, <1>6, <1>7, <1>8, <1>9, <1>10, <1>11, <1>12, <1>13
     DEF Next, Evaluate

\* Every index, sum and target stays in its type, and answers are complete.
THEOREM TypeCorrect == Spec => []TypeOK
<1>1. Spec => [](TypeOK /\ GroupInv)
  BY InitTypes, NextTypes, PTL DEF Spec
<1> QED
  BY <1>1, PTL
-----------------------------------------------------------------------------
(***************************************************************************)
(* The two loops of getVariantFromWeights.                                 *)
(***************************************************************************)

\* The bound below the share of variant i.
BoundBefore(sums, i) == IF i = 1 THEN 0 ELSE sums[i - 1]

\* bounds are the partial sums of the weights, and rise if these are proper.
SumInv ==
  /\ step \in {"idle", "constraints", "strategy", "variants"} => bounds = <<>>
  /\ step \in {"idle", "constraints", "strategy", "variants", "summing", "drawing"} => counter = 0
  /\ step = "summing" => Len(bounds) = index - 1 /\ index <= Len(setting.variants) + 1
  /\ step \in {"drawing", "picking"} =>
       bounds # <<>> /\ totalWeight # 0 /\ Len(bounds) = Len(setting.variants)
  /\ totalWeight = BoundBefore(bounds, Len(bounds) + 1)
  /\ \A j \in 1 .. Len(bounds) :
       bounds[j] = BoundBefore(bounds, j) + setting.variants[j].weight
  /\ ProperWeights(setting.variants) =>
       \A j \in 1 .. Len(bounds) : 0 <= bounds[j] /\ bounds[j] <= totalWeight

\* The counter stays below the target, and does not wrap for proper shares.
PickInv ==
  step = "picking" =>
    /\ 1 <= target /\ target <= totalWeight % Width
    /\ index <= Len(setting.variants) + 1
    /\ ProperWeights(setting.variants) /\ totalWeight < Width =>
         counter = BoundBefore(bounds, index) /\ counter < target

\* No override matches up to where the search for one is.
ScanInv ==
  /\ step = "variants" =>
       /\ index <= Len(setting.variants) + 1
       /\ \A j \in 1 .. index - 1 : ~Matches(setting.variants[j])
  /\ step \in {"summing", "drawing", "picking"} =>
       \A j \in 1 .. Len(setting.variants) : ~Matches(setting.variants[j])

ShareInv == SumInv /\ PickInv /\ ScanInv

LEMMA InitShareInv == Init => ShareInv
<1> SUFFICES ASSUME Init PROVE ShareInv
  OBVIOUS
<1>1. bounds = <<>> /\ Len(bounds) = 0
  BY EmptySeq DEF Init
<1> QED
  BY <1>1 DEF Init, ShareInv, SumInv, PickInv, ScanInv, BoundBefore

\* The context of the calls does not change.
LEMMA SameMatches ==
  ASSUME UNCHANGED <<static, given, setting>>
  PROVE  \A j : Matches(setting.variants[j])' <=> Matches(setting.variants[j])
<1>1. ctx' = ctx
  BY DEF ctx
<1> HIDE DEF ctx
<1> QED
  BY <1>1 DEF Matches, MatchValue, GetIdentifier, Property

\* After a return the loops are where they were at the start.
LEMMA EndShareInv ==
  ASSUME NEW end, NEW variant, NEW picked, Ended(end, variant, picked)
  PROVE  ShareInv'
<1>1. bounds' = <<>> /\ Len(bounds') = 0
  BY EmptySeq DEF Ended
<1> QED
  BY <1>1 DEF Ended, ShareInv, SumInv, PickInv, ScanInv, BoundBefore

\* One turn of the first loop.
LEMMA SumStep == TypeOK /\ SumInv /\ SumWeights => SumInv'
<1> SUFFICES ASSUME TypeOK, SumInv, SumWeights PROVE SumInv'
  OBVIOUS
<1> DEFINE weight == setting.variants[index].weight
           n == Len(bounds)
<1>1. /\ index \in Nat \ {0} /\ index <= Len(setting.variants) /\ step = "summing"
      /\ n \in Nat /\ n = index - 1 /\ bounds \in Seq(Int) /\ totalWeight \in Int
  BY LenProperties DEF SumInv, SumWeights, TypeOK
<1>2. weight \in Int
  BY <1>1, VariantTyping
<1>3. totalWeight' = totalWeight + weight
  BY DEF SumWeights
<1>4. /\ bounds' = Append(bounds, totalWeight') /\ setting' = setting /\ counter' = counter
      /\ step' = "summing" /\ index' = index + 1
  BY DEF SumWeights, Goto
<1>5. totalWeight' \in Int
  BY <1>1, <1>2, <1>3
<1>6. /\ Len(bounds') = n + 1
      /\ \A j \in 1 .. n : bounds'[j] = bounds[j]
      /\ bounds'[n + 1] = totalWeight'
  BY <1>1, <1>4, <1>5, AppendProperties
<1>7. /\ totalWeight = BoundBefore(bounds, n + 1)
      /\ \A j \in 1 .. n : bounds[j] = BoundBefore(bounds, j) + setting.variants[j].weight
      /\ counter = 0
  BY <1>1 DEF SumInv
<1>8. \A j \in 1 .. n + 1 : BoundBefore(bounds', j) = BoundBefore(bounds, j)
  BY <1>1, <1>6 DEF BoundBefore
<1>9. bounds'[n + 1] = BoundBefore(bounds', n + 1) + weight
  BY <1>1, <1>3, <1>6, <1>7, <1>8
<1>10. \A j \in 1 .. n + 1 : bounds'[j] = BoundBefore(bounds', j) + setting.variants[j].weight
  <2> SUFFICES ASSUME NEW j \in 1 .. n + 1
               PROVE  bounds'[j] = BoundBefore(bounds', j) + setting.variants[j].weight
    OBVIOUS
  <2>1. CASE j = n + 1
    BY <1>1, <1>9, <2>1
  <2>2. CASE j # n + 1
    BY <1>1, <1>6, <1>7, <1>8, <2>2
  <2> QED
    BY <2>1, <2>2
<1>11. totalWeight' = BoundBefore(bounds', n + 2)
  BY <1>1, <1>6 DEF BoundBefore
<1>12. ASSUME ProperWeights(setting.variants)
       PROVE  \A j \in 1 .. n + 1 : 0 <= bounds'[j] /\ bounds'[j] <= totalWeight'
  <2>1. weight >= 0
    BY <1>1, <1>12, VariantTyping DEF ProperWeights
  <2>2. \A j \in 1 .. n : bounds[j] \in Int /\ 0 <= bounds[j] /\ bounds[j] <= totalWeight
    BY <1>1, <1>12, ElementOfSeq DEF SumInv
  <2>3. 0 <= totalWeight
    <3>1. CASE n = 0
      BY <1>7, <3>1 DEF BoundBefore
    <3>2. CASE n # 0
      BY <1>1, <1>7, <2>2, <3>2 DEF BoundBefore
    <3> QED
      BY <3>1, <3>2
  <2>4. 0 <= totalWeight' /\ totalWeight <= totalWeight'
    BY <1>1, <1>2, <1>3, <2>1, <2>3
  <2> HIDE DEF weight, n
  <2> SUFFICES ASSUME NEW j \in 1 .. n + 1
               PROVE  0 <= bounds'[j] /\ bounds'[j] <= totalWeight'
    OBVIOUS
  <2>5. CASE j = n + 1
    BY <1>5, <1>6, <2>4, <2>5
  <2>6. CASE j # n + 1
    BY <1>1, <1>5, <1>6, <2>2, <2>4, <2>6
  <2> QED
    BY <2>5, <2>6
<1> HIDE DEF weight
<1>13. index' <= Len(setting'.variants) + 1 /\ Len(bounds') = index' - 1
  BY <1>1, <1>4, <1>6, LenProperties DEF TypeOK, Setting
<1>14. Len(bounds') + 1 = n + 2
  BY <1>1, <1>6
<1> HIDE DEF n
<1> QED
  BY <1>4, <1>6, <1>7, <1>10, <1>11, <1>12, <1>13, <1>14 DEF SumInv, ProperWeights

\* The counter of proper shares is the sum of the weights so far.
LEMMA CounterFits ==
  ASSUME TypeOK, SumInv, PickInv, step = "picking", index <= Len(setting.variants),
         ProperWeights(setting.variants), totalWeight < Width
  PROVE  CounterAfter = bounds[index]
<1>1. /\ index \in Nat \ {0} /\ bounds \in Seq(Int) /\ Len(bounds) = Len(setting.variants)
      /\ Len(bounds) \in Nat
  BY LenProperties DEF TypeOK, SumInv
<1>2. index \in 1 .. Len(bounds)
  BY <1>1
<1>3. bounds[index] = BoundBefore(bounds, index) + setting.variants[index].weight
  BY <1>2 DEF SumInv
<1>4. bounds[index] \in Int /\ 0 <= bounds[index] /\ bounds[index] <= totalWeight
  BY <1>1, <1>2, ElementOfSeq DEF SumInv
<1>5. counter = BoundBefore(bounds, index)
  BY DEF PickInv
<1>6. totalWeight \in Int /\ Width \in Nat
  BY StrategiesAssumption DEF TypeOK
<1>7. bounds[index] \in Nat /\ bounds[index] < Width
  BY <1>4, <1>6
<1>8. CounterAfter = bounds[index] % Width
  BY <1>3, <1>5 DEF CounterAfter
<1> QED
  BY <1>6, <1>7, <1>8, RemainderFits

\* One turn of the second loop that does not return.
LEMMA PickStep ==
  ASSUME TypeOK, SumInv, PickInv, step = "picking", index <= Len(setting.variants),
         ~(CounterAfter >= target), counter' = CounterAfter, Goto("picking", index + 1),
         UNCHANGED <<bounds, totalWeight, target>>
  PROVE  SumInv' /\ PickInv'
<1>1. SumInv'
  BY DEF SumInv, Goto, BoundBefore, ProperWeights
<1>2. index' = index + 1 /\ index \in Nat \ {0} /\ setting' = setting
  BY DEF Goto, TypeOK
<1>3. index' <= Len(setting'.variants) + 1
  BY <1>2, LenProperties DEF TypeOK, Setting
<1>4. ASSUME ProperWeights(setting.variants), totalWeight < Width
      PROVE  counter' = BoundBefore(bounds, index + 1) /\ counter' < target
  <2>1. CounterAfter = bounds[index]
    BY <1>4, CounterFits
  <2>2. BoundBefore(bounds, index + 1) = bounds[index]
    BY <1>2 DEF BoundBefore
  <2>3. bounds[index] \in Int /\ target \in Int
    <3>1. /\ bounds \in Seq(Int) /\ Len(bounds) = Len(setting.variants)
          /\ Len(bounds) \in Nat
      BY LenProperties DEF TypeOK, SumInv
    <3> QED
      BY <1>2, <3>1, ElementOfSeq DEF TypeOK
  <2> QED
    BY <2>1, <2>2, <2>3
<1> QED
  BY <1>1, <1>2, <1>3, <1>4 DEF PickInv, ProperWeights, Goto

LEMMA NextShareInv == TypeOK /\ GroupInv /\ ShareInv /\ [Next]_vars => ShareInv'
<1> SUFFICES ASSUME TypeOK, GroupInv, ShareInv, [Next]_vars PROVE ShareInv'
  OBVIOUS
<1>1. ASSUME NEW found \in family, Ask(found) PROVE ShareInv'
  <2>1. bounds = <<>> /\ Len(bounds) = 0 /\ counter = 0
    BY <1>1, EmptySeq DEF Ask, ShareInv, SumInv
  <2>2. totalWeight = BoundBefore(bounds, 1)
    BY <2>1 DEF ShareInv, SumInv
  <2> QED
    BY <1>1, <2>1, <2>2 DEF Ask, loops, ShareInv, SumInv, PickInv, ScanInv, BoundBefore
<1>2. CASE TimePasses \/ UNCHANGED vars
  <2>1. UNCHANGED <<static, given, setting, step, index, loops>>
    BY <1>2 DEF TimePasses, vars, loops
  <2>2. ScanInv'
    BY <2>1, SameMatches DEF ShareInv, ScanInv
  <2> QED
    BY <2>1, <2>2 DEF loops, ShareInv, SumInv, PickInv, BoundBefore, ProperWeights
<1>3. CASE PassConstraint \/ AllConstraintsHold
  BY <1>3 DEF PassConstraint, AllConstraintsHold, Checking, Goto, loops, ShareInv, SumInv,
              PickInv, ScanInv, BoundBefore, ProperWeights
<1>4. CASE FailConstraint
  BY <1>4, EndShareInv DEF FailConstraint
<1>5. CASE AskStrategy
  <2>1. CASE \E end \in {"panic", "off", "on"} : Ended(end, NoVariant, 0)
    BY <2>1, EndShareInv
  <2>2. CASE Goto("variants", 1) /\ UNCHANGED loops
    BY <1>5, <2>2, LenProperties
       DEF AskStrategy, Goto, loops, ShareInv, SumInv, PickInv, ScanInv, BoundBefore,
           ProperWeights, TypeOK, Setting
  <2> QED
    BY <1>5, <2>1, <2>2 DEF AskStrategy
<1>6. CASE ScanOverrides
  <2>1. /\ Len(setting.variants) \in Nat /\ index \in Nat \ {0} /\ step = "variants"
    BY <1>6, LenProperties DEF TypeOK, Setting, ScanOverrides
  <2>2. CASE index > Len(setting.variants)
    <3>1. Goto("summing", 1) /\ UNCHANGED loops
      BY <1>6, <2>2 DEF ScanOverrides
    <3>2. \A j \in 1 .. Len(setting.variants) : ~Matches(setting.variants[j])
      BY <2>1, <2>2 DEF ShareInv, ScanInv
    <3>3. ScanInv'
      BY <3>1, <3>2, SameMatches DEF ScanInv, Goto, world
    <3>4. bounds = <<>> /\ Len(bounds) = 0
      BY <2>1, EmptySeq DEF ShareInv, SumInv
    <3>5. SumInv' /\ PickInv'
      BY <2>1, <3>1, <3>4 DEF Goto, loops, ShareInv, SumInv, PickInv, BoundBefore, ProperWeights
    <3> QED
      BY <3>3, <3>5 DEF ShareInv
  <2>3. CASE ~(index > Len(setting.variants)) /\ Matches(setting.variants[index])
    <3>1. Ended("on", setting.variants[index].name, 0)
      BY <1>6, <2>3 DEF ScanOverrides
    <3> QED
      BY <3>1, EndShareInv
  <2>4. CASE ~(index > Len(setting.variants)) /\ ~Matches(setting.variants[index])
    <3>1. Goto("variants", index + 1) /\ UNCHANGED loops
      BY <1>6, <2>4 DEF ScanOverrides
    <3>2. \A j \in 1 .. index : ~Matches(setting.variants[j])
      BY <2>1, <2>4 DEF ShareInv, ScanInv
    <3>3. index' - 1 = index /\ index' <= Len(setting.variants) + 1
      BY <2>1, <2>4, <3>1 DEF Goto
    <3>4. ScanInv'
      BY <3>1, <3>2, <3>3, SameMatches DEF ScanInv, Goto, world
    <3>5. SumInv' /\ PickInv'
      BY <2>1, <3>1 DEF Goto, loops, ShareInv, SumInv, PickInv, BoundBefore, ProperWeights
    <3> QED
      BY <3>4, <3>5 DEF ShareInv
  <2> QED
    BY <2>2, <2>3, <2>4
<1>7. CASE SumWeights
  <2>1. SumInv'
    BY <1>7, SumStep DEF ShareInv
  <2>2. ScanInv'
    BY <1>7, SameMatches DEF SumWeights, Goto, world, ShareInv, ScanInv
  <2>3. PickInv'
    BY <1>7 DEF SumWeights, Goto, PickInv
  <2> QED
    BY <2>1, <2>2, <2>3 DEF ShareInv
<1>8. CASE WeightsSummed
  <2>1. CASE Ended("on", Disabled, 0)
    BY <2>1, EndShareInv
  <2>2. CASE totalWeight # 0 /\ Goto("drawing", 1) /\ UNCHANGED loops
    <3>1. /\ Len(setting.variants) \in Nat /\ index \in Nat \ {0} /\ step = "summing"
          /\ index > Len(setting.variants) /\ Len(bounds) = index - 1
          /\ index <= Len(setting.variants) + 1
      BY <1>8, LenProperties DEF TypeOK, Setting, WeightsSummed, ShareInv, SumInv
    <3>2. Len(bounds) = Len(setting.variants)
      BY <3>1
    <3>3. bounds # <<>>
      BY <2>2, EmptySeq DEF ShareInv, SumInv, BoundBefore
    <3>4. ScanInv'
      BY <2>2, <3>1, SameMatches DEF ScanInv, Goto, world, ShareInv
    <3>5. SumInv' /\ PickInv'
      BY <2>2, <3>1, <3>2, <3>3
         DEF Goto, loops, ShareInv, SumInv, PickInv, BoundBefore, ProperWeights
    <3> QED
      BY <3>4, <3>5 DEF ShareInv
  <2> QED
    BY <1>8, <2>1, <2>2 DEF WeightsSummed
<1>9. CASE DrawTarget
  <2>1. CASE Ended("panic", NoVariant, 0)
    BY <2>1, EndShareInv
  <2>2. ASSUME totalWeight % Width # 0, NEW id \in SeedsOf(setting.variants[1].stickiness),
               target' = NormalizedVariantValue(id, setting.parameters.groupId, totalWeight,
                                                VariantSeed),
               Goto("picking", 1), UNCHANGED <<bounds, totalWeight, counter>>
        PROVE  ShareInv'
    <3>1. id \in Values /\ setting.parameters.groupId \in Groups /\ totalWeight \in Int
      BY <1>9, <2>2, SeedTyping DEF DrawTarget, GroupInv, Weighing, TypeOK
    <3>2. target' \in Nat /\ 1 <= target' /\ target' <= totalWeight % Width
      BY <2>2, <3>1, TargetRange, StrategiesAssumption
    <3>3. 1 <= Len(setting.variants) + 1 /\ step = "drawing"
      BY <1>9, LenProperties DEF TypeOK, Setting, DrawTarget
    <3>4. ScanInv'
      BY <2>2, <3>3, SameMatches DEF ScanInv, Goto, world, ShareInv
    <3>5. SumInv'
      BY <2>2, <3>3 DEF Goto, ShareInv, SumInv, BoundBefore, ProperWeights
    <3>6. counter' = BoundBefore(bounds', 1) /\ counter' < target'
      BY <2>2, <3>2, <3>3 DEF ShareInv, SumInv, BoundBefore
    <3>7. PickInv'
      BY <2>2, <3>2, <3>3, <3>6 DEF Goto, PickInv
    <3> QED
      BY <3>4, <3>5, <3>7 DEF ShareInv
  <2> QED
    BY <1>9, <2>1, <2>2 DEF DrawTarget
<1>10. CASE PickVariant /\ index <= Len(setting.variants)
  <2>1. CASE Ended("on", setting.variants[index].name, index)
    BY <2>1, EndShareInv
  <2>2. CASE ~(CounterAfter >= target)
    <3>1. /\ counter' = CounterAfter /\ Goto("picking", index + 1) /\ step = "picking"
          /\ UNCHANGED <<bounds, totalWeight, target>> /\ index <= Len(setting.variants)
      BY <1>10, <2>2 DEF PickVariant
    <3>2. SumInv' /\ PickInv'
      BY <2>2, <3>1, PickStep DEF ShareInv
    <3>3. ScanInv'
      BY <3>1, SameMatches DEF ScanInv, Goto, world, ShareInv
    <3> QED
      BY <3>2, <3>3 DEF ShareInv
  <2> QED
    BY <1>10, <2>1, <2>2 DEF PickVariant
<1>11. CASE PickVariant /\ ~(index <= Len(setting.variants))
  BY <1>11, EndShareInv DEF PickVariant
<1> QED
  BY <1>1, <1>2, <1>3, <1>4, <1>5, <1>6, <1>7, <1>8, <1>9, <1>10, <1>11 DEF Next, Evaluate

LEMMA Invariance == Spec => [](TypeOK /\ GroupInv /\ ShareInv)
BY InitTypes, NextTypes, InitShareInv, NextShareInv, PTL DEF Spec

-----------------------------------------------------------------------------
(***************************************************************************)
(* Shares.                                                                 *)
(***************************************************************************)

\* What an answer that is about to be given has to say of the shares.
SharesRight(variant, picked) ==
  bounds # <<>> /\ ProperWeights(setting.variants) /\ bounds[Len(bounds)] < Width =>
    /\ \A j \in DOMAIN setting.variants : ~Matches(setting.variants[j])
    /\ picked # 0 => /\ variant = setting.variants[picked].name
                     /\ BoundBefore(bounds, picked) < target
                     /\ target <= bounds[picked]
    /\ picked = 0 <=> variant = Disabled
    /\ variant = Disabled <=> bounds[Len(bounds)] = 0

LEMMA EndShares ==
  ASSUME NEW end, NEW variant, NEW picked, Ended(end, variant, picked),
         SharesRight(variant, picked)
  PROVE  ExactShares'
<1>1. /\ answer'.setting = setting /\ answer'.variant = variant /\ answer'.picked = picked
      /\ answer'.bounds = bounds /\ answer'.target = target
      /\ UNCHANGED <<static, given, setting>>
  BY DEF Ended, world
<1>2. \A j : Matches(setting.variants[j])' <=> Matches(setting.variants[j])
  BY <1>1, SameMatches
<1>3. \A j : Matches(answer.setting.variants[j])' <=> Matches(setting.variants[j])
  BY <1>1, <1>2
<1> HIDE DEF Matches
<1> QED
  BY <1>1, <1>3 DEF ExactShares, SharesRight, ProperShares, TotalOf, BoundBefore

\* A step that does not return leaves the last answer, and the context.
LEMMA SameShares ==
  ASSUME ExactShares, UNCHANGED <<answer, static, given>>
  PROVE  ExactShares'
<1>1. ctx' = ctx
  BY DEF ctx
<1> HIDE DEF ctx
<1> QED
  BY <1>1 DEF ExactShares, Matches, MatchValue, GetIdentifier, Property, ProperShares, TotalOf,
              ProperWeights

\* Before the weights are summed there is nothing to say.
LEMMA EndEarly ==
  ASSUME ShareInv, step \in {"constraints", "strategy", "variants"},
         NEW end, NEW variant, NEW picked, Ended(end, variant, picked)
  PROVE  ExactShares'
<1>1. bounds = <<>>
  BY DEF ShareInv, SumInv
<1> QED
  BY <1>1, EndShares DEF SharesRight

\* The last sum is the total.
LEMMA LastBound ==
  ASSUME TypeOK, SumInv, bounds # <<>>
  PROVE  Len(bounds) \in Nat \ {0} /\ bounds[Len(bounds)] = totalWeight
<1>1. Len(bounds) \in Nat /\ Len(bounds) # 0
  BY LenProperties, EmptySeq DEF TypeOK
<1> QED
  BY <1>1 DEF SumInv, BoundBefore

\* A total that is 0 modulo 2^32 is not the sum of proper shares.
LEMMA ImproperTotal ==
  ASSUME TypeOK, ShareInv, step = "drawing", totalWeight % Width = 0
  PROVE  bounds # <<>> /\ ~(ProperWeights(setting.variants) /\ bounds[Len(bounds)] < Width)
<1>1. bounds # <<>> /\ totalWeight # 0
  BY DEF ShareInv, SumInv
<1>2. Len(bounds) \in Nat \ {0} /\ bounds[Len(bounds)] = totalWeight
  BY <1>1, LastBound DEF ShareInv
<1>3. ProperWeights(setting.variants) => totalWeight \in Nat
  BY <1>2 DEF ShareInv, SumInv, TypeOK
<1> QED
  BY <1>1, <1>2, <1>3, RemainderFits, StrategiesAssumption

LEMMA NextShares ==
  TypeOK /\ GroupInv /\ ShareInv /\ ExactShares /\ [Next]_vars => ExactShares'
<1> SUFFICES ASSUME TypeOK, GroupInv, ShareInv, ExactShares, [Next]_vars PROVE ExactShares'
  OBVIOUS
<1>0. ASSUME UNCHANGED <<answer, static, given>> PROVE ExactShares'
  BY <1>0, SameShares
<1>1. CASE (\E found \in family : Ask(found)) \/ TimePasses \/ PassConstraint
           \/ AllConstraintsHold \/ SumWeights \/ UNCHANGED vars
  BY <1>0, <1>1 DEF Ask, TimePasses, PassConstraint, AllConstraintsHold, SumWeights, Goto,
                    world, books, vars
<1>2. CASE FailConstraint
  BY <1>2, EndEarly DEF FailConstraint, Checking
<1>3. CASE AskStrategy
  <2>1. CASE \E end \in {"panic", "off", "on"} : Ended(end, NoVariant, 0)
    BY <1>3, <2>1, EndEarly DEF AskStrategy
  <2>2. CASE Goto("variants", 1)
    BY <1>0, <2>2 DEF Goto, world, books
  <2> QED
    BY <1>3, <2>1, <2>2 DEF AskStrategy
<1>4. CASE ScanOverrides
  <2>1. CASE \E variant : Ended("on", variant, 0)
    BY <1>4, <2>1, EndEarly DEF ScanOverrides
  <2>2. CASE \E next, i : Goto(next, i)
    BY <1>0, <2>2 DEF Goto, world, books
  <2> QED
    BY <1>4, <2>1, <2>2 DEF ScanOverrides
<1>5. CASE WeightsSummed
  <2>1. CASE totalWeight = 0 /\ Ended("on", Disabled, 0)
    <3>1. \A j \in DOMAIN setting.variants : ~Matches(setting.variants[j])
      BY <1>5, LenProperties DEF WeightsSummed, ShareInv, ScanInv, TypeOK, Setting
    <3>2. bounds # <<>> => bounds[Len(bounds)] = 0
      BY <2>1, LastBound DEF ShareInv
    <3>3. SharesRight(Disabled, 0)
      BY <3>1, <3>2 DEF SharesRight
    <3> QED
      BY <2>1, <3>3, EndShares
  <2>2. CASE Goto("drawing", 1)
    BY <1>0, <2>2 DEF Goto, world, books
  <2> QED
    BY <1>5, <2>1, <2>2 DEF WeightsSummed
<1>6. CASE DrawTarget
  <2>1. CASE totalWeight % Width = 0 /\ Ended("panic", NoVariant, 0)
    <3>1. SharesRight(NoVariant, 0)
      BY <1>6, <2>1, ImproperTotal DEF DrawTarget, SharesRight
    <3> QED
      BY <2>1, <3>1, EndShares
  <2>2. CASE Goto("picking", 1)
    BY <1>0, <2>2 DEF Goto, world, books
  <2> QED
    BY <1>6, <2>1, <2>2 DEF DrawTarget
<1>7. CASE PickVariant /\ index <= Len(setting.variants)
  <2>1. CASE CounterAfter >= target /\ Ended("on", setting.variants[index].name, index)
    <3>1. index \in Nat \ {0} /\ index <= Len(setting.variants) /\ step = "picking"
      BY <1>7 DEF PickVariant, TypeOK
    <3>2. setting.variants[index].name # Disabled
      BY <3>1, VariantTyping, TargetingAssumption
    <3>3. /\ bounds # <<>> /\ totalWeight # 0
          /\ \A j \in DOMAIN setting.variants : ~Matches(setting.variants[j])
      BY <3>1, LenProperties DEF ShareInv, SumInv, ScanInv, TypeOK, Setting
    <3>4. bounds[Len(bounds)] = totalWeight
      BY <3>3, LastBound DEF ShareInv
    <3>5. ASSUME ProperWeights(setting.variants), totalWeight < Width
          PROVE  BoundBefore(bounds, index) < target /\ target <= bounds[index]
      <4>1. CounterAfter = bounds[index]
        BY <3>1, <3>5, CounterFits DEF ShareInv
      <4>2. bounds[index] \in Int /\ target \in Int
        BY <3>1, ElementOfSeq, LenProperties DEF TypeOK, ShareInv, SumInv, Setting
      <4> QED
        BY <2>1, <3>1, <3>5, <4>1, <4>2 DEF ShareInv, PickInv
    <3>6. SharesRight(setting.variants[index].name, index)
      BY <3>1, <3>2, <3>3, <3>4, <3>5 DEF SharesRight
    <3> QED
      BY <2>1, <3>6, EndShares
  <2>2. CASE Goto("picking", index + 1)
    BY <1>0, <2>2 DEF Goto, world, books
  <2> QED
    BY <1>7, <2>1, <2>2 DEF PickVariant
<1>8. CASE PickVariant /\ ~(index <= Len(setting.variants))
  <2>1. /\ index \in Nat \ {0} /\ index > Len(setting.variants) /\ step = "picking"
        /\ Len(setting.variants) \in Nat /\ index <= Len(setting.variants) + 1
    BY <1>8, LenProperties DEF PickVariant, TypeOK, Setting, ShareInv, PickInv
  <2>2. index = Len(bounds) + 1 /\ totalWeight = BoundBefore(bounds, index)
    BY <2>1 DEF ShareInv, SumInv
  <2>3. bounds # <<>>
    BY <2>1 DEF ShareInv, SumInv
  <2>4. bounds[Len(bounds)] = totalWeight /\ totalWeight \in Int /\ Width \in Nat
    BY <2>3, LastBound, StrategiesAssumption DEF ShareInv, TypeOK
  <2>5. Len(bounds) \in 1 .. Len(bounds)
    BY <2>3, LastBound DEF ShareInv
  <2>6. ASSUME ProperWeights(setting.variants), totalWeight < Width PROVE FALSE
    <3>1. totalWeight \in Nat
      BY <2>4, <2>5, <2>6 DEF ShareInv, SumInv
    <3>2. totalWeight % Width = totalWeight
      BY <2>4, <2>6, <3>1, RemainderFits
    <3> QED
      BY <2>1, <2>2, <2>4, <2>6, <3>2 DEF ShareInv, PickInv, TypeOK
  <2>7. SharesRight(Disabled, 0)
    BY <2>4, <2>6 DEF SharesRight
  <2> QED
    BY <1>8, <2>7, EndShares DEF PickVariant
<1> QED
  BY <1>1, <1>2, <1>3, <1>4, <1>5, <1>6, <1>7, <1>8 DEF Next, Evaluate

\* Every variant gets exactly its share of the targets, whatever the hash is.
THEOREM ShareSafety == Spec => []ExactShares
<1>1. Init => ExactShares
  BY DEF Init, ExactShares
<1>2. Spec => [](TypeOK /\ GroupInv /\ ShareInv)
  BY Invariance
<1> QED
  BY <1>1, <1>2, NextShares, PTL DEF Spec

-----------------------------------------------------------------------------
(***************************************************************************)
(* What the strategies answer.                                             *)
(***************************************************************************)

\* Only flexibleRollout panics, on a type assertion.
LEMMA PanickingStrategies ==
  ASSUME NEW name \in StrategyNames, NEW p \in Parameters, NEW c,
         "panic" \in StrategyAnswers(name, p, c)
  PROVE  /\ name = "flexibleRollout"
         /\ p.groupId = Malformed \/ p.stickiness \in {Missing, Malformed}
BY DEF StrategyNames, StrategyAnswers, FlexibleRollout, UserWithId, GradualRollout,
       GradualRolloutRandom, ApplicationHostname, RemoteAddress, Answer

\* The ids that the gradual strategies hash are strings.
LEMMA StickinessTyping ==
  ASSUME NEW c \in Context, NEW sticky
  PROVE  ResolveStickiness(sticky, c) \subseteq Values
<1>1. Field(c, sticky) \in Values
  BY FieldTyping
<1>2. c.userId \in Values /\ c.sessionId \in Values
  BY DEF Context
<1> QED
  BY <1>1, <1>2, StrategiesAssumption DEF ResolveStickiness

\* Everybody is within a rollout of 100 percent, and nobody within one of 0.
LEMMA RolloutLimits ==
  ASSUME NEW id \in Values, NEW group \in Groups
  PROVE  WithinRollout(id, group, Scale) /\ ~WithinRollout(id, group, 0)
<1>1. Scale \in Nat \ {0} /\ Width \in Nat /\ Scale < Width /\ RolloutSeed \in Seeds
  BY StrategiesAssumption
<1>2. Scale % Width = Scale /\ Scale \in Int
  BY <1>1, RemainderFits
<1>3. NormalizedVariantValue(id, group, Scale, RolloutSeed) <= Scale
  BY <1>1, <1>2, TargetRange
<1> QED
  BY <1>1, <1>3 DEF WithinRollout, NormalizedRolloutValue

\* At 0 percent no gradual strategy says yes.
LEMMA NobodyAtZero ==
  ASSUME NEW name \in Gradual, NEW p \in Parameters, NEW c, p.rollout = 0
  PROVE  "yes" \notin StrategyAnswers(name, p, c)
<1>1. \A id, group : ~WithinRollout(id, group, 0)
  BY DEF WithinRollout
<1> QED
  BY <1>1 DEF Gradual, StrategyAnswers, FlexibleRollout, GradualRollout, Answer

\* At 100 percent none says no, when the strategy has an id and a group.
LEMMA EverybodyAtScale ==
  ASSUME TypeOK, NEW s \in Setting, s.strategy \in Gradual,
         s.parameters.rollout = Scale, s.parameters.groupId \in Groups,
         s.strategy = "flexibleRollout" => s.parameters.stickiness \notin {Missing, Malformed},
         StickyIds(s) # {Empty}
  PROVE  "no" \notin StrategyAnswers(s.strategy, s.parameters, ctx)
<1> DEFINE p == s.parameters
           sticky == p.stickiness
<1>1. ctx \in Context
  BY OverrideTyping DEF TypeOK, ctx
<1>2. Scale \in Percentages /\ Missing \notin Groups /\ Malformed \notin Groups
  BY StrategiesAssumption DEF Percentages
<1> HIDE DEF ctx
<1>3. \A id \in Values : WithinRollout(id, p.groupId, Scale)
  BY RolloutLimits
<1>4. CASE s.strategy = "flexibleRollout"
  <2>1. ResolveStickiness(sticky, ctx) \subseteq Values
    BY <1>1, StickinessTyping
  <2>2. Empty \notin ResolveStickiness(sticky, ctx)
    <3>1. "random" \notin {"default", Empty} \/ sticky # "random" \/ Empty \notin RandomIds
      BY StrategiesAssumption
    <3> QED
      BY <1>4, <3>1, StrategiesAssumption DEF ResolveStickiness, StickyIds
  <2>3. StrategyAnswers(s.strategy, p, ctx) = FlexibleRollout(p, ctx)
    BY <1>4 DEF StrategyAnswers
  <2>4. IsNumber(p.rollout)
    BY <1>2 DEF IsNumber
  <2>5. FlexibleRollout(p, ctx) =
          {Answer(id # Empty /\ WithinRollout(id, p.groupId, p.rollout)) :
              id \in ResolveStickiness(sticky, ctx)}
    BY <1>2, <1>4, <2>4 DEF FlexibleRollout
  <2>6. \A id \in ResolveStickiness(sticky, ctx) :
          Answer(id # Empty /\ WithinRollout(id, p.groupId, p.rollout)) = "yes"
    BY <1>3, <2>1, <2>2 DEF Answer
  <2> QED
    BY <2>3, <2>5, <2>6
<1>5. CASE s.strategy \in {"gradualRolloutUserId", "gradualRolloutSessionId"}
  <2>1. PICK id \in Values : /\ id # Empty
                             /\ StrategyAnswers(s.strategy, p, ctx) = {GradualRollout(p, id)}
    BY <1>1, <1>5 DEF StrategyAnswers, StickyIds, Context
  <2>2. GradualRollout(p, id) = "yes"
    BY <1>2, <1>3, <2>1 DEF GradualRollout, Answer, IsNumber
  <2> QED
    BY <2>1, <2>2
<1> QED
  BY <1>4, <1>5 DEF Gradual

-----------------------------------------------------------------------------
(***************************************************************************)
(* What one constraint says.                                               *)
(***************************************************************************)

\* Whatever the operator, a check is an error or has a result.
LEMMA CheckResult ==
  ASSUME NEW c \in Constraint, NEW time
  PROVE  \/ CheckConstraint(ctx, c, time) = Failed /\ ~Evaluable(ctx, c)
         \/ CheckConstraint(ctx, c, time) \in {Met, Unmet} /\ Evaluable(ctx, c)
<1>1. CASE c.operator \in ListOperators
  BY <1>1 DEF ListOperators, CheckConstraint, Fulfilled, Evaluable, Operators, OrderOperators,
              ParserOf
<1>2. CASE c.operator \in StrOperators
  BY <1>2 DEF StrOperators, CheckConstraint, Fulfilled, Evaluable, Operators, OrderOperators,
              ParserOf
<1>3. CASE c.operator \in OrderOperators
  <2> DEFINE accepted == DOMAIN Order[ParserOf[c.operator]]
             value    == Field(ctx, c.contextName)
             isNow    == ParserOf[c.operator] = "date" /\ value = Empty
  <2>1. CheckConstraint(ctx, c, time) = OperatorOrder(ctx, c, time)
    BY <1>3 DEF CheckConstraint, OrderOperators, ParserOf, StrOperators
  <2>2. Empty \notin accepted
    <3>1. ParserOf[c.operator] \in Parsers
      BY <1>3 DEF OrderOperators, ParserOf, Parsers
    <3> QED
      BY <3>1, ConstraintsAssumption
  <2>3. Evaluable(ctx, c) <=> c.value \in accepted /\ (value \in accepted \/ isNow)
    BY <1>3 DEF Evaluable, Operators
  <2> QED
    BY <2>1, <2>2, <2>3 DEF OperatorOrder, Fulfilled
<1>4. CASE c.operator = "UNKNOWN"
  BY <1>4 DEF CheckConstraint, Evaluable, Operators, OrderOperators, ParserOf, ListOperators,
              StrOperators
<1> QED
  BY <1>1, <1>2, <1>3, <1>4 DEF Constraint, Operators

LEMMA InvertResult ==
  ASSUME NEW plain, NEW result, result = [ok |-> ~plain.ok, err |-> plain.err]
  PROVE  /\ plain = Failed => result.err
         /\ plain = Met => ~result.ok /\ ~result.err
         /\ plain = Unmet => result.ok /\ ~result.err
<1>1. ASSUME plain = Failed PROVE result.err
  BY <1>1, Zenon DEF Failed
<1>2. ASSUME plain = Met PROVE ~result.ok /\ ~result.err
  BY <1>2, Zenon DEF Met
<1>3. ASSUME plain = Unmet PROVE result.ok /\ ~result.err
  BY <1>3, Zenon DEF Unmet
<1> QED
  BY <1>1, <1>2, <1>3

LEMMA KeepResult ==
  /\ Met.ok = TRUE /\ ~Met.err /\ Unmet.ok = FALSE /\ ~Unmet.err /\ ~Failed.ok /\ Failed.err
BY DEF Met, Unmet, Failed

\* A check has an error if the constraint means nothing for the context, and
\* otherwise says what it means, inverted or not.
LEMMA CheckMeans ==
  ASSUME NEW c \in Constraint, NEW time, NEW result,
         result = CheckConstraintInvertible(ctx, c, time)
  PROVE  /\ result.err <=> ~Evaluable(ctx, c)
         /\ result.ok /\ ~result.err <=> Meets(c, time)
<1> DEFINE plain == CheckConstraint(ctx, c, time)
<1>1. c.inverted \in BOOLEAN
  BY DEF Constraint
<1>2. Meets(c, time) <=> Evaluable(ctx, c) /\ plain.ok # c.inverted
  BY Zenon DEF Meets
<1>3. \/ plain = Failed /\ ~Evaluable(ctx, c)
      \/ plain \in {Met, Unmet} /\ Evaluable(ctx, c)
  BY CheckResult
<1>4. CASE c.inverted
  <2>1. result = [ok |-> ~plain.ok, err |-> plain.err]
    BY <1>4 DEF CheckConstraintInvertible
  <2> HIDE DEF plain
  <2>2. /\ plain = Failed => result.err
        /\ plain = Met => ~result.ok /\ ~result.err
        /\ plain = Unmet => result.ok /\ ~result.err
    BY <2>1, InvertResult
  <2> QED
    BY <1>1, <1>2, <1>3, <1>4, <2>2, KeepResult
<1>5. CASE ~c.inverted
  <2>1. result = plain
    BY <1>5 DEF CheckConstraintInvertible
  <2> HIDE DEF plain
  <2> QED
    BY <1>1, <1>2, <1>3, <1>5, <2>1, KeepResult
<1> QED
  BY <1>4, <1>5

-----------------------------------------------------------------------------
(***************************************************************************)
(* Constraints, rollouts and panics of an evaluation.                      *)
(***************************************************************************)

\* The constraint was met at some time since the evaluation began.
MetSince(i) == \E time \in since .. clock : Meets(setting.constraints[i], time)

\* It was met all the time.
MetEver(i) == \A time \in since .. clock : Meets(setting.constraints[i], time)

\* The constraints up to the loop's index are met, and later all of them.
PassedInv ==
  /\ since <= clock
  /\ step = "constraints" =>
       /\ index <= Len(setting.constraints) + 1
       /\ \A i \in 1 .. index - 1 : MetSince(i)
  /\ step = "strategy" \/ Weighing => \A i \in 1 .. Len(setting.constraints) : MetSince(i)

\* Variants are chosen after the strategy said yes.
GrantInv == Weighing => "yes" \in StrategyAnswers(setting.strategy, setting.parameters, ctx)

\* What an evaluation that ends has to say.
EndRight(end) ==
  /\ end \in {"on", "panic"} => \A i \in 1 .. Len(setting.constraints) : MetSince(i)
  /\ end = "error" => \E i \in 1 .. Len(setting.constraints) :
                       /\ ~Evaluable(ctx, setting.constraints[i])
                       /\ \A j \in 1 .. i - 1 : MetSince(j)
  /\ end # "error" => \A i \in 1 .. Len(setting.constraints) :
                       \/ Evaluable(ctx, setting.constraints[i])
                       \/ \E j \in 1 .. i - 1 : ~MetEver(j)
  /\ end = "on" => "yes" \in StrategyAnswers(setting.strategy, setting.parameters, ctx)
  /\ end = "off" =>
       \/ setting.constraints # <<>>
       \/ "no" \in StrategyAnswers(setting.strategy, setting.parameters, ctx)
       \/ setting.parameters.groupId \notin Groups
  /\ end = "panic" =>
       \/ "panic" \in StrategyAnswers(setting.strategy, setting.parameters, ctx)
       \/ bounds # <<>> /\ ~(ProperWeights(setting.variants) /\ bounds[Len(bounds)] < Width)

AnswersRight == ConstraintsRespected /\ RolloutEdges /\ OnlyImproperPanics

\* The context of the calls stays, and with it what a constraint means.
LEMMA SameContext ==
  ASSUME UNCHANGED <<static, given>>
  PROVE  ctx' = ctx /\ \A c, time : Meets(c, time)' <=> Meets(c, time)
<1>1. ctx' = ctx
  BY DEF ctx
<1> HIDE DEF ctx
<1>2. \A c, time : Meets(c, time)' <=> Meets(c, time)
  BY <1>1 DEF Meets
<1> QED
  BY <1>1, <1>2

LEMMA MetStays ==
  ASSUME TypeOK, UNCHANGED <<static, given, setting, since>>, clock' \in Nat, clock <= clock'
  PROVE  \A i : MetSince(i) => MetSince(i)'
<1>1. \A c, time : Meets(c, time)' <=> Meets(c, time)
  BY SameContext
<1>2. since \in Nat /\ clock \in Nat
  BY TargetingAssumption DEF TypeOK
<1>3. since .. clock \subseteq since' .. clock'
  BY <1>2
<1> HIDE DEF Meets
<1> QED
  BY <1>1, <1>3 DEF MetSince

\* What was met has a meaning.
LEMMA MetEvaluable ==
  ASSUME NEW i, MetSince(i)
  PROVE  Evaluable(ctx, setting.constraints[i])
BY Zenon DEF MetSince, Meets

LEMMA EndAnswers ==
  ASSUME TypeOK, NEW end, NEW variant, NEW picked, Ended(end, variant, picked), EndRight(end)
  PROVE  AnswersRight'
<1>1. /\ answer'.setting = setting /\ answer'.end = end /\ answer'.bounds = bounds
      /\ answer'.since = since /\ answer'.until = clock
      /\ UNCHANGED <<static, given, setting, since, clock>>
  BY DEF Ended, world
<1>2. /\ ctx' = ctx
      /\ \A c, time : Meets(c, time)' <=> Meets(c, time)
  BY <1>1, SameContext
<1>3. setting.constraints \in Seq(Constraint) /\ setting \in Setting
  BY DEF TypeOK, Setting
<1>4. DOMAIN setting.constraints = 1 .. Len(setting.constraints)
  BY <1>3, LenProperties
<1> HIDE DEF ctx, Meets
<1>5. ConstraintsRespected'
  <2>1. \A c : MetDuring(c, answer)' <=> \E time \in since .. clock : Meets(c, time)
    BY <1>1, <1>2 DEF MetDuring
  <2>2. \A i : MetDuring(answer.setting.constraints[i], answer)' <=> MetSince(i)
    BY <1>1, <2>1 DEF MetSince
  <2>3. \A c : MetThroughout(c, answer)' <=> \A time \in since .. clock : Meets(c, time)
    BY <1>1, <1>2 DEF MetThroughout
  <2>4. \A i : MetThroughout(answer.setting.constraints[i], answer)' <=> MetEver(i)
    BY <1>1, <2>3 DEF MetEver
  <2> HIDE DEF MetDuring, MetThroughout, MetSince, MetEver, Evaluable
  <2> QED
    BY <1>1, <1>2, <1>4, <2>2, <2>4 DEF ConstraintsRespected, EndRight
<1>6. RolloutEdges'
  <2> DEFINE answers == StrategyAnswers(setting.strategy, setting.parameters, ctx)
  <2>1. StickyIds(answer.setting)' = StickyIds(setting)
    BY <1>1, <1>2 DEF StickyIds
  <2>2. setting.strategy \in Gradual /\ setting.parameters.rollout = 0 => "yes" \notin answers
    BY <1>3, NobodyAtZero DEF Setting
  <2>3. /\ setting.strategy \in Gradual
        /\ setting.parameters.rollout = Scale /\ setting.parameters.groupId \in Groups
        /\ setting.strategy = "flexibleRollout" =>
             setting.parameters.stickiness \notin {Missing, Malformed}
        /\ StickyIds(setting) # {Empty}
        => "no" \notin answers
    BY <1>3, EverybodyAtScale
  <2>4. setting.constraints = <<>> => Len(setting.constraints) = 0
    BY EmptySeq
  <2> HIDE DEF answers, StickyIds, Gradual
  <2> QED
    BY <1>1, <2>1, <2>2, <2>3, <2>4 DEF RolloutEdges, EndRight, answers
<1>7. OnlyImproperPanics'
  <2>1. "panic" \in StrategyAnswers(setting.strategy, setting.parameters, ctx) =>
          /\ setting.strategy = "flexibleRollout"
          /\ \/ setting.parameters.groupId = Malformed
             \/ setting.parameters.stickiness \in {Missing, Malformed}
    BY <1>3, PanickingStrategies DEF Setting
  <2> QED
    BY <1>1, <2>1 DEF OnlyImproperPanics, EndRight, ProperShares, TotalOf, ProperWeights
<1> QED
  BY <1>5, <1>6, <1>7 DEF AnswersRight

LEMMA SameAnswers ==
  ASSUME AnswersRight, UNCHANGED <<answer, static, given>>
  PROVE  AnswersRight'
<1>1. ctx' = ctx /\ \A c, time : Meets(c, time)' <=> Meets(c, time)
  BY SameContext
<1> HIDE DEF ctx, Meets
<1>2. ConstraintsRespected'
  <2> DEFINE cs == answer.setting.constraints
             R(i) == ~Evaluable(ctx, cs[i])
             D(i) == MetDuring(cs[i], answer)
             T(i) == MetThroughout(cs[i], answer)
  <2>1. answer # None =>
          /\ answer.end \in {"on", "panic"} => \A i \in DOMAIN cs : D(i)
          /\ \A i \in DOMAIN cs : R(i) /\ (\A j \in 1 .. i - 1 : T(j)) => answer.end = "error"
          /\ answer.end = "error" => \E i \in DOMAIN cs : R(i) /\ \A j \in 1 .. i - 1 : D(j)
    BY DEF AnswersRight, ConstraintsRespected
  <2>2. answer' = answer /\ cs' = cs
    OBVIOUS
  <2>3. \A i : R(i)' <=> R(i)
    BY <1>1, <2>2
  <2>4. \A i : (D(i)' <=> D(i)) /\ (T(i)' <=> T(i))
    BY <1>1, <2>2 DEF MetDuring, MetThroughout
  <2> HIDE DEF cs, R, D, T
  <2>5. (answer # None)' =>
          /\ answer'.end \in {"on", "panic"} => \A i \in DOMAIN cs' : D(i)'
          /\ \A i \in DOMAIN cs' : R(i)' /\ (\A j \in 1 .. i - 1 : T(j)') => answer'.end = "error"
          /\ answer'.end = "error" => \E i \in DOMAIN cs' : R(i)' /\ \A j \in 1 .. i - 1 : D(j)'
    BY <2>1, <2>2, <2>3, <2>4 DEF None
  <2> QED
    BY <2>5 DEF ConstraintsRespected, cs, R, D, T
<1>3. RolloutEdges'
  BY <1>1 DEF AnswersRight, RolloutEdges, StickyIds
<1>4. OnlyImproperPanics'
  BY DEF AnswersRight, OnlyImproperPanics, ProperShares, TotalOf, ProperWeights
<1> QED
  BY <1>2, <1>3, <1>4 DEF AnswersRight

\* A return leaves nothing to say until the next evaluation.
LEMMA EndPassed ==
  ASSUME TypeOK, PassedInv, NEW end, NEW variant, NEW picked, Ended(end, variant, picked)
  PROVE  PassedInv' /\ GrantInv'
BY DEF Ended, world, PassedInv, GrantInv, Weighing

\* A step of a loop keeps what is known of the constraints and the strategy.
LEMMA GotoPassed ==
  ASSUME TypeOK, PassedInv, GrantInv, Weighing \/ step = "strategy", NEW next, NEW i,
         next \in {"variants", "summing", "drawing", "picking"}, Goto(next, i),
         "yes" \in StrategyAnswers(setting.strategy, setting.parameters, ctx)
  PROVE  PassedInv' /\ GrantInv'
<1>1. /\ UNCHANGED <<static, given, setting, since, clock>> /\ step' = next
      /\ step' # "constraints"
  BY DEF Goto, world
<1>2. ctx' = ctx
  BY <1>1, SameContext
<1>3. clock' \in Nat /\ clock <= clock'
  BY <1>1, TargetingAssumption DEF TypeOK
<1>4. \A j : MetSince(j) => MetSince(j)'
  BY <1>1, <1>3, MetStays
<1> HIDE DEF ctx, MetSince
<1>5. GrantInv'
  BY <1>1, <1>2 DEF GrantInv
<1>6. PassedInv'
  BY <1>1, <1>4 DEF PassedInv
<1> QED
  BY <1>5, <1>6

\* An evaluation ends right when it has got to the variants.
LEMMA EndWeighing ==
  ASSUME TypeOK, ShareInv, PassedInv, GrantInv, Weighing, NEW end \in {"on", "panic"},
         end = "panic" => step = "drawing" /\ totalWeight % Width = 0,
         NEW variant, NEW picked, Ended(end, variant, picked)
  PROVE  PassedInv' /\ GrantInv' /\ AnswersRight'
<1>1. EndRight(end)
  BY ImproperTotal, MetEvaluable DEF EndRight, PassedInv, GrantInv
<1> QED
  BY <1>1, EndPassed, EndAnswers

LEMMA NextAnswers ==
  TypeOK /\ ShareInv /\ PassedInv /\ GrantInv /\ AnswersRight /\ [Next]_vars
    => PassedInv' /\ GrantInv' /\ AnswersRight'
<1> SUFFICES ASSUME TypeOK, ShareInv, PassedInv, GrantInv, AnswersRight, [Next]_vars
             PROVE  PassedInv' /\ GrantInv' /\ AnswersRight'
  OBVIOUS
<1>0. ASSUME NEW next, NEW i, Goto(next, i) PROVE AnswersRight'
  BY <1>0, SameAnswers DEF Goto, world, books
<1>1. ASSUME NEW found \in family, Ask(found) PROVE PassedInv' /\ GrantInv' /\ AnswersRight'
  <2>1. AnswersRight'
    BY <1>1, SameAnswers DEF Ask, world, books
  <2>2. /\ clock \in Nat /\ clock' = clock /\ since' = clock /\ index' = 1
        /\ step' = "constraints" /\ setting' = found /\ found \in Setting
    BY <1>1, TargetingAssumption DEF Ask, world, TypeOK, Settings
  <2>3. Len(found.constraints) \in Nat
    BY <2>2, LenProperties DEF Setting
  <2>4. PassedInv' /\ GrantInv'
    BY <2>2, <2>3 DEF PassedInv, GrantInv, Weighing
  <2> QED
    BY <2>1, <2>4
<1>2. CASE TimePasses \/ UNCHANGED vars
  <2>1. UNCHANGED <<static, given, setting, since, step, index, answer>>
    BY <1>2 DEF TimePasses, vars, books
  <2>2. clock' \in Nat /\ clock <= clock' /\ since \in Nat /\ clock \in Nat
    BY <1>2, TargetingAssumption DEF TimePasses, vars, TypeOK
  <2>3. \A j : MetSince(j) => MetSince(j)'
    BY <2>1, <2>2, MetStays
  <2>4. AnswersRight' /\ ctx' = ctx
    BY <2>1, SameAnswers, SameContext
  <2> HIDE DEF MetSince, ctx
  <2>5. GrantInv'
    BY <2>1, <2>4 DEF GrantInv, Weighing
  <2>6. PassedInv'
    BY <2>1, <2>2, <2>3 DEF PassedInv, Weighing
  <2> QED
    BY <2>4, <2>5, <2>6
<1>3. CASE Checking /\ (PassConstraint \/ FailConstraint)
  <2> DEFINE c == setting.constraints[index]
  <2>1. /\ index \in Nat \ {0} /\ index <= Len(setting.constraints) /\ step = "constraints"
        /\ setting.constraints \in Seq(Constraint) /\ Len(setting.constraints) \in Nat
    BY <1>3, LenProperties DEF Checking, TypeOK, Setting
  <2>2. c \in Constraint
    BY <2>1, ElementOfSeq
  <2>3. /\ Checked.err <=> ~Evaluable(ctx, c)
        /\ Checked.ok /\ ~Checked.err <=> Meets(c, clock)
    BY <2>2, CheckMeans DEF Checked
  <2>4. clock \in since .. clock
    BY TargetingAssumption DEF TypeOK, PassedInv
  <2>5. Checked.ok /\ ~Checked.err => MetSince(index)
    BY <2>3, <2>4 DEF MetSince
  <2>6. CASE PassConstraint
    <3>1. /\ UNCHANGED <<static, given, setting, since, clock>> /\ Goto("constraints", index + 1)
          /\ step' = "constraints" /\ index' = index + 1 /\ MetSince(index)
      BY <2>5, <2>6 DEF PassConstraint, Goto, world
    <3>2. clock' \in Nat /\ clock <= clock' /\ since \in Nat
      BY <3>1, TargetingAssumption DEF TypeOK
    <3>3. \A j : MetSince(j) => MetSince(j)'
      BY <3>1, <3>2, MetStays
    <3>4. \A j \in 1 .. index : MetSince(j)
      BY <2>1, <3>1 DEF PassedInv
    <3> HIDE DEF MetSince
    <3>5. PassedInv'
      BY <2>1, <3>1, <3>3, <3>4 DEF PassedInv, Weighing
    <3> QED
      BY <1>0, <3>1, <3>5 DEF GrantInv, Weighing
  <2>7. CASE FailConstraint
    <3>1. PICK end \in {"error", "off"} :
            Ended(end, NoVariant, 0) /\ (end = "error" <=> Checked.err)
      BY <2>7 DEF FailConstraint
    <3>2. setting.constraints # <<>>
      BY <2>1, EmptySeq
    <3>3. \A j \in 1 .. index - 1 : MetSince(j)
      BY <2>1 DEF PassedInv
    <3>4. \A j \in 1 .. index - 1 : Evaluable(ctx, setting.constraints[j])
      BY <3>3, MetEvaluable
    <3>5. ~Checked.err => Evaluable(ctx, c) /\ ~MetEver(index)
      BY <2>3, <2>4, <2>7, Zenon DEF FailConstraint, MetEver
    <3>6. ~Checked.err => \A i \in 1 .. Len(setting.constraints) :
                            \/ Evaluable(ctx, setting.constraints[i])
                            \/ \E j \in 1 .. i - 1 : ~MetEver(j)
      <4> HIDE DEF MetEver, Evaluable
      <4> QED
        BY <2>1, <3>4, <3>5
    <3> HIDE DEF MetSince, MetEver, Evaluable
    <3>7. EndRight(end)
      BY <2>1, <2>3, <3>1, <3>2, <3>3, <3>6 DEF EndRight
    <3> QED
      BY <3>1, <3>7, EndPassed, EndAnswers
  <2> QED
    BY <1>3, <2>6, <2>7
<1>4. CASE AllConstraintsHold
  <2>1. /\ UNCHANGED <<static, given, setting, since, clock>> /\ Goto("strategy", 1)
        /\ step' = "strategy" /\ step = "constraints" /\ index > Len(setting.constraints)
    BY <1>4 DEF AllConstraintsHold, Goto, world
  <2>2. clock' \in Nat /\ clock <= clock' /\ index \in Nat /\ Len(setting.constraints) \in Nat
    BY <2>1, TargetingAssumption, LenProperties DEF TypeOK, Setting
  <2>3. \A j : MetSince(j) => MetSince(j)'
    BY <2>1, <2>2, MetStays
  <2>4. \A j \in 1 .. Len(setting.constraints) : MetSince(j)
    BY <2>1, <2>2 DEF PassedInv
  <2> HIDE DEF MetSince
  <2>5. PassedInv' /\ GrantInv'
    BY <2>1, <2>3, <2>4 DEF PassedInv, GrantInv, Weighing
  <2> QED
    BY <1>0, <2>1, <2>5
<1>5. CASE AskStrategy
  <2>1. step = "strategy" /\ \A i \in 1 .. Len(setting.constraints) : MetSince(i)
    BY <1>5 DEF AskStrategy, PassedInv
  <2>2. CASE Goto("variants", 1)
             /\ "yes" \in StrategyAnswers(setting.strategy, setting.parameters, ctx)
    BY <1>0, <2>1, <2>2, GotoPassed
  <2>3. ASSUME NEW end \in {"panic", "off", "on"}, Ended(end, NoVariant, 0), EndRight(end)
        PROVE  PassedInv' /\ GrantInv' /\ AnswersRight'
    BY <2>3, EndPassed, EndAnswers
  <2>4. ASSUME NEW reply \in StrategyAnswers(setting.strategy, setting.parameters, ctx),
               \/ reply = "panic" /\ Ended("panic", NoVariant, 0)
               \/ reply = "no" /\ Ended("off", NoVariant, 0)
               \/ reply = "yes" /\ Ended("on", NoVariant, 0)
               \/ setting.parameters.groupId \notin Groups /\ Ended("off", NoVariant, 0)
        PROVE  PassedInv' /\ GrantInv' /\ AnswersRight'
    BY <2>1, <2>3, <2>4, MetEvaluable DEF EndRight
  <2> QED
    BY <1>5, <2>2, <2>4 DEF AskStrategy
<1>6. CASE Weighing /\ \E next \in {"variants", "summing", "drawing", "picking"} : \E i : Goto(next, i)
  BY <1>0, <1>6, GotoPassed DEF GrantInv
<1>7. CASE Weighing /\ \E variant, picked : Ended("on", variant, picked)
  BY <1>7, EndWeighing
<1>8. CASE ScanOverrides \/ WeightsSummed \/ PickVariant \/ SumWeights
  BY <1>6, <1>7, <1>8
     DEF ScanOverrides, WeightsSummed, PickVariant, SumWeights, Weighing
<1>9. CASE DrawTarget
  <2>1. CASE totalWeight % Width = 0 /\ Ended("panic", NoVariant, 0)
    BY <1>9, <2>1, EndWeighing DEF DrawTarget, Weighing
  <2>2. CASE Goto("picking", 1)
    BY <1>6, <1>9, <2>2 DEF DrawTarget, Weighing
  <2> QED
    BY <1>9, <2>1, <2>2 DEF DrawTarget
<1> QED
  BY <1>1, <1>2, <1>3, <1>4, <1>5, <1>8, <1>9
     DEF Next, Evaluate, PassConstraint, FailConstraint, Checking

LEMMA InitAnswers == Init => PassedInv /\ GrantInv /\ AnswersRight
BY DEF Init, PassedInv, GrantInv, Weighing, AnswersRight, ConstraintsRespected, RolloutEdges,
       OnlyImproperPanics

LEMMA AnswerInvariance == Spec => []AnswersRight
<1>1. Spec => [](TypeOK /\ GroupInv /\ ShareInv)
  BY Invariance
<1> QED
  BY <1>1, InitAnswers, NextAnswers, PTL DEF Spec

\* A strategy is on only for a context that meets its constraints; one that
\* cannot be evaluated is reported if those before it are met, and nothing else
\* is, whatever the operators, the inversions and the clock do.
THEOREM ConstraintSafety == Spec => []ConstraintsRespected
<1>1. AnswersRight => ConstraintsRespected
  BY DEF AnswersRight
<1> QED
  BY <1>1, AnswerInvariance, PTL

\* Rollouts of 0 and 100 percent are on for nobody and for everybody.
THEOREM RolloutSafety == Spec => []RolloutEdges
<1>1. AnswersRight => RolloutEdges
  BY DEF AnswersRight
<1> QED
  BY <1>1, AnswerInvariance, PTL

\* No evaluation panics but for a missing stickiness, a parameter of another
\* type, or weights that are negative or too large.
THEOREM PanicSafety == Spec => []OnlyImproperPanics
<1>1. AnswersRight => OnlyImproperPanics
  BY DEF AnswersRight
<1> QED
  BY <1>1, AnswerInvariance, PTL
==============================================================================
