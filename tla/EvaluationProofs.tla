-------------------------- MODULE EvaluationProofs ---------------------------
(***************************************************************************)
(* The depth of Evaluation's recursion and its types, for any documents,   *)
(* any number of callers and of installs.                                  *)
(***************************************************************************)
EXTENDS Evaluation, SequenceTheorems, TLAPS

\* An activation knows its feature as soon as it has looked it up.
OpenFrame == {frame \in Frame : frame.step # "resolving" => frame.feature \in FeatureType}

\* What the variables that bear on the recursion may be.
StackType ==
  /\ toggles \in Documents /\ segments \in Documents
  /\ locked \in BOOLEAN
  /\ installs \in Nat
  /\ since \in [Callers -> Nat]
  /\ stack \in [Callers -> Seq(OpenFrame)]

\* Every activation below the innermost waits for a parent.
WaitInv ==
  \A c \in Callers : \A i \in 1 .. Len(stack[c]) - 1 : stack[c][i].step = "parents"

Overtaken(c) == installs - since[c]

\* As deep as the installs so far allow: the innermost activation was let in
\* as a parent without parents, and the toggles are still those it was seen in.
Saturated(c) ==
  Len(stack[c]) = 2 + Overtaken(c) =>
    \/ Top(c).step = "strategies"
    \/ /\ Top(c).step = "resolving"
       /\ Top(c).name \in DOMAIN toggles.features
            => toggles.features[Top(c).name].dependencies = <<>>

\* While the poller holds the lock one level is in reserve.
DepthInv ==
  \A c \in Callers :
    /\ since[c] <= installs
    /\ Len(stack[c]) <= 2 + Overtaken(c)
    /\ locked => Len(stack[c]) <= 1 + Overtaken(c)
    /\ Saturated(c)

Inv == StackType /\ WaitInv /\ DepthInv

-----------------------------------------------------------------------------
LEMMA DocumentFeatures ==
  ASSUME NEW d \in Documents, NEW name \in DOMAIN d.features
  PROVE  d.features[name] \in FeatureType /\ name \in Names
BY EvaluationAssumption DEF EvaluationAssumption, IsDocument

\* The innermost activation of a caller.
LEMMA TopType ==
  ASSUME StackType, NEW c \in Callers, stack[c] # <<>>
  PROVE  /\ Len(stack[c]) \in Nat \ {0}
         /\ Top(c) \in OpenFrame
         /\ stack[c] \in Seq(OpenFrame)
<1>1. stack[c] \in Seq(OpenFrame)
  BY DEF StackType
<1>2. Len(stack[c]) \in Nat \ {0}
  BY <1>1, EmptySeq
<1>3. stack[c][Len(stack[c])] \in OpenFrame
  BY <1>1, <1>2, ElementOfSeq
<1> QED
  BY <1>1, <1>2, <1>3 DEF Top

\* Becomes exchanges the innermost activation.
LEMMA BecomesStack ==
  ASSUME StackType, NEW c \in Callers, stack[c] # <<>>, NEW frame \in OpenFrame,
         Becomes(c, frame)
  PROVE  /\ stack' \in [Callers -> Seq(OpenFrame)]
         /\ Len(stack'[c]) = Len(stack[c])
         /\ stack'[c][Len(stack[c])] = frame
         /\ \A i \in 1 .. Len(stack[c]) - 1 : stack'[c][i] = stack[c][i]
         /\ \A b \in Callers \ {c} : stack'[b] = stack[b]
<1> DEFINE n == Len(stack[c])
           new == [stack[c] EXCEPT ![n] = frame]
<1>1. n \in Nat \ {0} /\ stack[c] \in Seq(OpenFrame)
  BY TopType
<1>2. /\ new \in Seq(OpenFrame)
      /\ Len(new) = n
      /\ \A j \in 1 .. n : new[j] = IF j = n THEN frame ELSE stack[c][j]
  BY <1>1, ExceptSeq
<1>3. stack' = [stack EXCEPT ![c] = new]
  BY DEF Becomes, StackType
<1> QED
  BY <1>1, <1>2, <1>3 DEF StackType

\* The activation that waited for a parent stays one.
LEMMA ResumedFrame ==
  ASSUME NEW frame \in OpenFrame, frame.step = "parents", NEW outcome
  PROVE  Resumed(frame, outcome) \in OpenFrame
<1> DEFINE dependencies == frame.feature.dependencies
           last == frame.index = Len(dependencies)
<1>1. frame \in Frame /\ frame.feature \in FeatureType /\ frame.index \in Nat \ {0}
  BY DEF OpenFrame, Frame
<1>2. ASSUME NEW step \in {"parents", "unsatisfied", "strategies"}, NEW index \in Nat \ {0}
      PROVE  [frame EXCEPT !.step = step, !.index = index] \in OpenFrame
  BY <1>1, <1>2 DEF OpenFrame, Frame
<1>3. CASE ~DependencyHolds(dependencies[frame.index], outcome)
  <2>1. Resumed(frame, outcome) = [frame EXCEPT !.step = "unsatisfied"]
    BY <1>3 DEF Resumed
  <2> QED
    BY <1>1, <2>1 DEF OpenFrame, Frame
<1>4. CASE DependencyHolds(dependencies[frame.index], outcome) /\ last
  <2>1. Resumed(frame, outcome) = [frame EXCEPT !.step = "strategies", !.index = 1]
    BY <1>4 DEF Resumed
  <2>2. 1 \in Nat \ {0}
    OBVIOUS
  <2> QED
    BY <1>2, <2>1, <2>2
<1>5. CASE DependencyHolds(dependencies[frame.index], outcome) /\ ~last
  <2>1. Resumed(frame, outcome) = [frame EXCEPT !.step = "parents", !.index = frame.index + 1]
    BY <1>5 DEF Resumed
  <2>2. frame.index + 1 \in Nat \ {0}
    BY <1>1
  <2> QED
    BY <1>2, <2>1, <2>2
<1> QED
  BY <1>3, <1>4, <1>5

\* Finish takes the innermost activation away.
LEMMA FinishStack ==
  ASSUME StackType, WaitInv, NEW c \in Callers, stack[c] # <<>>, NEW outcome,
         Finish(c, outcome)
  PROVE  /\ stack' \in [Callers -> Seq(OpenFrame)]
         /\ Len(stack'[c]) = Len(stack[c]) - 1
         /\ \A i \in 1 .. Len(stack[c]) - 2 : stack'[c][i] = stack[c][i]
         /\ \A b \in Callers \ {c} : stack'[b] = stack[b]
         /\ Len(stack[c]) > 1 =>
              /\ stack'[c][Len(stack[c]) - 1] = Resumed(stack[c][Len(stack[c]) - 1], outcome)
              /\ UNCHANGED call
<1> DEFINE n == Len(stack[c])
           rest == SubSeq(stack[c], 1, n - 1)
           m == Len(rest)
           frame == Resumed(rest[m], outcome)
           new == [rest EXCEPT ![m] = frame]
<1>1. n \in Nat \ {0} /\ stack[c] \in Seq(OpenFrame)
  BY TopType
<1>2. \A i \in 1 .. n - 1 : stack[c][i] \in OpenFrame
  BY <1>1, ElementOfSeq
<1>3. /\ rest \in Seq(OpenFrame)
      /\ m = n - 1
      /\ \A i \in 1 .. n - 1 : rest[i] = stack[c][i]
  <2>1. /\ rest \in Seq(OpenFrame)
        /\ Len(rest) = IF 1 <= n - 1 THEN (n - 1) - 1 + 1 ELSE 0
        /\ \A i \in 1 .. (n - 1) - 1 + 1 : rest[i] = stack[c][1 + i - 1]
    BY <1>1, <1>2, SubSeqProperties
  <2> QED
    BY <2>1, <1>1
<1>4. CASE rest = <<>>
  <2>1. stack' = [stack EXCEPT ![c] = <<>>]
    BY <1>4 DEF Finish
  <2>2. <<>> \in Seq(OpenFrame) /\ Len(<<>>) = 0
    BY EmptySeq
  <2> HIDE DEF rest
  <2>3. n = 1
    <3>1. m = 0
      BY <1>4, <2>2
    <3> QED
      BY <1>1, <1>3, <3>1
  <2> HIDE DEF n
  <2>4. stack'[c] = <<>> /\ stack' \in [Callers -> Seq(OpenFrame)]
        /\ \A b \in Callers \ {c} : stack'[b] = stack[b]
    BY <2>1, <2>2 DEF StackType
  <2> QED
    BY <2>2, <2>3, <2>4 DEF n
<1>5. CASE rest # <<>>
  <2>1. stack' = [stack EXCEPT ![c] = new]
    BY <1>5 DEF Finish
  <2> HIDE DEF rest
  <2>2. m \in Nat \ {0} /\ m \in 1 .. n - 1
    BY <1>1, <1>3, <1>5, EmptySeq
  <2>3. rest[m] \in OpenFrame /\ rest[m].step = "parents"
    BY <2>2, <1>2, <1>3 DEF WaitInv
  <2>4. frame \in OpenFrame
    BY <2>3, ResumedFrame
  <2> HIDE DEF frame
  <2>5. /\ new \in Seq(OpenFrame)
        /\ Len(new) = m
        /\ \A j \in 1 .. m : new[j] = IF j = m THEN frame ELSE rest[j]
    BY <1>3, <2>2, <2>4, ExceptSeq
  <2> HIDE DEF new
  <2>6. stack'[c] = new
    BY <2>1 DEF StackType
  <2>7. new[n - 1] = Resumed(stack[c][n - 1], outcome) /\ UNCHANGED call
    BY <1>1, <1>3, <1>5, <2>2, <2>5 DEF frame, Finish, rest
  <2> QED
    BY <1>1, <1>3, <2>1, <2>2, <2>5, <2>6, <2>7 DEF StackType
<1> QED
  BY <1>4, <1>5

-----------------------------------------------------------------------------
\* Steps that leave store and since alone, and of the stacks change one.
LEMMA OtherCallers ==
  ASSUME Inv, NEW c \in Callers, UNCHANGED <<store, since>>,
         stack' \in [Callers -> Seq(OpenFrame)],
         \A b \in Callers \ {c} : stack'[b] = stack[b],
         \A i \in 1 .. Len(stack'[c]) - 1 : stack'[c][i].step = "parents",
         Len(stack'[c]) <= 2 + Overtaken(c),
         locked => Len(stack'[c]) <= 1 + Overtaken(c),
         Saturated(c)'
  PROVE  Inv'
<1>1. StackType'
  BY DEF Inv, StackType, store
<1>2. WaitInv'
  BY DEF Inv, WaitInv
<1>3. DepthInv'
  BY DEF Inv, DepthInv, Saturated, Overtaken, Top, store
<1> QED
  BY <1>1, <1>2, <1>3 DEF Inv

\* The innermost activation returns.
LEMMA FinishInv ==
  ASSUME Inv, NEW c \in Callers, stack[c] # <<>>, NEW outcome, Finish(c, outcome),
         UNCHANGED <<store, since>>
  PROVE  Inv'
<1>1. /\ stack' \in [Callers -> Seq(OpenFrame)]
      /\ Len(stack'[c]) = Len(stack[c]) - 1
      /\ \A i \in 1 .. Len(stack[c]) - 2 : stack'[c][i] = stack[c][i]
      /\ \A b \in Callers \ {c} : stack'[b] = stack[b]
  BY FinishStack DEF Inv
<1>2. Len(stack[c]) \in Nat \ {0}
  BY TopType DEF Inv
<1>3. installs \in Nat /\ since[c] \in Nat /\ UNCHANGED <<installs, since, locked>>
  BY DEF Inv, StackType, store
<1>4. \A i \in 1 .. Len(stack'[c]) - 1 : stack'[c][i].step = "parents"
  BY <1>1, <1>2 DEF Inv, WaitInv
<1>5. Len(stack[c]) <= 2 + Overtaken(c) /\ (locked => Len(stack[c]) <= 1 + Overtaken(c))
  BY DEF Inv, DepthInv
<1>6. Len(stack'[c]) <= 1 + Overtaken(c)
  BY <1>1, <1>2, <1>3, <1>5 DEF Overtaken
<1>7. Saturated(c)'
  BY <1>1, <1>3, <1>6 DEF Saturated, Overtaken
<1>8. Len(stack'[c]) <= 2 + Overtaken(c)
  BY <1>1, <1>2, <1>3, <1>6 DEF Overtaken
<1> QED
  BY <1>1, <1>4, <1>6, <1>7, <1>8, OtherCallers

\* The innermost activation goes on to its strategies, or from one to the next.
LEMMA BecomesInv ==
  ASSUME Inv, NEW c \in Callers, stack[c] # <<>>, NEW frame \in OpenFrame, Becomes(c, frame),
         Len(stack[c]) = 2 + Overtaken(c) => frame.step = "strategies",
         UNCHANGED <<store, since>>
  PROVE  Inv'
<1>1. /\ stack' \in [Callers -> Seq(OpenFrame)]
      /\ Len(stack'[c]) = Len(stack[c])
      /\ stack'[c][Len(stack[c])] = frame
      /\ \A i \in 1 .. Len(stack[c]) - 1 : stack'[c][i] = stack[c][i]
      /\ \A b \in Callers \ {c} : stack'[b] = stack[b]
  BY BecomesStack DEF Inv
<1>2. \A i \in 1 .. Len(stack'[c]) - 1 : stack'[c][i].step = "parents"
  BY <1>1 DEF Inv, WaitInv
<1>3. Len(stack[c]) <= 2 + Overtaken(c) /\ (locked => Len(stack[c]) <= 1 + Overtaken(c))
  BY DEF Inv, DepthInv
<1>4. Saturated(c)'
  BY <1>1 DEF Saturated, Overtaken, Top, store
<1> QED
  BY <1>1, <1>2, <1>3, <1>4, OtherCallers

-----------------------------------------------------------------------------
\* resolveToggle: at full depth a known toggle has no parents.
LEMMA ResolveInv == ASSUME Inv, NEW c \in Callers, Resolve(c) PROVE Inv'
<1> DEFINE name == Top(c).name
           feature == toggles.features[name]
           frame == [Top(c) EXCEPT !.feature = feature,
                                   !.step = IF feature.dependencies = <<>> THEN "strategies"
                                            ELSE "parents"]
<1>1. stack[c] # <<>> /\ Top(c).step = "resolving" /\ UNCHANGED <<store, since>>
  BY DEF Resolve, At, Unshared
<1>2. Top(c) \in OpenFrame
  BY <1>1, TopType DEF Inv
<1>3. CASE name \in DOMAIN toggles.features /\ Becomes(c, frame)
  <2>1. feature \in FeatureType
    BY <1>3, DocumentFeatures DEF Inv, StackType
  <2>2. frame \in OpenFrame
    BY <1>2, <2>1 DEF OpenFrame, Frame
  <2>3. Len(stack[c]) = 2 + Overtaken(c) => frame.step = "strategies"
    BY <1>1, <1>2, <1>3 DEF Inv, DepthInv, Saturated, OpenFrame, Frame
  <2> QED
    BY <1>1, <1>3, <2>2, <2>3, BecomesInv
<1>4. CASE \E outcome : Finish(c, outcome)
  BY <1>1, <1>4, FinishInv
<1> QED
  BY <1>3, <1>4 DEF Resolve

\* A parent is only let in below full depth, and only if it has no parents.
LEMMA AskParentInv == ASSUME Inv, NEW c \in Callers, AskParent(c) PROVE Inv'
<1> DEFINE parent == Top(c).feature.dependencies[Top(c).index].feature
<1>1. /\ stack[c] # <<>> /\ Top(c).step = "parents" /\ ~locked
      /\ UNCHANGED <<store, since>>
  BY DEF AskParent, ParentAsked, At, Unshared
<1>2. Len(stack[c]) \in Nat \ {0} /\ stack[c] \in Seq(OpenFrame)
  BY <1>1, TopType DEF Inv
<1>3. CASE /\ parent \in DOMAIN toggles.features
           /\ toggles.features[parent].dependencies = <<>>
           /\ stack' = [stack EXCEPT ![c] = Append(@, Opened(parent))]
  <2>1. parent \in Names
    BY <1>3, DocumentFeatures DEF Inv, StackType
  <2>2. Opened(parent) \in OpenFrame
    BY <2>1 DEF Opened, OpenFrame, Frame
  <2>3. stack'[c] = Append(stack[c], Opened(parent))
    BY <1>3 DEF Inv, StackType
  <2>4. /\ stack'[c] \in Seq(OpenFrame)
        /\ Len(stack'[c]) = Len(stack[c]) + 1
        /\ \A i \in 1 .. Len(stack[c]) : stack'[c][i] = stack[c][i]
        /\ stack'[c][Len(stack[c]) + 1] = Opened(parent)
    BY <1>2, <2>2, <2>3, AppendProperties
  <2>5. /\ stack' \in [Callers -> Seq(OpenFrame)]
        /\ \A b \in Callers \ {c} : stack'[b] = stack[b]
    BY <1>3, <2>3, <2>4 DEF Inv, StackType
  <2>6. \A i \in 1 .. Len(stack[c]) : stack[c][i].step = "parents"
    BY <1>1, <1>2 DEF Inv, WaitInv, Top
  <2>7. \A i \in 1 .. Len(stack'[c]) - 1 : stack'[c][i].step = "parents"
    BY <1>2, <2>4, <2>6
  <2>8. installs \in Nat /\ since[c] \in Nat
    BY DEF Inv, StackType
  <2>9. Len(stack[c]) <= 1 + Overtaken(c)
    <3>1. Len(stack[c]) <= 2 + Overtaken(c) /\ Saturated(c)
      BY DEF Inv, DepthInv
    <3>2. Len(stack[c]) # 2 + Overtaken(c)
      BY <1>1, <3>1 DEF Saturated
    <3> QED
      BY <1>2, <2>8, <3>1, <3>2 DEF Overtaken
  <2>10. Saturated(c)'
    <3>1. Top(c)' = Opened(parent)
      BY <1>2, <2>4 DEF Top
    <3>2. UNCHANGED toggles
      BY <1>1 DEF store
    <3> QED
      BY <1>3, <3>1, <3>2 DEF Saturated, Opened
  <2> QED
    BY <1>1, <1>2, <2>4, <2>5, <2>7, <2>8, <2>9, <2>10, OtherCallers DEF Overtaken
<1>4. CASE Finish(c, Off)
  BY <1>1, <1>4, FinishInv
<1> QED
  BY <1>3, <1>4 DEF AskParent, ParentAsked

\* The loop over the strategies goes on.
LEMMA PassStrategyInv == ASSUME Inv, NEW c \in Callers, PassStrategy(c) PROVE Inv'
<1> DEFINE frame == [Top(c) EXCEPT !.index = @ + 1]
<1>1. /\ stack[c] # <<>> /\ Top(c).step = "strategies"
      /\ UNCHANGED <<store, since>> /\ Becomes(c, frame)
  BY DEF PassStrategy, Trying, At, Unshared, NextStrategy
<1>2. Top(c) \in OpenFrame
  BY <1>1, TopType DEF Inv
<1>3. frame \in OpenFrame /\ frame.step = "strategies"
  BY <1>1, <1>2 DEF OpenFrame, Frame
<1> QED
  BY <1>1, <1>3, BecomesInv

\* What getVariantWithoutMetrics does afterwards leaves the stack alone.
LEMMA AnswersInv ==
  ASSUME Inv, UNCHANGED <<store, stack, since>> PROVE Inv'
BY DEF Inv, StackType, WaitInv, DepthInv, Saturated, Overtaken, Top, store

LEMMA EvaluateInv == ASSUME Inv, NEW c \in Callers, Evaluate(c) PROVE Inv'
<1>1. CASE Resolve(c)
  BY <1>1, ResolveInv
<1>2. CASE AskParent(c)
  BY <1>2, AskParentInv
<1>3. CASE PassStrategy(c)
  BY <1>3, PassStrategyInv
<1>4. CASE \/ Unsatisfied(c) \/ SwitchedOff(c) \/ WithoutStrategies(c) \/ MissSegment(c)
           \/ ApplyPlainStrategy(c) \/ ApplyStrategyWithVariants(c) \/ NoStrategyLeft(c)
  <2>1. /\ stack[c] # <<>> /\ UNCHANGED <<store, since>>
        /\ \E outcome : Finish(c, outcome)
    BY <1>4 DEF Unsatisfied, SwitchedOff, WithoutStrategies, MissSegment, ApplyPlainStrategy,
                ApplyStrategyWithVariants, NoStrategyLeft, Satisfied, Trying, At, Unshared
  <2> QED
    BY <2>1, FinishInv
<1>5. CASE VariantOfDisabled(c) \/ VariantOfStrategy(c) \/ VariantOfFeature(c)
  BY <1>5, AnswersInv DEF VariantOfDisabled, VariantOfStrategy, VariantOfFeature, Answers
<1> QED
  BY <1>1, <1>2, <1>3, <1>4, <1>5 DEF Evaluate

LEMMA CallInv ==
  ASSUME Inv, NEW c \in Callers, NEW name \in Names, NEW method, NEW fallback,
         Call(c, name, method, fallback)
  PROVE  Inv'
<1>1. /\ stack' = [stack EXCEPT ![c] = <<Opened(name)>>]
      /\ since' = [since EXCEPT ![c] = installs]
      /\ UNCHANGED store
  BY DEF Call
<1>2. Opened(name) \in OpenFrame
  BY DEF Opened, OpenFrame, Frame
<1>3. <<Opened(name)>> \in Seq(OpenFrame) /\ Len(<<Opened(name)>>) = 1
  BY <1>2
<1>4. StackType'
  BY <1>1, <1>3 DEF Inv, StackType, store
<1>5. WaitInv'
  BY <1>1, <1>3 DEF Inv, WaitInv, StackType
<1>6. ASSUME NEW b \in Callers
      PROVE  /\ since'[b] <= installs'
             /\ Len(stack'[b]) <= 2 + Overtaken(b)'
             /\ locked' => Len(stack'[b]) <= 1 + Overtaken(b)'
             /\ Saturated(b)'
  <2>1. CASE b = c
    <3>1. since'[b] = installs /\ installs' = installs /\ Len(stack'[b]) = 1
      BY <1>1, <1>3, <2>1 DEF Inv, StackType, store
    <3> QED
      BY <3>1 DEF Inv, StackType, Saturated, Overtaken
  <2>2. CASE b # c
    BY <1>1, <2>2 DEF Inv, StackType, DepthInv, Saturated, Overtaken, Top, store
  <2> QED
    BY <2>1, <2>2
<1>7. DepthInv'
  BY <1>6 DEF DepthInv
<1> QED
  BY <1>4, <1>5, <1>7 DEF Inv

LEMMA InstallInv == ASSUME Inv, NEW d \in Documents, InstallSegments(d) PROVE Inv'
<1>1. /\ locked' = TRUE /\ segments' = d /\ installs' = installs + 1
      /\ UNCHANGED <<toggles, stack, since>>
  BY DEF InstallSegments
<1>2. StackType' /\ WaitInv'
  BY <1>1 DEF Inv, StackType, WaitInv
<1>3. ASSUME NEW c \in Callers
      PROVE  /\ since'[c] <= installs'
             /\ Len(stack'[c]) <= 1 + Overtaken(c)'
  <2>1. /\ installs \in Nat /\ since[c] \in Nat /\ Len(stack[c]) \in Nat
        /\ since[c] <= installs /\ Len(stack[c]) <= 2 + Overtaken(c)
    BY LenProperties DEF Inv, StackType, DepthInv
  <2> QED
    BY <1>1, <2>1 DEF Overtaken
<1>4. ASSUME NEW c \in Callers
      PROVE  Len(stack'[c]) <= 2 + Overtaken(c)' /\ Saturated(c)'
  <2>1. Len(stack'[c]) \in Nat /\ Overtaken(c)' \in Int
    BY <1>2, LenProperties DEF StackType, Overtaken
  <2> QED
    BY <1>3, <2>1 DEF Saturated
<1> QED
  BY <1>2, <1>3, <1>4 DEF Inv, DepthInv

LEMMA ResetInv == ASSUME Inv, ResetToggles PROVE Inv'
<1>1. /\ locked /\ locked' = FALSE /\ toggles' = segments
      /\ UNCHANGED <<segments, installs, stack, since>>
  BY DEF ResetToggles
<1>2. StackType' /\ WaitInv'
  BY <1>1 DEF Inv, StackType, WaitInv
<1>3. ASSUME NEW c \in Callers
      PROVE  /\ since'[c] <= installs' /\ Len(stack'[c]) <= 2 + Overtaken(c)' /\ Saturated(c)'
  <2>1. /\ since[c] <= installs /\ Len(stack[c]) <= 1 + Overtaken(c)
    BY <1>1 DEF Inv, DepthInv
  <2>2. Len(stack[c]) \in Nat /\ Overtaken(c) \in Int
    BY LenProperties DEF Inv, StackType, Overtaken
  <2> QED
    BY <1>1, <2>1, <2>2 DEF Saturated, Overtaken
<1> QED
  BY <1>1, <1>2, <1>3 DEF Inv, DepthInv

-----------------------------------------------------------------------------
LEMMA InitInv == Init => Inv
<1> SUFFICES ASSUME Init PROVE Inv
  OBVIOUS
<1>1. stack = [c \in Callers |-> <<>>] /\ Len(<<>>) = 0 /\ <<>> \in Seq(OpenFrame)
  BY EmptySeq DEF Init
<1>2. \A c \in Callers : Len(stack[c]) = 0 /\ since[c] = 0
  BY <1>1 DEF Init
<1>3. installs = 0 /\ locked = FALSE
  BY DEF Init
<1>4. StackType
  BY <1>1 DEF Init, StackType
<1>5. WaitInv /\ DepthInv
  BY <1>2, <1>3 DEF WaitInv, DepthInv, Saturated, Overtaken
<1> QED
  BY <1>4, <1>5 DEF Inv

LEMMA NextInv == Inv /\ [Next]_vars => Inv'
<1> SUFFICES ASSUME Inv, [Next]_vars PROVE Inv'
  OBVIOUS
<1>1. ASSUME NEW d \in Updates[toggles], InstallSegments(d) PROVE Inv'
  <2> d \in Documents
    BY EvaluationAssumption DEF Inv, StackType
  <2> QED
    BY <1>1, InstallInv
<1>2. CASE ResetToggles
  BY <1>2, ResetInv
<1>3. ASSUME NEW c \in Callers, Evaluate(c) PROVE Inv'
  BY <1>3, EvaluateInv
<1>4. ASSUME NEW c \in Callers, NEW name \in Names,
             NEW method \in {"IsEnabled", "GetVariant"}, NEW fallback \in BOOLEAN,
             Call(c, name, method, fallback)
      PROVE  Inv'
  BY <1>4, CallInv
<1>5. CASE UNCHANGED vars
  BY <1>5, AnswersInv DEF vars, store
<1> QED
  BY <1>1, <1>2, <1>3, <1>4, <1>5 DEF Next

\* isEnabled calls itself for a parent without asking for parents of that
\* parent, unless an install gives it some in between: the stack of a call
\* never holds more than two activations, and one for each such install.
THEOREM StackSafety == Spec => []StackBounded
<1>1. Inv => StackBounded
  BY DEF Inv, DepthInv, StackBounded, Overtaken
<1> QED
  BY <1>1, InitInv, NextInv, PTL DEF Spec

-----------------------------------------------------------------------------
(***************************************************************************)
(* Types.                                                                  *)
(***************************************************************************)

\* What an activation of isEnabled may return.
OutcomeType == [enabled : BOOLEAN, variant : VariantNames \cup {Disabled, Nil}]

\* Variants are decided on for GetVariant only, and of a toggle that was found.
MethodInv ==
  \A c \in Callers :
    /\ stack[c] # <<>> => call[c].method \in {"IsEnabled", "GetVariant"}
    /\ Deciding(c) => /\ call[c].method = "GetVariant"
                      /\ call[c].enabled => call[c].feature \in FeatureType

TypeInv == TypeOK /\ Inv /\ MethodInv

LEMMA OutcomeTypes ==
  /\ Off \in OutcomeType /\ ~Off.enabled /\ On(Nil) \in OutcomeType
  /\ \A variant \in VariantNames \cup {ZeroWeights} :
       /\ Picked(variant) \in VariantNames \cup {Disabled}
       /\ On(Picked(variant)) \in OutcomeType
BY DEF Off, On, OutcomeType, Picked

LEMMA FlagsTyped ==
  ASSUME disabledVariant \in Flags, NEW variants, FlagsSet(variants)
  PROVE  disabledVariant' \in Flags
<1>1. [enabled |-> TRUE, featureEnabled |-> TRUE] \in Flags
  BY DEF Flags
<1> QED
  BY <1>1 DEF FlagsSet

LEMMA StackTyping ==
  ASSUME NEW frames \in [Callers -> Seq(OpenFrame)] PROVE frames \in [Callers -> Seq(Frame)]
<1> SUFFICES ASSUME NEW c \in Callers PROVE frames[c] \in Seq(Frame)
  OBVIOUS
<1>1. frames[c] \in Seq(OpenFrame)
  OBVIOUS
<1>2. \A i \in 1 .. Len(frames[c]) : frames[c][i] \in Frame
  BY <1>1, ElementOfSeq DEF OpenFrame
<1> QED
  BY <1>1, <1>2, IsASeq, LenProperties

\* The innermost activation returns: the call is decided, or goes on below.
LEMMA FinishType ==
  ASSUME TypeInv, NEW c \in Callers, stack[c] # <<>>, NEW outcome \in OutcomeType,
         Finish(c, outcome),
         outcome.enabled => \/ Top(c).feature \in FeatureType
                            \/ Len(stack[c]) = 1 /\ call[c].method = "IsEnabled"
  PROVE  call' \in [Callers -> CallRecord] /\ MethodInv'
<1> DEFINE rest == SubSeq(stack[c], 1, Len(stack[c]) - 1)
           step == IF call[c].method = "IsEnabled" THEN "returned" ELSE "deciding"
           next == [call[c] EXCEPT !.step = step, !.feature = Top(c).feature,
                                   !.enabled = outcome.enabled, !.variant = outcome.variant]
<1>1. Top(c) \in OpenFrame /\ Len(stack[c]) \in Nat \ {0} /\ stack[c] \in Seq(OpenFrame)
  BY TopType DEF TypeInv, Inv
<1>2. call \in [Callers -> CallRecord] /\ call[c] \in CallRecord
  BY DEF TypeInv, TypeOK
<1>3. /\ \A b \in Callers \ {c} : stack'[b] = stack[b]
      /\ call[c].method \in {"IsEnabled", "GetVariant"}
  BY FinishStack DEF TypeInv, Inv, MethodInv
<1>4. CASE rest = <<>>
  <2>1. call' = [call EXCEPT ![c] = next]
    BY <1>4 DEF Finish
  <2>2. Top(c).feature \in FeatureType \cup {Nil}
    BY <1>1 DEF OpenFrame, Frame
  <2>3. next \in CallRecord /\ next.method = call[c].method
    BY <1>2, <2>2 DEF CallRecord, OutcomeType
  <2>4. ASSUME next.step = "deciding"
        PROVE  /\ next.method = "GetVariant"
               /\ next.enabled => next.feature \in FeatureType
    BY <1>2, <1>3, <2>4 DEF CallRecord
  <2> HIDE DEF next
  <2>5. call' \in [Callers -> CallRecord] /\ call'[c] = next
    BY <1>2, <2>1, <2>3
  <2>6. MethodInv'
    BY <1>2, <1>3, <2>1, <2>3, <2>4, <2>5 DEF TypeInv, MethodInv, Deciding
  <2> QED
    BY <2>5, <2>6
<1>5. CASE rest # <<>>
  <2>1. UNCHANGED call
    BY <1>5 DEF Finish
  <2> QED
    BY <1>2, <1>3, <2>1 DEF TypeInv, MethodInv, Deciding
<1> QED
  BY <1>4, <1>5

\* A step of an evaluation that leaves the store and the history alone.
LEMMA StepTyping ==
  ASSUME TypeInv, Inv', UNCHANGED <<store, seen, since>>, disabledVariant' \in Flags,
         call' \in [Callers -> CallRecord], MethodInv'
  PROVE  TypeInv'
<1>1. stack' \in [Callers -> Seq(Frame)]
  BY StackTyping DEF Inv, StackType
<1> QED
  BY <1>1 DEF TypeInv, TypeOK, store

\* The innermost activation is exchanged, or one is opened.
LEMMA StackStepTyping ==
  ASSUME TypeInv, Inv', UNCHANGED <<store, seen, since, call, disabledVariant>>,
         NEW c \in Callers, stack[c] # <<>>, \A b \in Callers \ {c} : stack'[b] = stack[b]
  PROVE  TypeInv'
<1>1. MethodInv'
  BY DEF TypeInv, MethodInv, Deciding
<1> QED
  BY <1>1, StepTyping DEF TypeInv, TypeOK

LEMMA ReturnTyping ==
  ASSUME TypeInv, Inv', NEW c \in Callers, stack[c] # <<>>, NEW outcome \in OutcomeType,
         Finish(c, outcome), UNCHANGED <<store, seen, since>>, disabledVariant' \in Flags,
         outcome.enabled => \/ Top(c).feature \in FeatureType
                            \/ Len(stack[c]) = 1 /\ call[c].method = "IsEnabled"
  PROVE  TypeInv'
BY FinishType, StepTyping

-----------------------------------------------------------------------------
LEMMA InitTypes == Init => TypeInv
<1> SUFFICES ASSUME Init PROVE TypeInv
  OBVIOUS
<1>1. Inv
  BY InitInv
<1>2. stack \in [Callers -> Seq(Frame)]
  BY <1>1, StackTyping DEF Inv, StackType
<1>3. call \in [Callers -> CallRecord] /\ \A c \in Callers : call[c].step = "idle" /\ stack[c] = <<>>
  BY DEF Init, Idle, CallRecord
<1>4. MethodInv
  BY <1>3 DEF MethodInv, Deciding
<1>5. 0 \in 0 .. MaxInstalls
  BY EvaluationAssumption
<1>6. TypeOK
  BY <1>2, <1>3, <1>5 DEF Init, TypeOK, Flags
<1> QED
  BY <1>1, <1>4, <1>6 DEF TypeInv

\* The innermost activation has found its toggle.
LEMMA FoundFeature ==
  ASSUME TypeInv, NEW c \in Callers, At(c, "strategies")
  PROVE  Feature(c) \in FeatureType /\ stack[c] # <<>>
BY TopType DEF TypeInv, Inv, At, OpenFrame, Feature

LEMMA TriedStrategy ==
  ASSUME TypeInv, NEW c \in Callers, Trying(c)
  PROVE  /\ stack[c] # <<>> /\ Feature(c) \in FeatureType /\ Top(c).step = "strategies"
         /\ Top(c).index \in DOMAIN Feature(c).strategies
         /\ Strategy(c) \in StrategyType
<1>1. Feature(c) \in FeatureType /\ stack[c] # <<>> /\ Top(c).index \in Nat \ {0}
  BY FoundFeature, TopType DEF Trying, At, TypeInv, Inv, OpenFrame, Frame
<1>2. Feature(c).strategies \in Seq(StrategyType)
  BY <1>1 DEF FeatureType
<1>3. /\ Top(c).index <= Len(Feature(c).strategies) /\ Top(c).step = "strategies"
  BY DEF Trying, At
<1> QED
  BY <1>1, <1>2, <1>3, ElementOfSeq, LenProperties DEF Strategy

LEMMA EvaluateTypes ==
  ASSUME TypeInv, Inv', NEW c \in Callers, Evaluate(c)
  PROVE  TypeInv'
<1> USE DEF Unshared
<1>0. disabledVariant \in Flags
  BY DEF TypeInv, TypeOK
<1>1. CASE Resolve(c)
  <2>1. stack[c] # <<>>
    BY <1>1 DEF Resolve, At
  <2>2. CASE \E frame : Becomes(c, frame) /\ UNCHANGED call
    <3>1. \A b \in Callers \ {c} : stack'[b] = stack[b]
      BY <2>2 DEF Becomes, TypeInv, TypeOK
    <3> QED
      BY <1>1, <2>1, <2>2, <3>1, StackStepTyping DEF Resolve
  <2>3. CASE Finish(c, Off)
    BY <1>0, <1>1, <2>1, <2>3, ReturnTyping, OutcomeTypes DEF Resolve
  <2>4. CASE Finish(c, On(Nil)) /\ Len(stack[c]) = 1 /\ call[c].method = "IsEnabled"
    BY <1>0, <1>1, <2>1, <2>4, ReturnTyping, OutcomeTypes DEF Resolve
  <2> QED
    BY <1>1, <2>2, <2>3, <2>4 DEF Resolve
<1>2. CASE AskParent(c)
  <2>1. stack[c] # <<>>
    BY <1>2 DEF AskParent, ParentAsked, At
  <2>2. CASE Finish(c, Off)
    BY <1>0, <1>2, <2>1, <2>2, ReturnTyping, OutcomeTypes DEF AskParent, ParentAsked
  <2>3. CASE UNCHANGED call /\ \E frame : stack' = [stack EXCEPT ![c] = Append(@, Opened(frame))]
    <3>1. \A b \in Callers \ {c} : stack'[b] = stack[b]
      BY <2>3 DEF TypeInv, TypeOK
    <3> QED
      BY <1>2, <2>1, <2>3, <3>1, StackStepTyping DEF AskParent, ParentAsked
  <2> QED
    BY <1>2, <2>2, <2>3 DEF AskParent, ParentAsked
<1>3. CASE PassStrategy(c)
  <2>1. stack[c] # <<>> /\ UNCHANGED <<store, seen, since, call, disabledVariant>>
    BY <1>3 DEF PassStrategy, NextStrategy, Trying, At
  <2>2. \A b \in Callers \ {c} : stack'[b] = stack[b]
    BY <1>3 DEF PassStrategy, NextStrategy, Becomes, TypeInv, TypeOK
  <2> QED
    BY <2>1, <2>2, StackStepTyping
<1>4. CASE Unsatisfied(c) \/ SwitchedOff(c) \/ MissSegment(c) \/ NoStrategyLeft(c)
  <2>1. stack[c] # <<>> /\ Finish(c, Off) /\ UNCHANGED <<store, seen, since, disabledVariant>>
    BY <1>4 DEF Unsatisfied, SwitchedOff, MissSegment, NoStrategyLeft, Trying, At
  <2> QED
    BY <1>0, <2>1, ReturnTyping, OutcomeTypes
<1>5. CASE WithoutStrategies(c) \/ ApplyPlainStrategy(c)
  <2>1. At(c, "strategies") /\ Finish(c, On(Nil))
        /\ UNCHANGED <<store, seen, since, disabledVariant>>
    BY <1>5 DEF WithoutStrategies, ApplyPlainStrategy, Satisfied, Trying
  <2> QED
    BY <1>0, <2>1, FoundFeature, ReturnTyping, OutcomeTypes DEF Feature
<1>6. CASE ApplyStrategyWithVariants(c)
  <2>1. Strategy(c) \in StrategyType /\ Top(c).feature \in FeatureType /\ stack[c] # <<>>
    BY <1>6, TriedStrategy DEF ApplyStrategyWithVariants, Satisfied, Feature
  <2>2. Strategy(c).variants \in VariantNames \cup {ZeroWeights}
    BY <1>6, <2>1 DEF ApplyStrategyWithVariants, StrategyType
  <2>3. disabledVariant' \in Flags /\ UNCHANGED <<store, seen, since>>
    BY <1>0, <1>6, FlagsTyped DEF ApplyStrategyWithVariants
  <2>4. \E outcome \in OutcomeType : Finish(c, outcome)
    BY <1>6, <2>2, OutcomeTypes DEF ApplyStrategyWithVariants
  <2> QED
    BY <2>1, <2>3, <2>4, ReturnTyping
<1>7. CASE VariantOfDisabled(c) \/ VariantOfStrategy(c) \/ VariantOfFeature(c)
  <2>1. call[c] \in CallRecord /\ call \in [Callers -> CallRecord]
    BY DEF TypeInv, TypeOK
  <2>2. PICK variant \in VariantNames \cup {Disabled, FeatureOn, Fallback, Nil} :
          Answers(c, variant)
    <3>1. CASE VariantOfDisabled(c) \/ VariantOfStrategy(c)
      BY <2>1, <3>1 DEF VariantOfDisabled, VariantOfStrategy, FallbackVariant, CallRecord
    <3>2. CASE VariantOfFeature(c)
      <4>1. call[c].feature.variants \in VariantNames \cup {NoVariants, ZeroWeights}
        BY <3>2 DEF VariantOfFeature, TypeInv, MethodInv, FeatureType
      <4> QED
        BY <3>2, <4>1, OutcomeTypes DEF VariantOfFeature, FallbackVariant
    <3> QED
      BY <1>7, <3>1, <3>2
  <2>3. disabledVariant' \in Flags
    BY <1>0, <1>7, FlagsTyped DEF VariantOfDisabled, VariantOfStrategy, VariantOfFeature
  <2>4. /\ UNCHANGED <<store, stack, seen, since>>
        /\ call' = [call EXCEPT ![c] = [call[c] EXCEPT !.step = "returned", !.variant = variant]]
    BY <2>1, <2>2 DEF Answers
  <2>5. call' \in [Callers -> CallRecord] /\ call'[c].step = "returned"
        /\ call'[c].method = call[c].method
    BY <2>1, <2>4 DEF CallRecord
  <2>6. MethodInv'
    BY <2>1, <2>4, <2>5 DEF TypeInv, MethodInv, Deciding
  <2> QED
    BY <2>3, <2>4, <2>5, <2>6, StepTyping
<1> QED
  BY <1>1, <1>2, <1>3, <1>4, <1>5, <1>6, <1>7 DEF Evaluate

LEMMA NextTypes == TypeInv /\ [Next]_vars => TypeInv'
<1> SUFFICES ASSUME TypeInv, [Next]_vars PROVE TypeInv'
  OBVIOUS
<1>1. Inv'
  BY NextInv DEF TypeInv
<1>2. stack' \in [Callers -> Seq(Frame)]
  BY <1>1, StackTyping DEF Inv, StackType
<1>3. ASSUME NEW d \in Updates[toggles], InstallSegments(d) PROVE TypeInv'
  <2> d \in Documents
    BY EvaluationAssumption DEF TypeInv, TypeOK
  <2>1. installs' \in 0 .. MaxInstalls
    BY <1>3, EvaluationAssumption DEF InstallSegments, TypeInv, TypeOK
  <2>2. seen' \in [Callers -> SUBSET Documents]
    BY <1>3 DEF InstallSegments, TypeInv, TypeOK
  <2>3. MethodInv'
    BY <1>3 DEF InstallSegments, TypeInv, MethodInv, Deciding
  <2> QED
    BY <1>1, <1>2, <1>3, <2>1, <2>2, <2>3 DEF InstallSegments, TypeInv, TypeOK
<1>4. CASE ResetToggles
  BY <1>1, <1>2, <1>4 DEF ResetToggles, TypeInv, TypeOK, MethodInv, Deciding
<1>5. ASSUME NEW c \in Callers, Evaluate(c) PROVE TypeInv'
  BY <1>1, <1>5, EvaluateTypes
<1>6. ASSUME NEW c \in Callers, NEW name \in Names,
             NEW method \in {"IsEnabled", "GetVariant"}, NEW fallback \in BOOLEAN,
             Call(c, name, method, fallback)
      PROVE  TypeInv'
  <2> DEFINE made == [Idle EXCEPT !.step = "running", !.name = name, !.method = method,
                                  !.fallback = fallback]
  <2>1. made \in CallRecord /\ made.step = "running" /\ made.method = method
    BY DEF Idle, CallRecord
  <2>2. call' = [call EXCEPT ![c] = made]
    BY <1>6 DEF Call
  <2> HIDE DEF made
  <2>3. call' \in [Callers -> CallRecord] /\ call'[c] = made
    BY <2>1, <2>2 DEF TypeInv, TypeOK
  <2>4. MethodInv'
    <3>1. \A b \in Callers \ {c} : stack'[b] = stack[b] /\ call'[b] = call[b]
      BY <1>6, <2>2 DEF Call, TypeInv, TypeOK
    <3> QED
      BY <2>1, <2>3, <3>1 DEF TypeInv, MethodInv, Deciding
  <2>5. seen' \in [Callers -> SUBSET Documents] /\ since' \in [Callers -> 0 .. MaxInstalls]
    BY <1>6 DEF Call, TypeInv, TypeOK
  <2> QED
    BY <1>1, <1>2, <1>6, <2>3, <2>4, <2>5 DEF Call, TypeInv, TypeOK, store
<1>7. CASE UNCHANGED vars
  BY <1>1, <1>2, <1>7 DEF vars, TypeInv, TypeOK, MethodInv, Deciding
<1> QED
  BY <1>3, <1>4, <1>5, <1>6, <1>7 DEF Next

LEMMA Typed == Spec => []TypeInv
BY InitTypes, NextTypes, PTL DEF Spec

\* Whatever toggles, parents, segments and variants refer to, and whatever an
\* install replaces, calls and activations keep their types: no missing parent
\* or segment, no missing variant is ever taken for one that is there.
THEOREM TypeCorrect == Spec => []TypeOK
<1>1. TypeInv => TypeOK
  BY DEF TypeInv
<1> QED
  BY <1>1, Typed, PTL
==============================================================================
