----------------------------- MODULE AnswerProofs ------------------------------
(***************************************************************************)
(* What an evaluation answers, for any documents, any number of callers    *)
(* and of installs: the answer of the one document it saw, and when it saw *)
(* several one that they bear witness to; and that each step brings it     *)
(* nearer to that.                                                         *)
(*                                                                         *)
(* The invariant is about one call: its activations (frames), its record   *)
(* and the documents in memory since it began (docs).                      *)
(***************************************************************************)
EXTENDS EvaluationProofs

(***************************************************************************)
(* What the code makes of one document: as Evaluation has it, but with a   *)
(* parent whose strategies give no variant accepted whatever its own is.   *)
(***************************************************************************)
Accepts(d, dependency) ==
  /\ dependency.feature \in DOMAIN d.features
  /\ LET parent == d.features[dependency.feature]
         own    == OwnOutcome(d, parent)
     IN  /\ parent.dependencies = <<>>
         /\ own.enabled = dependency.enabled
         /\ own.enabled /\ dependency.variants # {}
              => own.variant \in dependency.variants \cup {Nil}

AcceptedOutcome(d, f) ==
  IF \A i \in DOMAIN f.dependencies : Accepts(d, f.dependencies[i])
  THEN OwnOutcome(d, f) ELSE Off

AcceptedOn(d, name, fallback) ==
  IF name \in DOMAIN d.features THEN AcceptedOutcome(d, d.features[name]).enabled ELSE fallback

AcceptedVariant(d, name, fallback) ==
  LET f == d.features[name]
      Or(other) == IF fallback THEN Fallback ELSE other
  IN  IF ~AcceptedOn(d, name, FALSE) THEN Or(Disabled)
      ELSE IF AcceptedOutcome(d, f).variant # Nil THEN AcceptedOutcome(d, f).variant
      ELSE IF f.variants = NoVariants THEN Or(FeatureOn)
      ELSE Picked(f.variants)

-----------------------------------------------------------------------------
SwitchedOn(docs, name) ==
  \E d \in docs : name \in DOMAIN d.features /\ CanBeOn(docs, d.features[name])

\* The toggle an activation looked up is that of a document.
LookedUp(docs, frame) ==
  \E d \in docs : frame.name \in DOMAIN d.features /\ frame.feature = d.features[frame.name]

\* The dependencies that an activation has found to hold.
Asked(frame) ==
  {i \in DOMAIN frame.feature.dependencies :
     frame.step = "strategies" \/ (frame.step = "parents" /\ i < frame.index)}

Witnessed(docs, feature, asked) ==
  \A i \in asked : feature.dependencies[i].enabled =>
    SwitchedOn(docs, feature.dependencies[i].feature)

\* What an activation knows of the only document there was.
Exact(d, frame) ==
  /\ \A i \in Asked(frame) : Accepts(d, frame.feature.dependencies[i])
  /\ frame.step = "unsatisfied" =>
       \E i \in DOMAIN frame.feature.dependencies : ~Accepts(d, frame.feature.dependencies[i])
  /\ frame.step = "strategies" =>
       \A j \in 1 .. frame.index - 1 : j \notin Decisive(d, frame.feature)

\* The strategies it has behind it let the call pass.
Passed(docs, frame) ==
  frame.step = "strategies" =>
    \A j \in 1 .. frame.index - 1 : Passes(docs, frame.feature.strategies[j])

Sound(docs, frame) ==
  /\ frame.step = "resolving" => frame.index = 1 /\ frame.feature = Nil
  /\ frame.step = "parents" => frame.index \in DOMAIN frame.feature.dependencies
  /\ frame.step # "resolving" =>
       /\ LookedUp(docs, frame)
       /\ Witnessed(docs, frame.feature, Asked(frame))
       /\ Passed(docs, frame)
       /\ \A d \in docs : docs = {d} => Exact(d, frame)

Parentless(d, name) == name \in DOMAIN d.features /\ d.features[name].dependencies = <<>>

\* Each activation above the first is about a parent of the one below it.
FramesSound(docs, frames) ==
  \A i \in 1 .. Len(frames) :
    /\ Sound(docs, frames[i])
    /\ i < Len(frames) =>
         frames[i + 1].name = frames[i].feature.dependencies[frames[i].index].feature
    /\ i > 1 => \A d \in docs : docs = {d} => Parentless(d, frames[i].name)

\* GetVariant, between its isEnabled and its answer.
DecisionSound(docs, record) ==
  \A d \in docs : docs = {d} =>
    /\ record.enabled = AcceptedOn(d, record.name, FALSE)
    /\ record.enabled => /\ record.feature = d.features[record.name]
                         /\ record.variant = AcceptedOutcome(d, record.feature).variant

AnswerSound(docs, record) ==
  /\ record.method = "IsEnabled" /\ record.enabled /\ record.feature # Nil =>
       \E d \in docs :
         /\ record.name \in DOMAIN d.features
         /\ CanBeOn(docs, d.features[record.name])
         /\ LET f == d.features[record.name] IN Witnessed(docs, f, DOMAIN f.dependencies)
  /\ \A d \in docs : docs = {d} =>
       /\ record.method = "IsEnabled" =>
            record.enabled = AcceptedOn(d, record.name, record.fallback)
       /\ record.method = "GetVariant" =>
            record.variant = AcceptedVariant(d, record.name, record.fallback)

CallSound(docs, frames, record) ==
  /\ FramesSound(docs, frames)
  /\ frames # <<>> => record.step = "running" /\ frames[1].name = record.name
  /\ record.step = "deciding" => DecisionSound(docs, record)
  /\ record.step = "returned" => AnswerSound(docs, record)

\* While an evaluation runs, what it may read next is among what it has seen.
AnswerInv ==
  \A c \in Callers :
    /\ CallSound(seen[c], stack[c], call[c])
    /\ stack[c] # <<>> => {toggles, segments} \subseteq seen[c]

-----------------------------------------------------------------------------
LEMMA SeqParts ==
  ASSUME NEW S, NEW s \in Seq(S)
  PROVE  /\ Len(s) \in Nat /\ DOMAIN s = 1 .. Len(s)
         /\ \A i \in DOMAIN s : s[i] \in S
         /\ s = <<>> <=> DOMAIN s = {}
<1>1. Len(s) \in Nat /\ DOMAIN s = 1 .. Len(s) /\ \A i \in DOMAIN s : s[i] \in S
  BY LenProperties, ElementOfSeq
<1>2. s = <<>> <=> Len(s) = 0
  BY EmptySeq
<1> QED
  BY <1>1, <1>2

\* The sequences of a feature.
LEMMA FeatureParts ==
  ASSUME NEW f \in FeatureType
  PROVE  /\ Len(f.dependencies) \in Nat /\ DOMAIN f.dependencies = 1 .. Len(f.dependencies)
         /\ \A i \in DOMAIN f.dependencies : f.dependencies[i] \in DependencyType
         /\ Len(f.strategies) \in Nat /\ DOMAIN f.strategies = 1 .. Len(f.strategies)
         /\ \A i \in DOMAIN f.strategies : f.strategies[i] \in StrategyType
         /\ f.dependencies = <<>> <=> DOMAIN f.dependencies = {}
         /\ f.strategies = <<>> <=> DOMAIN f.strategies = {}
<1> DEFINE deps == f.dependencies
           strs == f.strategies
<1>1. deps \in Seq(DependencyType) /\ strs \in Seq(StrategyType)
  BY DEF FeatureType
<1> HIDE DEF deps, strs
<1>2. /\ Len(deps) \in Nat /\ DOMAIN deps = 1 .. Len(deps)
      /\ \A i \in DOMAIN deps : deps[i] \in DependencyType
      /\ deps = <<>> <=> DOMAIN deps = {}
  BY <1>1, SeqParts
<1>3. /\ Len(strs) \in Nat /\ DOMAIN strs = 1 .. Len(strs)
      /\ \A i \in DOMAIN strs : strs[i] \in StrategyType
      /\ strs = <<>> <=> DOMAIN strs = {}
  BY <1>1, SeqParts
<1> QED
  BY <1>2, <1>3 DEF deps, strs

LEMMA OpenFrameParts ==
  ASSUME NEW frame \in OpenFrame
  PROVE  /\ frame.index \in Nat \ {0} /\ frame.name \in Names
         /\ frame.step \in {"resolving", "parents", "unsatisfied", "strategies"}
         /\ frame.step # "resolving" => frame.feature \in FeatureType
BY DEF OpenFrame, Frame

\* More documents can do what fewer could.
LEMMA WitnessGrows ==
  ASSUME NEW docs, NEW more, docs \subseteq more
  PROVE  /\ \A s : Applies(docs, s) => Applies(more, s)
         /\ \A s : Passes(docs, s) => Passes(more, s)
         /\ \A f : CanBeOn(docs, f) => CanBeOn(more, f)
         /\ \A name : SwitchedOn(docs, name) => SwitchedOn(more, name)
<1>1. \A s : Applies(docs, s) => Applies(more, s)
  BY DEF Applies
<1>2. \A s : Passes(docs, s) => Passes(more, s)
  BY DEF Passes
<1>3. \A f : CanBeOn(docs, f) => CanBeOn(more, f)
  BY <1>1, <1>2, Zenon DEF CanBeOn
<1>4. \A name : SwitchedOn(docs, name) => SwitchedOn(more, name)
  BY <1>3 DEF SwitchedOn
<1> QED
  BY <1>1, <1>2, <1>3, <1>4

\* What an activation knows it still knows when another document is installed.
LEMMA SoundGrows ==
  ASSUME NEW docs, NEW more, NEW frame, docs # {}, docs \subseteq more, Sound(docs, frame)
  PROVE  Sound(more, frame)
<1>1. ASSUME NEW d \in more, more = {d} PROVE docs = {d} /\ d \in docs
  BY <1>1
<1>2. ASSUME frame.step # "resolving" PROVE LookedUp(more, frame)
  BY <1>2 DEF Sound, LookedUp
<1>3. ASSUME frame.step # "resolving" PROVE Witnessed(more, frame.feature, Asked(frame))
  BY <1>3, WitnessGrows DEF Sound, Witnessed
<1>4. ASSUME frame.step # "resolving" PROVE Passed(more, frame)
  BY <1>4, WitnessGrows DEF Sound, Passed
<1> QED
  BY <1>1, <1>2, <1>3, <1>4 DEF Sound

LEMMA FramesGrow ==
  ASSUME NEW docs, NEW more, NEW frames, docs # {}, docs \subseteq more,
         FramesSound(docs, frames)
  PROVE  FramesSound(more, frames)
<1>1. ASSUME NEW d \in more, more = {d} PROVE docs = {d} /\ d \in docs
  BY <1>1
<1> QED
  BY <1>1, SoundGrows DEF FramesSound

\* In one document a dependency holds of what its toggle comes to by itself.
LEMMA ParentOutcome ==
  ASSUME NEW d, NEW dependency \in DependencyType, Parentless(d, dependency.feature),
         NEW outcome \in OutcomeType, outcome = OwnOutcome(d, d.features[dependency.feature])
  PROVE  DependencyHolds(dependency, outcome) <=> Accepts(d, dependency)
BY DEF Parentless, Accepts, DependencyHolds, DependencyType, OutcomeType

\* The activation that waited for its parent: what it knows of it now.
LEMMA ResumedSound ==
  ASSUME NEW docs \in SUBSET Documents, NEW frame \in OpenFrame, Sound(docs, frame),
         frame.step = "parents",
         NEW outcome,
         outcome.enabled \in BOOLEAN,
         outcome.enabled =>
           SwitchedOn(docs, frame.feature.dependencies[frame.index].feature),
         \A d \in docs : docs = {d} =>
           (DependencyHolds(frame.feature.dependencies[frame.index], outcome)
              <=> Accepts(d, frame.feature.dependencies[frame.index]))
  PROVE  Sound(docs, Resumed(frame, outcome)) /\ Resumed(frame, outcome).name = frame.name
<1> DEFINE f == frame.feature
           n == frame.index
           dependency == f.dependencies[n]
           next == Resumed(frame, outcome)
<1>1. f \in FeatureType /\ n \in Nat \ {0} /\ frame \in Frame
  BY DEF OpenFrame, Frame
<1>2. /\ DOMAIN f.dependencies = 1 .. Len(f.dependencies) /\ Len(f.dependencies) \in Nat
      /\ n \in DOMAIN f.dependencies
  BY <1>1, FeatureParts DEF Sound
<1>3. /\ LookedUp(docs, frame) /\ Witnessed(docs, f, Asked(frame))
      /\ \A d \in docs : docs = {d} => Exact(d, frame)
  BY DEF Sound
<1>4. CASE ~DependencyHolds(dependency, outcome)
  <2>1. next = [frame EXCEPT !.step = "unsatisfied"]
    BY <1>4 DEF Resumed
  <2>2. /\ next.step = "unsatisfied" /\ next.feature = f /\ next.name = frame.name
    BY <2>1, <1>1 DEF Frame
  <2> HIDE DEF next
  <2>3. Asked(next) = {}
    BY <2>2 DEF Asked
  <2>4. \A d \in docs : docs = {d} => Exact(d, next)
    BY <1>2, <1>4, <2>2, <2>3 DEF Exact
  <2>5. LookedUp(docs, next) /\ Witnessed(docs, f, Asked(next)) /\ Passed(docs, next)
    BY <1>3, <2>2, <2>3 DEF LookedUp, Witnessed, Passed
  <2> QED
    BY <2>2, <2>4, <2>5 DEF Sound, next
<1>5. CASE DependencyHolds(dependency, outcome)
  <2> DEFINE last == n = Len(f.dependencies)
  <2>1. next = [frame EXCEPT !.step = IF last THEN "strategies" ELSE "parents",
                             !.index = IF last THEN 1 ELSE n + 1]
    BY <1>5 DEF Resumed
  <2>2. /\ next.step = IF last THEN "strategies" ELSE "parents"
        /\ next.index = IF last THEN 1 ELSE n + 1
        /\ next.feature = f /\ next.name = frame.name
    BY <2>1, <1>1 DEF Frame
  <2> HIDE DEF next
  <2>3. Asked(next) \subseteq Asked(frame) \cup {n}
    BY <1>1, <1>2, <2>2 DEF Asked
  <2>4. Witnessed(docs, f, Asked(next))
    <3>1. dependency.enabled => SwitchedOn(docs, dependency.feature)
      BY <1>5 DEF DependencyHolds
    <3> QED
      BY <1>3, <2>3, <3>1 DEF Witnessed
  <2>5. ASSUME NEW d \in docs, docs = {d} PROVE Exact(d, next)
    <3>1. \A i \in Asked(next) : Accepts(d, f.dependencies[i])
      BY <1>3, <1>5, <2>3, <2>5 DEF Exact
    <3>2. next.step = "strategies" => 1 .. next.index - 1 = {}
      BY <1>1, <2>2
    <3> QED
      BY <2>2, <3>1, <3>2 DEF Exact
  <2>6. next.step = "parents" => next.index \in DOMAIN f.dependencies
    BY <1>1, <1>2, <2>2
  <2>7. LookedUp(docs, next)
    BY <1>3, <2>2 DEF LookedUp
  <2>8. Passed(docs, next)
    <3>1. next.step = "strategies" => 1 .. next.index - 1 = {}
      BY <1>1, <2>2
    <3> QED
      BY <3>1 DEF Passed
  <2> QED
    BY <2>2, <2>4, <2>5, <2>6, <2>7, <2>8 DEF Sound, next
<1> QED
  BY <1>4, <1>5

-----------------------------------------------------------------------------
(***************************************************************************)
(* What the strategies of a toggle come to.                                *)
(***************************************************************************)

\* The strategy reached, when none before it was decisive.
LEMMA FirstDecisive ==
  ASSUME NEW d, NEW f \in FeatureType, NEW n \in Decisive(d, f),
         \A j \in 1 .. n - 1 : j \notin Decisive(d, f)
  PROVE  n = CHOOSE i \in Decisive(d, f) : \A j \in Decisive(d, f) : i <= j
<1>1. Decisive(d, f) \subseteq 1 .. Len(f.strategies) /\ Len(f.strategies) \in Nat
  BY FeatureParts DEF Decisive
<1>2. \A j \in Decisive(d, f) : n <= j
  BY <1>1
<1>3. \A i \in Decisive(d, f) : (\A j \in Decisive(d, f) : i <= j) => i = n
  BY <1>1, <1>2
<1> QED
  BY <1>2, <1>3

LEMMA OutcomeOfFirst ==
  ASSUME NEW d, NEW f \in FeatureType, f.enabled, NEW n \in Decisive(d, f),
         \A j \in 1 .. n - 1 : j \notin Decisive(d, f)
  PROVE  OwnOutcome(d, f) =
           IF SegmentMissing(f.strategies[n], d) THEN Off
           ELSE IF f.strategies[n].variants = NoVariants THEN On(Nil)
           ELSE IF f.strategies[n].groupId THEN On(Picked(f.strategies[n].variants)) ELSE Off
<1>1. f.strategies # <<>> /\ Decisive(d, f) # {}
  BY FeatureParts DEF Decisive
<1>2. n = CHOOSE i \in Decisive(d, f) : \A j \in Decisive(d, f) : i <= j
  BY FirstDecisive
<1> HIDE DEF Decisive
<1> QED
  BY <1>1, <1>2 DEF OwnOutcome

LEMMA OutcomeOfNone ==
  ASSUME NEW d, NEW f \in FeatureType, f.strategies # <<>>,
         \A j \in DOMAIN f.strategies : j \notin Decisive(d, f)
  PROVE  OwnOutcome(d, f) = Off
<1>1. Decisive(d, f) = {}
  BY DEF Decisive
<1> QED
  BY <1>1 DEF OwnOutcome


-----------------------------------------------------------------------------
(***************************************************************************)
(* An activation returns.                                                  *)
(***************************************************************************)

\* What an activation that found its toggle may return.
Settles(docs, frame, outcome) ==
  /\ outcome.enabled => frame.step = "strategies" /\ CanBeOn(docs, frame.feature)
  /\ \A d \in docs : docs = {d} => outcome = AcceptedOutcome(d, frame.feature)

\* ... and what that says of its toggle.
LEMMA SettledToggle ==
  ASSUME NEW docs \in SUBSET Documents, NEW frame \in OpenFrame, Sound(docs, frame),
         frame.step # "resolving", NEW outcome \in OutcomeType, Settles(docs, frame, outcome)
  PROVE  /\ outcome.enabled => SwitchedOn(docs, frame.name)
         /\ outcome.enabled =>
              \E d \in docs :
                /\ frame.name \in DOMAIN d.features
                /\ CanBeOn(docs, d.features[frame.name])
                /\ LET f == d.features[frame.name] IN Witnessed(docs, f, DOMAIN f.dependencies)
         /\ \A d \in docs : docs = {d} =>
              /\ frame.name \in DOMAIN d.features
              /\ frame.feature = d.features[frame.name]
              /\ outcome = AcceptedOutcome(d, d.features[frame.name])
<1>1. PICK e \in docs : frame.name \in DOMAIN e.features /\ frame.feature = e.features[frame.name]
  BY DEF Sound, LookedUp
<1>2. ASSUME outcome.enabled
      PROVE  /\ CanBeOn(docs, e.features[frame.name])
             /\ Witnessed(docs, e.features[frame.name], DOMAIN e.features[frame.name].dependencies)
  <2>1. frame.step = "strategies" /\ CanBeOn(docs, frame.feature)
    BY <1>2 DEF Settles
  <2>2. Asked(frame) = DOMAIN frame.feature.dependencies
    BY <2>1 DEF Asked
  <2> QED
    BY <1>1, <2>1, <2>2 DEF Sound
<1>3. \A d \in docs : docs = {d} =>
              /\ frame.name \in DOMAIN d.features
              /\ frame.feature = d.features[frame.name]
              /\ outcome = AcceptedOutcome(d, d.features[frame.name])
  BY <1>1 DEF Settles
<1>4. outcome.enabled => SwitchedOn(docs, frame.name)
  BY <1>1, <1>2 DEF SwitchedOn
<1> QED
  BY <1>1, <1>2, <1>3, <1>4

\* The call of one caller changes.
LEMMA OneCall ==
  ASSUME AnswerInv, NEW c \in Callers, UNCHANGED <<toggles, segments>>,
         \A b \in Callers \ {c} : stack'[b] = stack[b] /\ call'[b] = call[b] /\ seen'[b] = seen[b],
         CallSound(seen'[c], stack'[c], call'[c]),
         stack'[c] # <<>> => {toggles, segments} \subseteq seen'[c]
  PROVE  AnswerInv'
BY DEF AnswerInv

\* ... to the activation below.
AnswersParent(docs, name, outcome) ==
  /\ outcome.enabled => SwitchedOn(docs, name)
  /\ \A d \in docs : docs = {d} /\ Parentless(d, name) =>
       outcome = OwnOutcome(d, d.features[name])

LEMMA ReturnBelow ==
  ASSUME TypeInv, AnswerInv, NEW c \in Callers, Len(stack[c]) > 1, stack[c] # <<>>,
         NEW outcome \in OutcomeType, Finish(c, outcome), UNCHANGED <<store, seen>>,
         AnswersParent(seen[c], Top(c).name, outcome)
  PROVE  AnswerInv'
<1> DEFINE n == Len(stack[c])
           frame == stack[c][n - 1]
           docs == seen[c]
<1>1. /\ n \in Nat \ {0} /\ Top(c) \in OpenFrame /\ Top(c) = stack[c][n]
      /\ stack[c] \in Seq(OpenFrame)
  BY TopType DEF TypeInv, Inv, Top
<1>2. frame \in OpenFrame /\ frame.step = "parents"
  BY <1>1, ElementOfSeq DEF TypeInv, Inv, WaitInv
<1>3. /\ stack' \in [Callers -> Seq(OpenFrame)]
      /\ Len(stack'[c]) = n - 1
      /\ \A i \in 1 .. n - 2 : stack'[c][i] = stack[c][i]
      /\ \A b \in Callers \ {c} : stack'[b] = stack[b]
      /\ stack'[c][n - 1] = Resumed(frame, outcome)
      /\ UNCHANGED call
  BY FinishStack DEF TypeInv, Inv
<1>4. /\ FramesSound(docs, stack[c]) /\ call[c].step = "running"
      /\ stack[c][1].name = call[c].name /\ {toggles, segments} \subseteq docs
  BY DEF AnswerInv, CallSound
<1>5. docs \in SUBSET Documents
  BY DEF TypeInv, TypeOK
<1>6. /\ Sound(docs, frame)
      /\ Top(c).name = frame.feature.dependencies[frame.index].feature
      /\ \A d \in docs : docs = {d} => Parentless(d, Top(c).name)
  <2>1. /\ n - 1 \in 1 .. n /\ n - 1 < n /\ (n - 1) + 1 = n
        /\ n \in 1 .. n /\ n > 1
    BY <1>1
  <2> HIDE DEF n
  <2> QED
    BY <1>1, <1>4, <2>1 DEF FramesSound, n
<1>7. frame.feature.dependencies[frame.index] \in DependencyType
  BY <1>2, <1>6, OpenFrameParts, FeatureParts DEF Sound
<1>8. \A d \in docs : docs = {d} =>
        (DependencyHolds(frame.feature.dependencies[frame.index], outcome)
           <=> Accepts(d, frame.feature.dependencies[frame.index]))
  BY <1>6, <1>7, ParentOutcome DEF AnswersParent
<1>9. Sound(docs, Resumed(frame, outcome)) /\ Resumed(frame, outcome).name = frame.name
  <2>1. outcome.enabled \in BOOLEAN
    BY DEF OutcomeType
  <2>2. outcome.enabled =>
          SwitchedOn(docs, frame.feature.dependencies[frame.index].feature)
    BY <1>6 DEF AnswersParent
  <2> HIDE DEF frame, docs
  <2> QED
    BY <1>2, <1>5, <1>6, <1>8, <2>1, <2>2, ResumedSound
<1>10. \A i \in 1 .. n - 1 : Sound(docs, stack'[c][i]) /\ stack'[c][i].name = stack[c][i].name
  <2> SUFFICES ASSUME NEW i \in 1 .. n - 1
               PROVE  Sound(docs, stack'[c][i]) /\ stack'[c][i].name = stack[c][i].name
    OBVIOUS
  <2>1. i \in 1 .. n - 2 \/ i = n - 1
    BY <1>1
  <2>2. Sound(docs, stack[c][i])
    BY <1>1, <1>4 DEF FramesSound
  <2> QED
    BY <1>3, <1>9, <2>1, <2>2
<1>11. FramesSound(docs, stack'[c])
  <2> SUFFICES ASSUME NEW i \in 1 .. n - 1
               PROVE  /\ i < n - 1 => stack'[c][i + 1].name =
                           stack'[c][i].feature.dependencies[stack'[c][i].index].feature
                      /\ i > 1 => \A d \in docs : docs = {d} => Parentless(d, stack'[c][i].name)
    BY <1>3, <1>10 DEF FramesSound
  <2>1. i > 1 => \A d \in docs : docs = {d} => Parentless(d, stack'[c][i].name)
    BY <1>1, <1>4, <1>10 DEF FramesSound
  <2>2. ASSUME i < n - 1
        PROVE  stack'[c][i + 1].name =
                 stack'[c][i].feature.dependencies[stack'[c][i].index].feature
    <3>1. i \in 1 .. n - 2 /\ i + 1 \in 1 .. n - 1 /\ i \in 1 .. n /\ i < n
      BY <1>1, <2>2
    <3>2. stack'[c][i] = stack[c][i] /\ stack'[c][i + 1].name = stack[c][i + 1].name
      BY <1>3, <1>10, <3>1
    <3> QED
      BY <1>4, <3>1, <3>2 DEF FramesSound
  <2> QED
    BY <2>1, <2>2
<1>12. stack'[c][1].name = call[c].name
  BY <1>1, <1>4, <1>10
<1>13. CallSound(seen'[c], stack'[c], call'[c])
  BY <1>3, <1>4, <1>11, <1>12 DEF CallSound
<1> QED
  BY <1>3, <1>4, <1>13, OneCall DEF store

\* ... or to the caller of IsEnabled or GetVariant.
AnswersCaller(docs, frame, record, outcome) ==
  /\ record.method = "IsEnabled" /\ outcome.enabled /\ frame.feature # Nil =>
       \E d \in docs :
         /\ frame.name \in DOMAIN d.features
         /\ CanBeOn(docs, d.features[frame.name])
         /\ LET f == d.features[frame.name] IN Witnessed(docs, f, DOMAIN f.dependencies)
  /\ \A d \in docs : docs = {d} =>
       /\ record.method = "IsEnabled" =>
            outcome.enabled = AcceptedOn(d, frame.name, record.fallback)
       /\ record.method = "GetVariant" =>
            /\ outcome.enabled = AcceptedOn(d, frame.name, FALSE)
            /\ outcome.enabled => /\ frame.feature = d.features[frame.name]
                                  /\ outcome.variant = AcceptedOutcome(d, frame.feature).variant

LEMMA ReturnOutermost ==
  ASSUME TypeInv, AnswerInv, NEW c \in Callers, Len(stack[c]) = 1, stack[c] # <<>>,
         NEW outcome \in OutcomeType, Finish(c, outcome), UNCHANGED <<store, seen>>,
         AnswersCaller(seen[c], Top(c), call[c], outcome)
  PROVE  AnswerInv'
<1> DEFINE step == IF call[c].method = "IsEnabled" THEN "returned" ELSE "deciding"
           next == [call[c] EXCEPT !.step = step, !.feature = Top(c).feature,
                                   !.enabled = outcome.enabled, !.variant = outcome.variant]
<1>1. call[c] \in CallRecord /\ call \in [Callers -> CallRecord] /\ Top(c) = stack[c][1]
  BY DEF TypeInv, TypeOK, Top
<1>2. call[c].method \in {"IsEnabled", "GetVariant"} /\ stack[c][1].name = call[c].name
      /\ call[c].fallback \in BOOLEAN
  BY <1>1 DEF TypeInv, MethodInv, AnswerInv, CallSound, CallRecord
<1>3. /\ \A b \in Callers \ {c} : stack'[b] = stack[b]
      /\ stack' \in [Callers -> Seq(OpenFrame)] /\ Len(stack'[c]) = 0
  BY FinishStack DEF TypeInv, Inv
<1>4. stack'[c] = <<>>
  BY <1>3, EmptySeq
<1>5. SubSeq(stack[c], 1, Len(stack[c]) - 1) = <<>>
  BY TopType, SubSeqEmpty DEF TypeInv, Inv
<1>6. call' = [call EXCEPT ![c] = next]
  BY <1>5 DEF Finish
<1>7. /\ next.step = step /\ next.method = call[c].method /\ next.name = Top(c).name
      /\ next.fallback = call[c].fallback /\ next.feature = Top(c).feature
      /\ next.enabled = outcome.enabled /\ next.variant = outcome.variant
  BY <1>1, <1>2 DEF CallRecord
<1> HIDE DEF next
<1>8. call'[c] = next /\ \A b \in Callers \ {c} : call'[b] = call[b]
  BY <1>1, <1>6
<1>9. ASSUME next.step = "deciding" PROVE DecisionSound(seen[c], next)
  BY <1>2, <1>7, <1>9 DEF DecisionSound, AnswersCaller
<1>10. ASSUME next.step = "returned" PROVE AnswerSound(seen[c], next)
  BY <1>2, <1>7, <1>10 DEF AnswerSound, AnswersCaller
<1>11. FramesSound(seen[c], <<>>)
  BY DEF FramesSound
<1>12. CallSound(seen[c], <<>>, next)
  BY <1>9, <1>10, <1>11 DEF CallSound
<1> QED
  BY <1>3, <1>4, <1>8, <1>12, OneCall DEF store


\* The innermost activation, and the documents it may have read.
LEMMA Innermost ==
  ASSUME TypeInv, AnswerInv, NEW c \in Callers, stack[c] # <<>>
  PROVE  /\ Top(c) \in OpenFrame /\ Sound(seen[c], Top(c)) /\ Len(stack[c]) \in Nat \ {0}
         /\ Top(c) = stack[c][Len(stack[c])]
         /\ stack[c] \in Seq(OpenFrame)
         /\ FramesSound(seen[c], stack[c])
         /\ call[c].step = "running" /\ stack[c][1].name = call[c].name
         /\ seen[c] \in SUBSET Documents
         /\ {toggles, segments} \subseteq seen[c]
         /\ \A d \in seen[c] : seen[c] = {d} => toggles = d /\ segments = d
         /\ call[c] \in CallRecord
<1>1. /\ Top(c) \in OpenFrame /\ Len(stack[c]) \in Nat \ {0}
      /\ Top(c) = stack[c][Len(stack[c])] /\ stack[c] \in Seq(OpenFrame)
  BY TopType DEF TypeInv, Inv, Top
<1>2. /\ FramesSound(seen[c], stack[c]) /\ {toggles, segments} \subseteq seen[c]
      /\ call[c].step = "running" /\ stack[c][1].name = call[c].name
  BY DEF AnswerInv, CallSound
<1>3. seen[c] \in SUBSET Documents /\ call[c] \in CallRecord
  BY DEF TypeInv, TypeOK
<1>4. Sound(seen[c], Top(c))
  BY <1>1, <1>2 DEF FramesSound
<1> QED
  BY <1>1, <1>2, <1>3, <1>4

LEMMA SettledReturn ==
  ASSUME TypeInv, AnswerInv, NEW c \in Callers, stack[c] # <<>>, Top(c).step # "resolving",
         NEW outcome \in OutcomeType, Finish(c, outcome), UNCHANGED <<store, seen>>,
         Settles(seen[c], Top(c), outcome)
  PROVE  AnswerInv'
<1> DEFINE frame == Top(c)
           docs == seen[c]
<1>1. /\ frame \in OpenFrame /\ Sound(docs, frame) /\ docs \in SUBSET Documents
      /\ Len(stack[c]) \in Nat \ {0}
  BY Innermost
<1>2. /\ outcome.enabled => SwitchedOn(docs, frame.name)
      /\ outcome.enabled =>
              \E d \in docs :
                /\ frame.name \in DOMAIN d.features
                /\ CanBeOn(docs, d.features[frame.name])
                /\ LET f == d.features[frame.name] IN Witnessed(docs, f, DOMAIN f.dependencies)
      /\ \A d \in docs : docs = {d} =>
              /\ frame.name \in DOMAIN d.features
              /\ frame.feature = d.features[frame.name]
              /\ outcome = AcceptedOutcome(d, d.features[frame.name])
  BY <1>1, SettledToggle
<1>3. CASE Len(stack[c]) = 1
  <2>1. AnswersCaller(docs, frame, call[c], outcome)
    BY <1>2 DEF AnswersCaller, AcceptedOn
  <2> QED
    BY <1>3, <2>1, ReturnOutermost
<1>4. CASE Len(stack[c]) > 1
  <2>1. ASSUME NEW d \in docs, docs = {d}, Parentless(d, frame.name)
        PROVE  outcome = OwnOutcome(d, d.features[frame.name])
    <3> DEFINE f == d.features[frame.name]
    <3>1. outcome = AcceptedOutcome(d, f) /\ f.dependencies = <<>>
      BY <1>2, <2>1 DEF Parentless
    <3>2. DOMAIN f.dependencies = {}
      <4>1. f \in FeatureType
        BY <1>1, <2>1, DocumentFeatures DEF Parentless
      <4> QED
        BY <3>1, <4>1, FeatureParts
    <3> HIDE DEF f
    <3>3. outcome = OwnOutcome(d, f)
      BY <3>1, <3>2 DEF AcceptedOutcome
    <3> QED
      BY <3>3 DEF f
  <2>2. AnswersParent(docs, frame.name, outcome)
    BY <1>2, <2>1 DEF AnswersParent
  <2> QED
    BY <1>4, <2>2, ReturnBelow
<1>5. Len(stack[c]) = 1 \/ Len(stack[c]) > 1
  <2>1. \A n \in Nat \ {0} : n = 1 \/ n > 1
    OBVIOUS
  <2> QED
    BY <1>1, <2>1
<1> QED
  BY <1>3, <1>4, <1>5

-----------------------------------------------------------------------------
(***************************************************************************)
(* The actions.                                                            *)
(***************************************************************************)

\* The innermost activation goes on.
LEMMA GoesOn ==
  ASSUME TypeInv, AnswerInv, NEW c \in Callers, stack[c] # <<>>,
         NEW frame \in OpenFrame, Becomes(c, frame), UNCHANGED <<store, call, seen>>,
         Sound(seen[c], frame), frame.name = Top(c).name
  PROVE  AnswerInv'
<1> DEFINE n == Len(stack[c])
<1>1. /\ n \in Nat \ {0} /\ FramesSound(seen[c], stack[c]) /\ Top(c) = stack[c][n]
      /\ call[c].step = "running" /\ stack[c][1].name = call[c].name
      /\ {toggles, segments} \subseteq seen[c]
  BY Innermost
<1>2. /\ stack' \in [Callers -> Seq(OpenFrame)]
      /\ Len(stack'[c]) = n
      /\ stack'[c][n] = frame
      /\ \A i \in 1 .. n - 1 : stack'[c][i] = stack[c][i]
      /\ \A b \in Callers \ {c} : stack'[b] = stack[b]
  BY BecomesStack DEF TypeInv, Inv
<1> HIDE DEF n
<1>3. FramesSound(seen[c], stack'[c])
  <2> SUFFICES ASSUME NEW i \in 1 .. n
               PROVE  /\ Sound(seen[c], stack'[c][i])
                      /\ i < n => stack'[c][i + 1].name =
                           stack'[c][i].feature.dependencies[stack'[c][i].index].feature
                      /\ i > 1 => \A d \in seen[c] : seen[c] = {d} =>
                                    Parentless(d, stack'[c][i].name)
    BY <1>2 DEF FramesSound
  <2>1. \A j \in 1 .. n : stack'[c][j].name = stack[c][j].name
    BY <1>1, <1>2
  <2>2. i > 1 => \A d \in seen[c] : seen[c] = {d} => Parentless(d, stack[c][i].name)
    BY <1>1 DEF FramesSound, n
  <2>3. CASE i = n
    BY <1>1, <1>2, <2>1, <2>2, <2>3
  <2>4. CASE i < n
    <3>1. i \in 1 .. n - 1 /\ i + 1 \in 1 .. n
      BY <1>1, <2>4
    <3>2. /\ Sound(seen[c], stack[c][i])
          /\ stack[c][i + 1].name = stack[c][i].feature.dependencies[stack[c][i].index].feature
      BY <1>1, <2>4 DEF FramesSound, n
    <3>3. stack'[c][i] = stack[c][i] /\ stack'[c][i + 1].name = stack[c][i + 1].name
      BY <1>2, <2>1, <3>1
    <3> QED
      BY <2>1, <2>2, <3>2, <3>3
  <2> QED
    BY <1>1, <2>3, <2>4
<1>4. stack'[c][1].name = call[c].name
  BY <1>1, <1>2
<1>5. CallSound(seen'[c], stack'[c], call'[c])
  BY <1>1, <1>3, <1>4 DEF CallSound
<1> QED
  BY <1>1, <1>2, <1>5, OneCall DEF store

LEMMA ResolveSound ==
  ASSUME TypeInv, AnswerInv, NEW c \in Callers, Resolve(c) PROVE AnswerInv'
<1> DEFINE name == Top(c).name
           feature == toggles.features[name]
           docs == seen[c]
           frame == [Top(c) EXCEPT !.feature = feature,
                                   !.step = IF feature.dependencies = <<>> THEN "strategies"
                                            ELSE "parents"]
           outcome == IF Len(stack[c]) = 1 /\ call[c].method = "IsEnabled" /\ call[c].fallback
                      THEN On(Nil) ELSE Off
<1>1. /\ stack[c] # <<>> /\ Top(c).step = "resolving" /\ UNCHANGED <<store, seen>>
      /\ \/ name \in DOMAIN toggles.features /\ Becomes(c, frame) /\ UNCHANGED call
         \/ name \notin DOMAIN toggles.features /\ Finish(c, outcome)
  BY DEF Resolve, At, Unshared
<1>2. /\ Top(c) \in OpenFrame /\ Sound(docs, Top(c)) /\ Len(stack[c]) \in Nat \ {0}
      /\ toggles \in docs /\ docs \in SUBSET Documents
      /\ \A d \in docs : docs = {d} => toggles = d
  BY <1>1, Innermost
<1>3. Top(c).index = 1 /\ Top(c).feature = Nil
  BY <1>1, <1>2 DEF Sound
<1>4. CASE name \in DOMAIN toggles.features /\ Becomes(c, frame) /\ UNCHANGED call
  <2>1. feature \in FeatureType
    BY <1>2, <1>4, DocumentFeatures
  <2>2. /\ frame.feature = feature /\ frame.index = 1 /\ frame.name = name
        /\ frame.step = IF feature.dependencies = <<>> THEN "strategies" ELSE "parents"
        /\ frame \in OpenFrame
    BY <1>2, <1>3, <2>1 DEF OpenFrame, Frame
  <2> HIDE DEF frame
  <2>3. /\ DOMAIN feature.dependencies = 1 .. Len(feature.dependencies)
        /\ Len(feature.dependencies) \in Nat
        /\ feature.dependencies = <<>> <=> DOMAIN feature.dependencies = {}
    BY <2>1, FeatureParts
  <2>4. Asked(frame) = {} /\ (frame.step = "parents" => 1 \in DOMAIN feature.dependencies)
    BY <2>2, <2>3 DEF Asked
  <2>5. LookedUp(docs, frame)
    BY <1>2, <1>4, <2>2 DEF LookedUp
  <2>6. \A d \in docs : Exact(d, frame)
    BY <2>2, <2>4 DEF Exact
  <2>7. Sound(docs, frame)
    <3>1. 1 .. frame.index - 1 = {}
      BY <2>2
    <3> QED
      BY <2>2, <2>4, <2>5, <2>6, <3>1 DEF Sound, Witnessed, Passed
  <2> QED
    BY <1>1, <1>4, <2>2, <2>7, GoesOn
<1>5. CASE name \notin DOMAIN toggles.features /\ Finish(c, outcome)
  <2>1. outcome \in OutcomeType
    BY OutcomeTypes
  <2>2. CASE Len(stack[c]) = 1
    <3>1. /\ call[c].method = "IsEnabled" => outcome.enabled = call[c].fallback
          /\ call[c].method # "IsEnabled" => outcome.enabled = FALSE
      <4>1. call[c].fallback \in BOOLEAN
        BY <1>1, Innermost DEF CallRecord
      <4> QED
        BY <2>2, <4>1 DEF Off, On
    <3> HIDE DEF outcome
    <3>2. ASSUME NEW d \in docs, docs = {d}, NEW otherwise
          PROVE  AcceptedOn(d, name, otherwise) = otherwise
      BY <1>2, <1>5, <3>2 DEF AcceptedOn
    <3>3. AnswersCaller(docs, Top(c), call[c], outcome)
      BY <1>3, <3>1, <3>2 DEF AnswersCaller
    <3> QED
      BY <1>1, <1>5, <2>1, <2>2, <3>3, ReturnOutermost DEF outcome
  <2>3. CASE Len(stack[c]) > 1
    <3>1. outcome = Off /\ ~Off.enabled
      <4>1. \A n \in Nat \ {0} : n > 1 => n # 1
        OBVIOUS
      <4>2. Len(stack[c]) # 1
        BY <1>2, <2>3, <4>1
      <4> QED
        BY <4>2 DEF Off
    <3>2. AnswersParent(docs, name, Off)
      <4>1. \A d \in docs : docs = {d} => ~Parentless(d, name)
        BY <1>2, <1>5 DEF Parentless
      <4> QED
        BY <3>1, <4>1 DEF AnswersParent
    <3>3. Finish(c, Off) /\ Off \in OutcomeType
      BY <1>5, <2>1, <3>1
    <3> QED
      BY <1>1, <2>3, <3>2, <3>3, ReturnBelow
  <2>4. Len(stack[c]) = 1 \/ Len(stack[c]) > 1
    <3>1. \A n \in Nat \ {0} : n = 1 \/ n > 1
      OBVIOUS
    <3> QED
      BY <1>2, <3>1
  <2> QED
    BY <2>2, <2>3, <2>4
<1> QED
  BY <1>1, <1>4, <1>5


\* The parent is asked for, or the toggle is off for want of a usable one.
LEMMA AskParentSound ==
  ASSUME TypeInv, AnswerInv, NEW c \in Callers, AskParent(c) PROVE AnswerInv'
<1> DEFINE frame == Top(c)
           dependency == frame.feature.dependencies[frame.index]
           parent == dependency.feature
           docs == seen[c]
           n == Len(stack[c])
<1>1. /\ stack[c] # <<>> /\ frame.step = "parents" /\ UNCHANGED <<store, seen>>
      /\ \/ /\ Parentless(toggles, parent) /\ UNCHANGED call
            /\ stack' = [stack EXCEPT ![c] = Append(@, Opened(parent))]
         \/ ~Parentless(toggles, parent) /\ Finish(c, Off)
  BY DEF AskParent, ParentAsked, At, Unshared, Parentless
<1>2. /\ frame \in OpenFrame /\ Sound(docs, frame) /\ n \in Nat \ {0} /\ frame = stack[c][n]
      /\ stack[c] \in Seq(OpenFrame)
      /\ FramesSound(docs, stack[c]) /\ call[c].step = "running"
      /\ stack[c][1].name = call[c].name
      /\ {toggles, segments} \subseteq docs /\ docs \in SUBSET Documents
      /\ \A d \in docs : docs = {d} => toggles = d
  BY <1>1, Innermost
<1>3. CASE ~Parentless(toggles, parent) /\ Finish(c, Off)
  <2>1. ASSUME NEW d \in docs, docs = {d} PROVE AcceptedOutcome(d, frame.feature) = Off
    <3>1. ~Accepts(d, dependency)
      BY <1>2, <1>3, <2>1 DEF Accepts, Parentless
    <3>2. frame.index \in DOMAIN frame.feature.dependencies
      BY <1>1, <1>2 DEF Sound
    <3> QED
      BY <3>1, <3>2 DEF AcceptedOutcome
  <2>2. Settles(docs, frame, Off)
    BY <2>1, OutcomeTypes DEF Settles
  <2> QED
    BY <1>1, <1>3, <2>2, SettledReturn, OutcomeTypes
<1>4. CASE /\ Parentless(toggles, parent) /\ UNCHANGED call
           /\ stack' = [stack EXCEPT ![c] = Append(@, Opened(parent))]
  <2>1. Opened(parent) \in OpenFrame
    <3>1. parent \in Names
      BY <1>2, <1>4, DocumentFeatures DEF Parentless
    <3> QED
      BY <3>1 DEF Opened, OpenFrame, Frame
  <2> DEFINE new == Append(stack[c], Opened(parent))
  <2>2. /\ stack'[c] = new /\ \A b \in Callers \ {c} : stack'[b] = stack[b]
    BY <1>4 DEF TypeInv, TypeOK
  <2>3. /\ new \in Seq(OpenFrame) /\ Len(new) = n + 1
        /\ \A i \in 1 .. n : new[i] = stack[c][i]
        /\ new[n + 1] = Opened(parent)
    BY <1>2, <2>1, AppendProperties
  <2> HIDE DEF new, n
  <2>4. Sound(docs, Opened(parent)) /\ Opened(parent).name = parent
    BY DEF Sound, Opened
  <2>5. \A d \in docs : docs = {d} => Parentless(d, parent)
    BY <1>2, <1>4
  <2>6. FramesSound(docs, new)
    <3> SUFFICES ASSUME NEW i \in 1 .. n + 1
                 PROVE  /\ Sound(docs, new[i])
                        /\ i < n + 1 => new[i + 1].name =
                             new[i].feature.dependencies[new[i].index].feature
                        /\ i > 1 => \A d \in docs : docs = {d} => Parentless(d, new[i].name)
      BY <2>3 DEF FramesSound
    <3>1. CASE i = n + 1
      <4>1. ~(i < n + 1) /\ new[i] = Opened(parent)
        BY <1>2, <2>3, <3>1
      <4> QED
        BY <2>4, <2>5, <4>1
    <3>2. CASE i = n
      <4>0. n \in 1 .. n /\ n \in Nat
        BY <1>2
      <4>1. new[i] = frame /\ new[i + 1].name = parent
        BY <1>2, <2>3, <2>4, <3>2, <4>0 DEF n
      <4>2. Sound(docs, frame) /\ (n > 1 => \A d \in docs : docs = {d} => Parentless(d, frame.name))
        BY <1>2 DEF FramesSound, n
      <4> QED
        BY <3>2, <4>1, <4>2
    <3>3. CASE i < n
      <4>1. i \in 1 .. n /\ i + 1 \in 1 .. n
        BY <1>2, <3>3
      <4>2. new[i] = stack[c][i] /\ new[i + 1] = stack[c][i + 1]
        BY <2>3, <4>1
      <4> QED
        BY <1>2, <3>3, <4>1, <4>2 DEF FramesSound, n
    <3> QED
      BY <1>2, <3>1, <3>2, <3>3
  <2>7. new[1].name = call[c].name
    BY <1>2, <2>3
  <2>8. CallSound(seen'[c], stack'[c], call'[c])
    BY <1>1, <1>2, <1>4, <2>2, <2>6, <2>7 DEF CallSound
  <2> QED
    BY <1>1, <1>2, <1>4, <2>2, <2>8, OneCall DEF store
<1> QED
  BY <1>1, <1>3, <1>4

LEMMA UnsatisfiedSound ==
  ASSUME TypeInv, AnswerInv, NEW c \in Callers, Unsatisfied(c) PROVE AnswerInv'
<1>1. /\ stack[c] # <<>> /\ Top(c).step = "unsatisfied" /\ UNCHANGED <<store, seen>>
      /\ Finish(c, Off)
  BY DEF Unsatisfied, At, Unshared
<1>2. Sound(seen[c], Top(c))
  BY <1>1, Innermost
<1>3. Settles(seen[c], Top(c), Off)
  BY <1>1, <1>2, OutcomeTypes DEF Settles, Sound, Exact, AcceptedOutcome
<1> QED
  BY <1>1, <1>3, SettledReturn, OutcomeTypes

\* An activation that tries its strategies, in the only document there was.
LEMMA AtStrategies ==
  ASSUME TypeInv, AnswerInv, NEW c \in Callers, At(c, "strategies")
  PROVE  /\ stack[c] # <<>> /\ Top(c).step = "strategies" /\ Feature(c) \in FeatureType
         /\ Top(c) \in OpenFrame /\ Sound(seen[c], Top(c)) /\ Top(c).index \in Nat \ {0}
         /\ \A d \in seen[c] : seen[c] = {d} =>
              /\ segments = d
              /\ AcceptedOutcome(d, Feature(c)) = OwnOutcome(d, Feature(c))
              /\ \A j \in 1 .. Top(c).index - 1 : j \notin Decisive(d, Feature(c))
<1>1. stack[c] # <<>> /\ Top(c).step = "strategies" /\ Feature(c) = Top(c).feature
  BY DEF At, Feature
<1>2. /\ Top(c) \in OpenFrame /\ Sound(seen[c], Top(c))
      /\ \A d \in seen[c] : seen[c] = {d} => segments = d
  BY <1>1, Innermost
<1>3. Feature(c) \in FeatureType /\ Top(c).index \in Nat \ {0}
  BY <1>1, <1>2, OpenFrameParts
<1>4. Asked(Top(c)) = DOMAIN Feature(c).dependencies
  BY <1>1 DEF Asked
<1>5. ASSUME NEW d \in seen[c], seen[c] = {d}
      PROVE  /\ AcceptedOutcome(d, Feature(c)) = OwnOutcome(d, Feature(c))
             /\ \A j \in 1 .. Top(c).index - 1 : j \notin Decisive(d, Feature(c))
  BY <1>1, <1>2, <1>4, <1>5 DEF Sound, Exact, AcceptedOutcome
<1> QED
  BY <1>1, <1>2, <1>3, <1>5


\* A strategy decides, in the only document there was, if it is decisive there.
LEMMA StrategyDecides ==
  ASSUME TypeInv, AnswerInv, NEW c \in Callers, Trying(c), NEW d \in seen[c], seen[c] = {d},
         Strategy(c).known,
         \/ SegmentMissing(Strategy(c), segments)
         \/ SegmentMet(Strategy(c), segments) /\ Strategy(c).met
  PROVE  AcceptedOutcome(d, Feature(c)) =
           IF SegmentMissing(Strategy(c), segments) THEN Off
           ELSE IF Strategy(c).variants = NoVariants THEN On(Nil)
           ELSE IF Strategy(c).groupId THEN On(Picked(Strategy(c).variants)) ELSE Off
<1> DEFINE f == Feature(c)
           n == Top(c).index
<1>1. /\ f \in FeatureType /\ n \in DOMAIN f.strategies /\ f.enabled /\ Strategy(c) = f.strategies[n]
      /\ At(c, "strategies")
  BY TriedStrategy DEF Trying, Strategy
<1>2. /\ segments = d /\ AcceptedOutcome(d, f) = OwnOutcome(d, f)
      /\ \A j \in 1 .. n - 1 : j \notin Decisive(d, f)
  BY <1>1, AtStrategies
<1>3. n \in Decisive(d, f)
  BY <1>1, <1>2 DEF Decisive
<1> HIDE DEF f, n
<1>4. OwnOutcome(d, f) =
           IF SegmentMissing(f.strategies[n], d) THEN Off
           ELSE IF f.strategies[n].variants = NoVariants THEN On(Nil)
           ELSE IF f.strategies[n].groupId THEN On(Picked(f.strategies[n].variants)) ELSE Off
  BY <1>1, <1>2, <1>3, OutcomeOfFirst
<1> QED
  BY <1>1, <1>2, <1>4 DEF f

LEMMA PassStrategySound ==
  ASSUME TypeInv, AnswerInv, NEW c \in Callers, PassStrategy(c) PROVE AnswerInv'
<1> DEFINE frame == [Top(c) EXCEPT !.index = @ + 1]
           n == Top(c).index
           docs == seen[c]
<1>1. /\ Trying(c) /\ At(c, "strategies") /\ stack[c] # <<>>
      /\ Becomes(c, frame) /\ UNCHANGED <<store, call, seen>>
      /\ Strategy(c).known =>
           /\ ~SegmentMissing(Strategy(c), segments)
           /\ ~(SegmentMet(Strategy(c), segments) /\ Strategy(c).met)
  BY DEF PassStrategy, NextStrategy, Trying, At, Unshared
<1>2. /\ Top(c).step = "strategies" /\ Feature(c) \in FeatureType /\ Top(c) \in OpenFrame
      /\ Sound(docs, Top(c)) /\ n \in Nat \ {0} /\ Feature(c) = Top(c).feature
      /\ \A d \in docs : docs = {d} =>
           segments = d /\ \A j \in 1 .. n - 1 : j \notin Decisive(d, Feature(c))
  BY <1>1, AtStrategies DEF Feature
<1>3. /\ frame.step = "strategies" /\ frame.feature = Top(c).feature
      /\ frame.name = Top(c).name /\ frame.index = n + 1 /\ frame \in OpenFrame
  BY <1>2 DEF OpenFrame, Frame
<1> HIDE DEF frame
<1>4. Asked(frame) = Asked(Top(c))
  BY <1>2, <1>3 DEF Asked
<1>5. ASSUME NEW d \in docs, docs = {d} PROVE Exact(d, frame)
  <2>1. n \notin Decisive(d, Feature(c))
    BY <1>1, <1>2, <1>5 DEF Decisive, Strategy
  <2>2. \A j \in 1 .. frame.index - 1 : j \in 1 .. n - 1 \/ j = n
    BY <1>2, <1>3
  <2>3. \A j \in 1 .. frame.index - 1 : j \notin Decisive(d, frame.feature)
    BY <1>2, <1>3, <1>5, <2>1, <2>2
  <2>4. \A i \in Asked(frame) : Accepts(d, frame.feature.dependencies[i])
    BY <1>2, <1>3, <1>4, <1>5 DEF Sound, Exact
  <2> QED
    BY <1>3, <2>3, <2>4 DEF Exact
<1>6. LookedUp(docs, frame) /\ Witnessed(docs, frame.feature, Asked(frame))
  BY <1>2, <1>3, <1>4 DEF Sound, LookedUp
<1>7. Passed(docs, frame)
  <2>1. segments \in docs
    BY <1>1, Innermost
  <2>2. Passes(docs, Feature(c).strategies[n])
    BY <1>1, <2>1 DEF Passes, Strategy
  <2>3. \A j \in 1 .. n - 1 : Passes(docs, Feature(c).strategies[j])
    BY <1>2 DEF Sound, Passed
  <2>4. \A j \in 1 .. frame.index - 1 : j \in 1 .. n - 1 \/ j = n
    BY <1>2, <1>3
  <2> QED
    BY <1>2, <1>3, <2>2, <2>3, <2>4 DEF Passed
<1>8. Sound(docs, frame)
  BY <1>3, <1>5, <1>6, <1>7 DEF Sound
<1> QED
  BY <1>1, <1>3, <1>8, GoesOn

\* A toggle that is switched off, has no strategies or none that applies.
LEMMA NoStrategySound ==
  ASSUME TypeInv, AnswerInv, NEW c \in Callers,
         SwitchedOff(c) \/ WithoutStrategies(c) \/ NoStrategyLeft(c)
  PROVE  AnswerInv'
<1> DEFINE f == Feature(c)
<1>1. At(c, "strategies") /\ UNCHANGED <<store, seen>>
  BY DEF SwitchedOff, WithoutStrategies, NoStrategyLeft, Unshared
<1>2. /\ stack[c] # <<>> /\ Top(c).step = "strategies" /\ f \in FeatureType
      /\ f = Top(c).feature /\ Top(c).index \in Nat \ {0}
      /\ \A d \in seen[c] : seen[c] = {d} =>
           /\ AcceptedOutcome(d, f) = OwnOutcome(d, f)
           /\ \A j \in 1 .. Top(c).index - 1 : j \notin Decisive(d, f)
  BY <1>1, AtStrategies DEF Feature
<1>3. ASSUME NEW outcome \in OutcomeType, Finish(c, outcome),
             outcome.enabled => CanBeOn(seen[c], f),
             \A d \in seen[c] : seen[c] = {d} => OwnOutcome(d, f) = outcome
      PROVE  AnswerInv'
  BY <1>1, <1>2, <1>3, SettledReturn DEF Settles
<1>4. CASE SwitchedOff(c)
  <2>1. Finish(c, Off) /\ \A d : OwnOutcome(d, f) = Off
    BY <1>4 DEF SwitchedOff, OwnOutcome
  <2> QED
    BY <1>3, <2>1, OutcomeTypes
<1>5. CASE WithoutStrategies(c)
  <2>1. Finish(c, On(Nil)) /\ CanBeOn(seen[c], f) /\ \A d : OwnOutcome(d, f) = On(Nil)
    BY <1>5 DEF WithoutStrategies, OwnOutcome, CanBeOn
  <2> QED
    BY <1>3, <2>1, OutcomeTypes
<1>6. CASE NoStrategyLeft(c)
  <2>1. Finish(c, Off) /\ f.strategies # <<>> /\ Top(c).index > Len(f.strategies)
    BY <1>6 DEF NoStrategyLeft
  <2>2. DOMAIN f.strategies \subseteq 1 .. Top(c).index - 1
    BY <1>2, <2>1, FeatureParts
  <2>3. \A d \in seen[c] : seen[c] = {d} => OwnOutcome(d, f) = Off
    BY <1>2, <2>1, <2>2, OutcomeOfNone
  <2> QED
    BY <1>3, <2>1, <2>3, OutcomeTypes
<1> QED
  BY <1>4, <1>5, <1>6

\* A strategy applies, or names a segment that is lost.
LEMMA StrategySound ==
  ASSUME TypeInv, AnswerInv, NEW c \in Callers,
         MissSegment(c) \/ ApplyPlainStrategy(c) \/ ApplyStrategyWithVariants(c)
  PROVE  AnswerInv'
<1> DEFINE f == Feature(c)
           strategy == Strategy(c)
<1>1. Trying(c) /\ UNCHANGED <<store, seen>> /\ strategy.known
  BY DEF MissSegment, ApplyPlainStrategy, ApplyStrategyWithVariants, Satisfied, Unshared
<1>2. /\ stack[c] # <<>> /\ Top(c).step = "strategies" /\ f.enabled
      /\ f = Top(c).feature /\ strategy \in StrategyType
  BY <1>1, TriedStrategy DEF Feature, Trying
<1>3. ASSUME NEW outcome \in OutcomeType, Finish(c, outcome),
             outcome.enabled => CanBeOn(seen[c], f),
             \A d \in seen[c] : seen[c] = {d} => AcceptedOutcome(d, f) = outcome
      PROVE  AnswerInv'
  BY <1>1, <1>2, <1>3, SettledReturn DEF Settles
<1>7. ASSUME ~SegmentMissing(strategy, segments), SegmentMet(strategy, segments), strategy.met,
             strategy.variants # NoVariants => strategy.groupId
      PROVE  CanBeOn(seen[c], f)
  <2>1. Applies(seen[c], strategy)
    BY <1>1, <1>2, <1>7, Innermost DEF Applies
  <2>2. Top(c).index \in DOMAIN f.strategies /\ strategy = f.strategies[Top(c).index]
    BY <1>1, TriedStrategy DEF Strategy
  <2>3. \A j \in 1 .. Top(c).index - 1 : Passes(seen[c], f.strategies[j])
    BY <1>2, Innermost DEF Sound, Passed
  <2> QED
    BY <1>2, <2>1, <2>2, <2>3 DEF CanBeOn
<1>4. CASE MissSegment(c)
  <2>1. Finish(c, Off) /\ SegmentMissing(strategy, segments)
    BY <1>4 DEF MissSegment
  <2>2. \A d \in seen[c] : seen[c] = {d} => AcceptedOutcome(d, f) = Off
    BY <1>1, <2>1, StrategyDecides
  <2> QED
    BY <1>3, <2>1, <2>2, OutcomeTypes
<1>5. CASE ApplyPlainStrategy(c)
  <2>1. /\ Finish(c, On(Nil)) /\ strategy.variants = NoVariants
        /\ ~SegmentMissing(strategy, segments) /\ SegmentMet(strategy, segments) /\ strategy.met
    BY <1>5 DEF ApplyPlainStrategy, Satisfied
  <2>2. \A d \in seen[c] : seen[c] = {d} => AcceptedOutcome(d, f) = On(Nil)
    BY <1>1, <2>1, StrategyDecides
  <2> QED
    BY <1>3, <1>7, <2>1, <2>2, OutcomeTypes
<1>6. CASE ApplyStrategyWithVariants(c)
  <2>1. /\ Finish(c, IF strategy.groupId THEN On(Picked(strategy.variants)) ELSE Off)
        /\ strategy.variants # NoVariants
        /\ ~SegmentMissing(strategy, segments) /\ SegmentMet(strategy, segments) /\ strategy.met
    BY <1>6 DEF ApplyStrategyWithVariants, Satisfied
  <2>2. \A d \in seen[c] : seen[c] = {d} =>
          AcceptedOutcome(d, f) = IF strategy.groupId THEN On(Picked(strategy.variants)) ELSE Off
    BY <1>1, <2>1, StrategyDecides
  <2>3. strategy.variants \in VariantNames \cup {ZeroWeights}
    BY <1>2, <2>1 DEF StrategyType
  <2>4. (IF strategy.groupId THEN On(Picked(strategy.variants)) ELSE Off) \in OutcomeType
    BY <2>3, OutcomeTypes
  <2>5. (IF strategy.groupId THEN On(Picked(strategy.variants)) ELSE Off).enabled
          => CanBeOn(seen[c], f)
    BY <1>7, <2>1 DEF Off
  <2> QED
    BY <1>3, <2>1, <2>2, <2>4, <2>5
<1> QED
  BY <1>4, <1>5, <1>6


\* getVariantWithoutMetrics, after isEnabled.
LEMMA VariantSound ==
  ASSUME TypeInv, AnswerInv, NEW c \in Callers,
         VariantOfDisabled(c) \/ VariantOfStrategy(c) \/ VariantOfFeature(c)
  PROVE  AnswerInv'
<1> DEFINE r == call[c]
           docs == seen[c]
           answer == IF ~r.enabled THEN IF r.fallback THEN Fallback ELSE Disabled
                     ELSE IF r.variant # Nil THEN r.variant
                     ELSE IF r.feature.variants = NoVariants
                          THEN IF r.fallback THEN Fallback ELSE FeatureOn
                     ELSE Picked(r.feature.variants)
           next == [r EXCEPT !.step = "returned", !.variant = answer]
<1>1. /\ r.step = "deciding" /\ UNCHANGED <<store, stack, seen>>
      /\ call' = [call EXCEPT ![c].step = "returned", ![c].variant = answer]
  BY DEF VariantOfDisabled, VariantOfStrategy, VariantOfFeature, Answers, FallbackVariant, Deciding
<1>2. r \in CallRecord /\ call \in [Callers -> CallRecord]
  BY DEF TypeInv, TypeOK
<1>3. r.method = "GetVariant"
  BY <1>1 DEF TypeInv, MethodInv, Deciding
<1>4. DecisionSound(docs, r) /\ FramesSound(docs, stack[c]) /\ stack[c] = <<>>
  BY <1>1 DEF AnswerInv, CallSound
<1> HIDE DEF answer
<1>5. /\ next.step = "returned" /\ next.method = r.method /\ next.name = r.name
      /\ next.fallback = r.fallback /\ next.variant = answer
  BY <1>2 DEF CallRecord
<1>6. call' = [call EXCEPT ![c] = next]
  BY <1>1, <1>2
<1> HIDE DEF next
<1>7. call'[c] = next /\ \A b \in Callers \ {c} : call'[b] = call[b]
  BY <1>2, <1>6
<1>8. ASSUME NEW d \in docs, docs = {d} PROVE answer = AcceptedVariant(d, r.name, r.fallback)
  <2>1. r.enabled = AcceptedOn(d, r.name, FALSE)
    BY <1>4, <1>8 DEF DecisionSound
  <2>2. r.enabled => /\ r.feature = d.features[r.name]
                     /\ r.variant = AcceptedOutcome(d, d.features[r.name]).variant
    BY <1>4, <1>8 DEF DecisionSound
  <2>3. CASE ~r.enabled
    BY <2>1, <2>3 DEF answer, AcceptedVariant
  <2>4. CASE r.enabled
    BY <2>1, <2>2, <2>4 DEF answer, AcceptedVariant
  <2> QED
    BY <2>3, <2>4
<1>9. AnswerSound(docs, next)
  BY <1>3, <1>5, <1>8 DEF AnswerSound
<1>10. CallSound(seen'[c], stack'[c], call'[c])
  BY <1>1, <1>4, <1>5, <1>7, <1>9 DEF CallSound
<1> QED
  BY <1>1, <1>4, <1>7, <1>10, OneCall DEF store

\* An install adds to what the running evaluations have seen.
LEMMA InstallSound ==
  ASSUME TypeInv, AnswerInv, NEW d \in Documents, InstallSegments(d) PROVE AnswerInv'
<1> SUFFICES ASSUME NEW c \in Callers
             PROVE  /\ CallSound(seen[c], stack[c], call[c])'
                    /\ stack'[c] # <<>> => {toggles', segments'} \subseteq seen'[c]
  BY DEF AnswerInv
<1>1. /\ UNCHANGED <<toggles, call, stack>> /\ segments' = d
      /\ seen'[c] = IF stack[c] = <<>> THEN seen[c] ELSE seen[c] \cup {d}
  BY DEF InstallSegments
<1>2. /\ CallSound(seen[c], stack[c], call[c])
      /\ stack[c] # <<>> => {toggles, segments} \subseteq seen[c]
  BY DEF AnswerInv
<1>3. CASE stack[c] = <<>>
  BY <1>1, <1>2, <1>3
<1>4. CASE stack[c] # <<>>
  <2>1. FramesSound(seen'[c], stack[c])
    BY <1>1, <1>2, <1>4, FramesGrow DEF CallSound
  <2> QED
    BY <1>1, <1>2, <1>4, <2>1 DEF CallSound
<1> QED
  BY <1>3, <1>4

\* A call begins with what is in memory.
LEMMA CallBegins ==
  ASSUME TypeInv, AnswerInv, NEW c \in Callers, NEW name \in Names,
         NEW method \in {"IsEnabled", "GetVariant"}, NEW fallback \in BOOLEAN,
         Call(c, name, method, fallback)
  PROVE  AnswerInv'
<1> DEFINE record == [Idle EXCEPT !.step = "running", !.name = name, !.method = method,
                                  !.fallback = fallback]
           frames == <<Opened(name)>>
<1>1. /\ call' = [call EXCEPT ![c] = record] /\ stack' = [stack EXCEPT ![c] = frames]
      /\ seen' = [seen EXCEPT ![c] = {toggles, segments}] /\ UNCHANGED <<toggles, segments>>
  BY DEF Call, store
<1>2. record.step = "running" /\ record.name = name
  BY DEF Idle
<1>3. Len(frames) = 1 /\ frames[1] = Opened(name) /\ Opened(name).name = name
  BY DEF Opened
<1>4. Sound({toggles, segments}, Opened(name))
  BY DEF Sound, Opened
<1> HIDE DEF record, frames
<1>5. FramesSound({toggles, segments}, frames)
  BY <1>3, <1>4 DEF FramesSound
<1>6. /\ call'[c] = record /\ stack'[c] = frames /\ seen'[c] = {toggles, segments}
      /\ \A b \in Callers \ {c} : stack'[b] = stack[b] /\ call'[b] = call[b] /\ seen'[b] = seen[b]
  BY <1>1 DEF TypeInv, TypeOK
<1>7. CallSound(seen'[c], stack'[c], call'[c])
  BY <1>2, <1>3, <1>5, <1>6 DEF CallSound
<1> QED
  BY <1>1, <1>6, <1>7, OneCall

LEMMA InitSound == Init => AnswerInv
<1> SUFFICES ASSUME Init, NEW c \in Callers
             PROVE  CallSound(seen[c], stack[c], call[c]) /\ stack[c] = <<>>
  BY DEF AnswerInv
<1>1. stack[c] = <<>> /\ call[c].step = "idle"
  BY DEF Init, Idle
<1>2. FramesSound(seen[c], <<>>)
  BY DEF FramesSound
<1> QED
  BY <1>1, <1>2 DEF CallSound

LEMMA NextSound == TypeInv /\ AnswerInv /\ [Next]_vars => AnswerInv'
<1> SUFFICES ASSUME TypeInv, AnswerInv, [Next]_vars PROVE AnswerInv'
  OBVIOUS
<1>1. ASSUME NEW d \in Updates[toggles], InstallSegments(d) PROVE AnswerInv'
  <2> d \in Documents
    BY EvaluationAssumption DEF TypeInv, TypeOK
  <2> QED
    BY <1>1, InstallSound
<1>2. CASE ResetToggles
  BY <1>2 DEF ResetToggles, AnswerInv
<1>3. ASSUME NEW c \in Callers, Evaluate(c) PROVE AnswerInv'
  BY <1>3, ResolveSound, AskParentSound, UnsatisfiedSound, PassStrategySound, NoStrategySound,
     StrategySound, VariantSound DEF Evaluate
<1>4. ASSUME NEW c \in Callers, NEW name \in Names,
             NEW method \in {"IsEnabled", "GetVariant"}, NEW fallback \in BOOLEAN,
             Call(c, name, method, fallback)
      PROVE  AnswerInv'
  BY <1>4, CallBegins
<1>5. CASE UNCHANGED vars
  BY <1>5 DEF vars, AnswerInv
<1> QED
  BY <1>1, <1>2, <1>3, <1>4, <1>5 DEF Next

LEMMA Answered == Spec => []AnswerInv
<1>1. TypeInv /\ AnswerInv /\ [Next]_vars => (TypeInv /\ AnswerInv)'
  BY NextTypes, NextSound
<1> QED
  BY <1>1, InitTypes, InitSound, PTL DEF Spec

\* What the code accepts of one document is what it is meant to, where the
\* variants of no dependency are overlooked.
LEMMA OwnOutcomes ==
  ASSUME NEW d, NEW f
  PROVE  /\ OwnOutcome(d, f).enabled \in BOOLEAN
         /\ OwnOutcome(d, f).enabled /\ OwnOutcome(d, f).variant = Nil
              => OwnOutcome(d, f) = On(Nil)
<1>1. OwnOutcome(d, f) = Off \/ \E v : OwnOutcome(d, f) = On(v)
  BY Zenon DEF OwnOutcome
<1> DEFINE own == OwnOutcome(d, f)
<1> HIDE DEF own
<1>2. own = Off \/ \E v : own = On(v)
  BY <1>1 DEF own
<1>3. CASE own = Off
  BY <1>3 DEF Off, own
<1>4. ASSUME NEW v, own = On(v)
      PROVE  own.enabled = TRUE /\ own.variant = v
  BY <1>4 DEF On
<1> QED
  BY <1>2, <1>3, <1>4 DEF own

LEMMA AcceptsWhatHolds ==
  ASSUME NEW d, NEW dependency \in DependencyType, ~OverlooksVariants(d, dependency)
  PROVE  Accepts(d, dependency) <=> ParentHolds(d, dependency)
<1> DEFINE parent == d.features[dependency.feature]
           own    == OwnOutcome(d, parent)
<1>1. own.enabled \in BOOLEAN /\ (own.enabled /\ own.variant = Nil => own = On(Nil))
  BY OwnOutcomes
<1>2. dependency.enabled \in BOOLEAN
  BY DEF DependencyType
<1>3. own.variant # Nil => ResolvedVariant(d, parent) = own.variant
  BY DEF ResolvedVariant
<1>4. /\ dependency.enabled /\ dependency.variants # {}
      /\ dependency.feature \in DOMAIN d.features /\ own = On(Nil)
      => ResolvedVariant(d, parent) \in dependency.variants
  BY DEF OverlooksVariants
<1> HIDE DEF own
<1>5. /\ Accepts(d, dependency) <=>
           /\ dependency.feature \in DOMAIN d.features /\ parent.dependencies = <<>>
           /\ own.enabled = dependency.enabled
           /\ own.enabled /\ dependency.variants # {}
                => own.variant \in dependency.variants \cup {Nil}
      /\ ParentHolds(d, dependency) <=>
           /\ dependency.feature \in DOMAIN d.features /\ parent.dependencies = <<>>
           /\ own.enabled = dependency.enabled
           /\ own.enabled /\ dependency.variants # {}
                => ResolvedVariant(d, parent) \in dependency.variants
  BY DEF Accepts, ParentHolds, own
<1> HIDE DEF parent
<1> QED
  BY <1>1, <1>2, <1>3, <1>4, <1>5

LEMMA AcceptedAnswers ==
  ASSUME NEW d \in Documents, NEW name,
         name \in DOMAIN d.features =>
           LET dependencies == d.features[name].dependencies
           IN  \A i \in DOMAIN dependencies : ~OverlooksVariants(d, dependencies[i])
  PROVE  \A fallback : /\ AcceptedOn(d, name, fallback) = IsOn(d, name, fallback)
                       /\ AcceptedVariant(d, name, fallback) = VariantFor(d, name, fallback)
<1> DEFINE f == d.features[name]
<1>1. ASSUME name \in DOMAIN d.features PROVE AcceptedOutcome(d, f) = Outcome(d, f)
  <2>1. \A i \in DOMAIN f.dependencies : f.dependencies[i] \in DependencyType
    BY <1>1, DocumentFeatures, FeatureParts
  <2>2. \A i \in DOMAIN f.dependencies :
          Accepts(d, f.dependencies[i]) <=> ParentHolds(d, f.dependencies[i])
    BY <1>1, <2>1, AcceptsWhatHolds
  <2> HIDE DEF f
  <2> QED
    BY <2>2 DEF AcceptedOutcome, Outcome
<1>2. \A fallback : AcceptedOn(d, name, fallback) = IsOn(d, name, fallback)
  BY <1>1 DEF AcceptedOn, IsOn
<1>3. ASSUME NEW fallback
      PROVE  AcceptedVariant(d, name, fallback) = VariantFor(d, name, fallback)
  <2>1. CASE name \in DOMAIN d.features
    BY <1>1, <1>2, <2>1 DEF AcceptedVariant, VariantFor
  <2>2. CASE name \notin DOMAIN d.features
    <3>1. ~AcceptedOn(d, name, FALSE) /\ ~IsOn(d, name, FALSE)
      BY <2>2 DEF AcceptedOn, IsOn
    <3> QED
      BY <3>1 DEF AcceptedVariant, VariantFor
  <2> QED
    BY <2>1, <2>2
<1> QED
  BY <1>2, <1>3

\* An answer that no install overtook is that of the document in memory: what
\* the toggle, its parents and its strategies say there, whatever the order in
\* which the activations read them, unless the variants that a dependency asks
\* for are overlooked.
THEOREM OneDocument == Spec => []AnswerOfOneDocument
<1>1. TypeInv /\ AnswerInv => AnswerOfOneDocument
  <2> SUFFICES ASSUME TypeInv, AnswerInv, NEW c \in Callers, NEW d \in seen[c], seen[c] = {d},
                      call[c].name \in DOMAIN d.features =>
                        LET dependencies == d.features[call[c].name].dependencies
                        IN  \A i \in DOMAIN dependencies : ~OverlooksVariants(d, dependencies[i])
               PROVE  /\ Returned(c, "IsEnabled") =>
                           call[c].enabled = IsOn(d, call[c].name, call[c].fallback)
                      /\ Returned(c, "GetVariant") =>
                           call[c].variant = VariantFor(d, call[c].name, call[c].fallback)
    BY DEF AnswerOfOneDocument
  <2>1. /\ Returned(c, "IsEnabled") =>
              call[c].enabled = AcceptedOn(d, call[c].name, call[c].fallback)
        /\ Returned(c, "GetVariant") =>
              call[c].variant = AcceptedVariant(d, call[c].name, call[c].fallback)
    BY DEF AnswerInv, CallSound, AnswerSound, Returned
  <2>2. d \in Documents
    BY DEF TypeInv, TypeOK
  <2> QED
    BY <2>1, <2>2, AcceptedAnswers
<1>2. TypeInv /\ [Next]_vars => TypeInv'
  BY NextTypes
<1> QED
  BY <1>1, <1>2, InitTypes, Answered, PTL DEF Spec

\* However many documents replace one another during a call, a toggle is on
\* only if it is switched on in one of them and its strategies let the call in
\* with segments of them, and so it is for every parent it asks for there.
THEOREM WitnessedAnswers == Spec => []EnabledHasWitness
<1>1. AnswerInv => EnabledHasWitness
  <2> SUFFICES ASSUME AnswerInv, NEW c \in Callers, Returned(c, "IsEnabled"), call[c].enabled,
                      call[c].feature # Nil
               PROVE  \E d \in seen[c] :
                        /\ call[c].name \in DOMAIN d.features
                        /\ CanBeOn(seen[c], d.features[call[c].name])
                        /\ LET f == d.features[call[c].name]
                           IN  Witnessed(seen[c], f, DOMAIN f.dependencies)
    BY DEF EnabledHasWitness, Witnessed, SwitchedOn
  <2> QED
    BY DEF AnswerInv, CallSound, AnswerSound, Returned
<1> QED
  BY <1>1, Answered, PTL

-----------------------------------------------------------------------------
(***************************************************************************)
(* The steps of a call.                                                    *)
(***************************************************************************)

\* An activation has less left when it is at its strategies than at a parent.
LEMMA ResumedNearer ==
  ASSUME NEW frame \in OpenFrame, frame.step = "parents",
         frame.index \in DOMAIN frame.feature.dependencies, NEW outcome
  PROVE  Nearer(frame, Resumed(frame, outcome))
<1> DEFINE f == frame.feature
           n == frame.index
           next == Resumed(frame, outcome)
           last == n = Len(f.dependencies)
<1>1. frame \in Frame /\ f \in FeatureType /\ n \in Nat \ {0}
  BY DEF OpenFrame, Frame
<1>2. /\ Len(f.dependencies) \in Nat /\ Len(f.strategies) \in Nat
      /\ n \in 1 .. Len(f.dependencies)
  BY <1>1, FeatureParts
<1>3. Left(frame) = Len(f.strategies) + 2 + Len(f.dependencies) - n
  BY DEF Left
<1>4. CASE ~DependencyHolds(f.dependencies[n], outcome)
  <2>1. next = [frame EXCEPT !.step = "unsatisfied"]
    BY <1>4 DEF Resumed
  <2>2. next.step = "unsatisfied" /\ next.feature = f /\ next.name = frame.name
    BY <2>1, <1>1 DEF Frame
  <2> HIDE DEF next
  <2>3. Left(next) = 0
    BY <2>2 DEF Left
  <2> QED
    BY <1>2, <1>3, <2>2, <2>3 DEF Nearer, next
<1>5. CASE DependencyHolds(f.dependencies[n], outcome)
  <2>1. next = [frame EXCEPT !.step = IF last THEN "strategies" ELSE "parents",
                             !.index = IF last THEN 1 ELSE n + 1]
    BY <1>5 DEF Resumed
  <2>2. /\ next.step = IF last THEN "strategies" ELSE "parents"
        /\ next.index = IF last THEN 1 ELSE n + 1
        /\ next.feature = f /\ next.name = frame.name
    BY <2>1, <1>1 DEF Frame
  <2> HIDE DEF next
  <2>3. Left(next) = IF last THEN Len(f.strategies) + 1 - 1
                     ELSE Len(f.strategies) + 2 + Len(f.dependencies) - (n + 1)
    BY <2>2 DEF Left
  <2>4. Left(next) >= 0 /\ Left(next) < Left(frame)
    <3> DEFINE strategies == Len(f.strategies)
               parents == Len(f.dependencies)
    <3>1. /\ strategies \in Nat /\ parents \in Nat /\ n \in Nat /\ n <= parents
          /\ Left(frame) = strategies + 2 + parents - n
          /\ last => Left(next) = strategies + 1 - 1
          /\ ~last => Left(next) = strategies + 2 + parents - (n + 1) /\ n # parents
      BY <1>2, <1>3, <2>3
    <3> HIDE DEF strategies, parents, n, last
    <3> QED
      BY <3>1
  <2> QED
    BY <2>2, <2>4 DEF Nearer, next
<1> QED
  BY <1>4, <1>5

LEMMA BecomesForward ==
  ASSUME TypeInv, NEW c \in Callers, stack[c] # <<>>, NEW frame \in OpenFrame,
         Becomes(c, frame), Nearer(Top(c), frame)
  PROVE  Forward(stack[c], stack'[c])
<1>1. /\ Len(stack'[c]) = Len(stack[c])
      /\ stack'[c][Len(stack[c])] = frame
      /\ \A i \in 1 .. Len(stack[c]) - 1 : stack'[c][i] = stack[c][i]
  BY BecomesStack DEF TypeInv, Inv
<1>2. Len(stack[c]) \in Nat \ {0}
  BY TopType DEF TypeInv, Inv
<1> QED
  BY <1>1, <1>2 DEF Forward, Top

LEMMA FinishForward ==
  ASSUME TypeInv, AnswerInv, NEW c \in Callers, stack[c] # <<>>, NEW outcome, Finish(c, outcome)
  PROVE  stack'[c] = <<>> \/ Forward(stack[c], stack'[c])
<1> DEFINE n == Len(stack[c])
<1>1. /\ Len(stack'[c]) = n - 1 /\ stack'[c] \in Seq(OpenFrame)
      /\ \A i \in 1 .. n - 2 : stack'[c][i] = stack[c][i]
      /\ n > 1 => stack'[c][n - 1] = Resumed(stack[c][n - 1], outcome)
  BY FinishStack DEF TypeInv, Inv
<1>2. n \in Nat \ {0} /\ stack[c] \in Seq(OpenFrame)
  BY TopType DEF TypeInv, Inv
<1>3. CASE n = 1
  BY <1>1, <1>3, EmptySeq
<1>4. CASE n > 1
  <2> DEFINE frame == stack[c][n - 1]
  <2>1. n - 1 \in 1 .. n
    BY <1>2, <1>4
  <2>2. frame \in OpenFrame
    BY <1>2, <2>1, ElementOfSeq
  <2>3. frame.step = "parents" /\ Sound(seen[c], frame)
    BY <1>2, <1>4, <2>1, Innermost DEF TypeInv, Inv, WaitInv, FramesSound
  <2>4. Nearer(frame, Resumed(frame, outcome))
    BY <2>2, <2>3, ResumedNearer DEF Sound
  <2> QED
    BY <1>1, <1>2, <1>4, <2>4 DEF Forward
<1> HIDE DEF n
<1> QED
  BY <1>2, <1>3, <1>4

LEMMA ResolveForward ==
  ASSUME TypeInv, AnswerInv, NEW c \in Callers, Resolve(c)
  PROVE  stack'[c] = <<>> \/ Forward(stack[c], stack'[c])
<1> DEFINE feature == toggles.features[Top(c).name]
           frame == [Top(c) EXCEPT !.feature = feature,
                                   !.step = IF feature.dependencies = <<>> THEN "strategies"
                                            ELSE "parents"]
<1>1. stack[c] # <<>> /\ Top(c).step = "resolving"
  BY DEF Resolve, At
<1>2. Top(c) \in OpenFrame /\ Sound(seen[c], Top(c))
  BY <1>1, Innermost
<1>3. CASE Top(c).name \in DOMAIN toggles.features /\ Becomes(c, frame)
  <2>1. feature \in FeatureType
    BY <1>3, DocumentFeatures DEF TypeInv, TypeOK
  <2>2. /\ frame \in OpenFrame /\ frame.name = Top(c).name /\ frame.feature = feature
        /\ frame.step = IF feature.dependencies = <<>> THEN "strategies" ELSE "parents"
        /\ frame.index = 1
    BY <1>1, <1>2, <2>1 DEF OpenFrame, Frame, Sound
  <2> HIDE DEF frame, feature
  <2>3. /\ Len(feature.dependencies) \in Nat /\ Len(feature.strategies) \in Nat
    BY <2>1, FeatureParts
  <2>4. Left(frame) >= 0
    <3>1. CASE frame.step = "strategies"
      <4>1. Left(frame) = Len(feature.strategies) + 1 - 1
        BY <2>2, <3>1 DEF Left
      <4> QED
        BY <2>3, <4>1
    <3>2. CASE frame.step = "parents"
      <4> DEFINE strategies == Len(feature.strategies)
                 parents == Len(feature.dependencies)
      <4>1. Left(frame) = strategies + 2 + parents - 1
        BY <2>2, <3>2 DEF Left
      <4>2. strategies \in Nat /\ parents \in Nat
        BY <2>3
      <4> HIDE DEF strategies, parents
      <4> QED
        BY <4>1, <4>2
    <3> QED
      BY <2>2, <3>1, <3>2
  <2>5. Nearer(Top(c), frame)
    BY <1>1, <2>2, <2>4 DEF Nearer
  <2> QED
    BY <1>1, <1>3, <2>2, <2>5, BecomesForward DEF frame, feature
<1>4. CASE \E outcome : Finish(c, outcome)
  BY <1>1, <1>4, FinishForward
<1> QED
  BY <1>3, <1>4 DEF Resolve

LEMMA AskParentForward ==
  ASSUME TypeInv, AnswerInv, NEW c \in Callers, AskParent(c)
  PROVE  stack'[c] = <<>> \/ Forward(stack[c], stack'[c])
<1> DEFINE parent == Top(c).feature.dependencies[Top(c).index].feature
<1>1. stack[c] # <<>>
  BY DEF AskParent, ParentAsked, At
<1>2. Len(stack[c]) \in Nat \ {0} /\ stack[c] \in Seq(OpenFrame)
  BY <1>1, Innermost
<1>3. CASE /\ parent \in DOMAIN toggles.features
           /\ stack' = [stack EXCEPT ![c] = Append(@, Opened(parent))]
  <2>1. parent \in Names
    BY <1>3, DocumentFeatures DEF TypeInv, TypeOK
  <2>2. Opened(parent) \in OpenFrame
    BY <2>1 DEF Opened, OpenFrame, Frame
  <2>3. stack'[c] = Append(stack[c], Opened(parent))
    BY <1>3 DEF TypeInv, TypeOK
  <2>4. /\ Len(stack'[c]) = Len(stack[c]) + 1
        /\ \A i \in 1 .. Len(stack[c]) : stack'[c][i] = stack[c][i]
    BY <1>2, <2>2, <2>3, AppendProperties
  <2> QED
    BY <1>2, <2>4 DEF Forward
<1>4. CASE \E outcome : Finish(c, outcome)
  BY <1>1, <1>4, FinishForward
<1> QED
  BY <1>3, <1>4 DEF AskParent, ParentAsked

LEMMA PassStrategyForward ==
  ASSUME TypeInv, AnswerInv, NEW c \in Callers, PassStrategy(c)
  PROVE  Forward(stack[c], stack'[c])
<1> DEFINE frame == [Top(c) EXCEPT !.index = @ + 1]
           f == Top(c).feature
<1>1. /\ stack[c] # <<>> /\ Top(c).step = "strategies" /\ Becomes(c, frame)
      /\ Top(c).index <= Len(f.strategies)
  BY DEF PassStrategy, NextStrategy, Trying, At, Feature
<1>2. Top(c) \in OpenFrame
  BY <1>1, Innermost
<1>3. f \in FeatureType /\ Top(c).index \in Nat \ {0}
  BY <1>1, <1>2 DEF OpenFrame, Frame
<1>4. /\ frame \in OpenFrame /\ frame.step = "strategies" /\ frame.name = Top(c).name
      /\ frame.feature = f /\ frame.index = Top(c).index + 1
  BY <1>1, <1>2, <1>3 DEF OpenFrame, Frame
<1> HIDE DEF frame
<1>5. /\ Left(frame) = Len(f.strategies) + 1 - (Top(c).index + 1)
      /\ Left(Top(c)) = Len(f.strategies) + 1 - Top(c).index
      /\ Len(f.strategies) \in Nat
  BY <1>1, <1>3, <1>4, FeatureParts DEF Left
<1>6. Nearer(Top(c), frame)
  BY <1>1, <1>3, <1>4, <1>5 DEF Nearer
<1> QED
  BY <1>1, <1>4, <1>6, BecomesForward

LEMMA EvaluateForward ==
  ASSUME TypeInv, AnswerInv, NEW c \in Callers, Evaluate(c), stack[c] # <<>>
  PROVE  stack'[c] \in {stack[c], <<>>} \/ Forward(stack[c], stack'[c])
<1>1. ASSUME NEW outcome, Finish(c, outcome)
      PROVE  stack'[c] = <<>> \/ Forward(stack[c], stack'[c])
  BY <1>1, FinishForward
<1>2. CASE Resolve(c) \/ AskParent(c) \/ PassStrategy(c)
  BY <1>2, ResolveForward, AskParentForward, PassStrategyForward
<1>3. CASE Unsatisfied(c)
  BY <1>1, <1>3 DEF Unsatisfied
<1>4. CASE SwitchedOff(c) \/ WithoutStrategies(c) \/ NoStrategyLeft(c)
  BY <1>1, <1>4 DEF SwitchedOff, WithoutStrategies, NoStrategyLeft
<1>5. CASE MissSegment(c) \/ ApplyPlainStrategy(c) \/ ApplyStrategyWithVariants(c)
  BY <1>1, <1>5 DEF MissSegment, ApplyPlainStrategy, ApplyStrategyWithVariants
<1>6. CASE VariantOfDisabled(c) \/ VariantOfStrategy(c) \/ VariantOfFeature(c)
  BY <1>6 DEF VariantOfDisabled, VariantOfStrategy, VariantOfFeature, Answers
<1> QED
  BY <1>2, <1>3, <1>4, <1>5, <1>6 DEF Evaluate

\* A caller's stack is moved by its own evaluation only.
LEMMA StackOfOthers ==
  ASSUME TypeInv, NEW c \in Callers, NEW b \in Callers \ {c},
         \/ Evaluate(b)
         \/ \E name \in Names, method \in {"IsEnabled", "GetVariant"}, fallback \in BOOLEAN :
              Call(b, name, method, fallback)
  PROVE  stack'[c] = stack[c]
<1> USE DEF TypeInv, TypeOK
<1>1. ASSUME NEW outcome, Finish(b, outcome) PROVE stack'[c] = stack[c]
  BY <1>1 DEF Finish
<1>2. ASSUME NEW frame, Becomes(b, frame) PROVE stack'[c] = stack[c]
  BY <1>2 DEF Becomes
<1>3. CASE Resolve(b)
  BY <1>1, <1>2, <1>3 DEF Resolve
<1>4. CASE AskParent(b)
  BY <1>1, <1>4 DEF AskParent, ParentAsked
<1>5. CASE PassStrategy(b)
  BY <1>2, <1>5 DEF PassStrategy, NextStrategy
<1>6. CASE Unsatisfied(b) \/ SwitchedOff(b) \/ WithoutStrategies(b) \/ NoStrategyLeft(b)
  BY <1>1, <1>6 DEF Unsatisfied, SwitchedOff, WithoutStrategies, NoStrategyLeft
<1>7. CASE MissSegment(b) \/ ApplyPlainStrategy(b) \/ ApplyStrategyWithVariants(b)
  BY <1>1, <1>7 DEF MissSegment, ApplyPlainStrategy, ApplyStrategyWithVariants
<1>8. CASE VariantOfDisabled(b) \/ VariantOfStrategy(b) \/ VariantOfFeature(b)
  BY <1>8 DEF VariantOfDisabled, VariantOfStrategy, VariantOfFeature, Answers
<1>9. CASE \E name \in Names, method \in {"IsEnabled", "GetVariant"}, fallback \in BOOLEAN :
             Call(b, name, method, fallback)
  BY <1>9 DEF Call
<1> QED
  BY <1>3, <1>4, <1>5, <1>6, <1>7, <1>8, <1>9 DEF Evaluate

\* Every step of a call brings it nearer to its answer, whatever the documents
\* and however often they replace one another during the call: no activation
\* looks at a parent or a strategy a second time.
THEOREM Progress == Spec => EvaluationAdvances
<1>1. TypeInv /\ AnswerInv /\ [Next]_vars =>
        [\A c \in Callers : stack[c] # <<>> /\ stack'[c] \notin {stack[c], <<>>} =>
           Forward(stack[c], stack'[c])]_vars
  <2> SUFFICES ASSUME TypeInv, AnswerInv, [Next]_vars, NEW c \in Callers, stack[c] # <<>>
               PROVE  stack'[c] \in {stack[c], <<>>} \/ Forward(stack[c], stack'[c])
    OBVIOUS
  <2>1. CASE UNCHANGED vars \/ ResetToggles \/ \E d \in Updates[toggles] : InstallSegments(d)
    BY <2>1 DEF vars, ResetToggles, InstallSegments
  <2>2. CASE Evaluate(c)
    BY <2>2, EvaluateForward
  <2>3. ASSUME NEW b \in Callers \ {c},
               \/ Evaluate(b)
               \/ \E name \in Names, method \in {"IsEnabled", "GetVariant"},
                     fallback \in BOOLEAN : Call(b, name, method, fallback)
        PROVE  stack'[c] = stack[c]
    BY <2>3, StackOfOthers
  <2>4. ~\E name \in Names, method \in {"IsEnabled", "GetVariant"}, fallback \in BOOLEAN :
           Call(c, name, method, fallback)
    BY Innermost DEF Call
  <2> QED
    BY <2>1, <2>2, <2>3, <2>4 DEF Next
<1>2. Spec => []TypeInv
  <2>1. TypeInv /\ [Next]_vars => TypeInv'
    BY NextTypes
  <2> QED
    BY <2>1, InitTypes, PTL DEF Spec
<1> QED
  BY <1>1, <1>2, Answered, PTL DEF Spec, EvaluationAdvances
==============================================================================
