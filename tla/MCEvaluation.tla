---------------------------- MODULE MCEvaluation -----------------------------
EXTENDS Evaluation, TLC

Toggle(enabled, dependencies, strategies, variants) ==
  [enabled |-> enabled, dependencies |-> dependencies, strategies |-> strategies,
   variants |-> variants]

Apply(met, segment, variants, groupId) ==
  [known |-> TRUE, met |-> met, segment |-> segment, variants |-> variants, groupId |-> groupId]

Needs(name, enabled, variants) ==
  [feature |-> name, enabled |-> enabled, variants |-> variants]

Unknown == [Apply(TRUE, 1, NoVariants, FALSE) EXCEPT !.known = FALSE]
Plain   == Apply(TRUE, Nil, NoVariants, FALSE)

Document(features, segs) == [features |-> features, segments |-> segs]

\* No segment 1, or one that the context meets or does not meet.
SegmentMaps == {<<>>, 1 :> TRUE, 1 :> FALSE}

-----------------------------------------------------------------------------
\* One toggle, with up to two strategies of every sort, or switched off with one.
StrategySorts ==
  {Unknown, Plain, Apply(FALSE, Nil, NoVariants, FALSE), Apply(TRUE, 1, NoVariants, FALSE),
   Apply(FALSE, 1, "x", TRUE), Apply(TRUE, Nil, "x", TRUE), Apply(TRUE, 1, "x", FALSE),
   Apply(TRUE, Nil, ZeroWeights, TRUE)}

StrategyLists == UNION {[1 .. n -> StrategySorts] : n \in 0 .. 2}

Alone ==
  {Document("a" :> Toggle(TRUE, <<>>, list, variants), map) :
     list \in StrategyLists, variants \in {NoVariants, "y"}, map \in SegmentMaps}
    \cup {Document("a" :> Toggle(FALSE, <<>>, <<s>>, variants), map) :
            s \in StrategySorts, variants \in {NoVariants, "y"}, map \in SegmentMaps}

\* Two toggles: one or two dependencies of "a" on "b", which may be missing,
\* depend on "a" itself, and have variants of both sorts.
ParentSorts ==
  {Toggle(enabled, dependencies, list, variants) :
     enabled \in BOOLEAN, dependencies \in {<<>>, <<Needs("a", TRUE, {})>>},
     list \in {<<>>, <<Apply(TRUE, 1, NoVariants, FALSE)>>, <<Apply(TRUE, Nil, "x", TRUE)>>},
     variants \in {NoVariants, "y"}}

DependencyLists ==
  {<<Needs("b", enabled, vs)>> : enabled \in BOOLEAN, vs \in {{}, {"x"}, {"y"}}}
    \cup {<<Needs("b", TRUE, {"x"}), Needs("b", TRUE, {"x", "y"})>>,
          <<Needs("b", TRUE, {}), Needs("b", FALSE, {})>>,
          <<Needs("b", TRUE, {}), Needs("c", TRUE, {})>>}

Related ==
  {Document(("a" :> Toggle(TRUE, list, <<>>, NoVariants)) @@ ("b" :> parent), map) :
     list \in DependencyLists, parent \in ParentSorts, map \in SegmentMaps}

Orphans == {Document("a" :> Toggle(TRUE, list, <<>>, NoVariants), <<>>) : list \in DependencyLists}

-----------------------------------------------------------------------------
\* Documents that follow one another: toggles switched off, dependencies that
\* appear and turn round, a segment that goes with the strategy naming it, or
\* that the context meets in one document only, before another strategy.
Leaf(enabled) == Toggle(enabled, <<>>, <<Apply(TRUE, 1, NoVariants, FALSE)>>, NoVariants)
Child(parent) == Toggle(TRUE, <<Needs(parent, TRUE, {})>>, <<Plain>>, NoVariants)

Successive ==
  {Document(("a" :> Child("b")) @@ ("b" :> Leaf(TRUE)),  1 :> TRUE),
   Document(("a" :> Child("b")) @@ ("b" :> Leaf(FALSE)), 1 :> TRUE),
   Document(("a" :> Leaf(TRUE)) @@ ("b" :> Child("a")),  1 :> TRUE),
   Document(("a" :> Child("b")) @@ ("b" :> Child("a")),  1 :> TRUE),
   Document(("a" :> Child("b")) @@ ("b" :> Toggle(TRUE, <<>>,
              <<Apply(TRUE, 1, NoVariants, FALSE), Apply(FALSE, Nil, NoVariants, FALSE)>>,
              NoVariants)), 1 :> FALSE),
   Document(("a" :> Toggle(FALSE, <<Needs("b", TRUE, {})>>, <<>>, NoVariants))
              @@ ("b" :> Toggle(TRUE, <<>>, <<>>, ZeroWeights)), <<>>)}

AllDocuments == Alone \cup Related \cup Orphans \cup Successive

\* Only the last family is installed, one document of it after another.
UpdatesOfSuccessive == [d \in Documents |-> IF d \in Successive THEN Successive ELSE {}]

\* A toggle whose variants weigh nothing.
Weightless == {Document("a" :> Toggle(TRUE, <<>>, <<>>, ZeroWeights), <<>>)}

\* Documents that are never replaced.
NoUpdates == [d \in Documents |-> {}]
==============================================================================
