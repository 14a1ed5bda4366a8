---------------------------- MODULE MetricsProofs ----------------------------
(***************************************************************************)
(* The counts of Metrics, for every set of toggles, variants, callers and  *)
(* status codes, and any number of calls.                                  *)
(***************************************************************************)
EXTENDS Metrics, TLAPS

-----------------------------------------------------------------------------
(***************************************************************************)
(* Tallies.                                                                *)
(***************************************************************************)

\* An empty bucket has 0 everywhere.
LEMMA NothingTally == Nothing \in Tally /\ \A c \in Cells : Nothing[c] = 0
BY DEF Nothing, Tally

\* m.add changes one cell.
LEMMA BumpTally ==
  ASSUME NEW tally \in Tally, NEW cell \in Cells, NEW n \in Nat
  PROVE  /\ Bump(tally, cell, n) \in Tally
         /\ \A c \in Cells :
              Bump(tally, cell, n)[c] = IF c = cell THEN tally[c] + n ELSE tally[c]
BY DEF Bump, Tally

\* The server adds a payload cell by cell.
LEMMA SumTally ==
  ASSUME NEW a \in Tally, NEW b \in Tally
  PROVE  /\ Sum2(a, b) \in Tally
         /\ \A c \in Cells : Sum2(a, b)[c] = a[c] + b[c]
BY DEF Sum2, Tally

\* The cells the calls and the loop of sendMetrics touch.
LEMMA CellTyping ==
  /\ \A t \in Toggles, answer \in Answers : <<t, answer>> \in AnswerCells
  /\ \A t \in Toggles, v \in Variants : <<t, v>> \in Cells \ AnswerCells
  /\ AnswerCells \subseteq Cells
BY MetricsAssumption DEF Cells, AnswerCells

\* AfterRefusal, Success and DecrementSkips keep the counters in range.
LEMMA BackoffTyping ==
  ASSUME NEW b \in BackoffState, NEW status
  PROVE  /\ AfterRefusal(b, status) \in BackoffState
         /\ Success(b) \in BackoffState
         /\ DecrementSkips(b) \in BackoffState
BY MaxSkipsAssumption
   DEF BackoffState, AfterRefusal, Success, DecrementSkips, ConfigurationError,
       BackOff, SkipEqually

-----------------------------------------------------------------------------
(***************************************************************************)
(* Types.                                                                  *)
(***************************************************************************)
LEMMA InitTypeOK == Init => TypeOK
<1> SUFFICES ASSUME Init PROVE TypeOK
  OBVIOUS
<1>1. backoff \in BackoffState
  BY MaxSkipsAssumption DEF Init, Steady, BackoffState, SkipEqually
<1>2. early \in BOOLEAN /\ inflightEarly \in BOOLEAN /\ unanswered \in BOOLEAN
  BY DEF Init
<1>3. pending \in [Callers -> Pending \cup {Done}]
  BY DEF Init
<1>4. calls \in 0 .. MaxCalls
  BY MetricsAssumption DEF Init
<1>5. /\ bucket \in Tally /\ inflight \in Tally
      /\ counted \in Tally /\ received \in Tally
  BY NothingTally DEF Init
<1> QED
  BY <1>1, <1>2, <1>3, <1>4, <1>5 DEF Init, TypeOK

\* The cell that countVariants increments after the channel.
LEMMA CountedVariant ==
  ASSUME TypeOK, NEW c \in Callers, pending[c].step = "variant"
  PROVE  <<pending[c].toggle, pending[c].variant>> \in Cells \ AnswerCells
<1>1. pending[c] \in BeforeVariant
  BY DEF TypeOK, Pending, BeforeChannel, Done
<1> QED
  BY <1>1, CellTyping DEF BeforeVariant

LEMMA NextTypeOK == TypeOK /\ [Next]_vars => TypeOK'
<1> SUFFICES ASSUME TypeOK, [Next]_vars PROVE TypeOK'
  OBVIOUS
<1> USE MetricsAssumption DEF TypeOK, history
<1>1. ASSUME NEW c \in Callers, NEW t \in Toggles, NEW answer \in Answers,
             NEW v \in Variants \cup {NoVariant}, Count(c, t, answer, v)
      PROVE  TypeOK'
  <2>1. [step |-> "channel", toggle |-> t, variant |-> v] \in Pending
    BY DEF Pending, BeforeChannel
  <2>2. bucket' \in Tally /\ counted' \in Tally
    BY <1>1, BumpTally, CellTyping DEF Count
  <2>3. pending' \in [Callers -> Pending \cup {Done}]
    BY <1>1, <2>1 DEF Count
  <2> QED
    BY <1>1, <2>2, <2>3 DEF Count
<1>2. ASSUME NEW c \in Callers, HandOver(c) PROVE TypeOK'
  <2>1. pending[c] \in BeforeChannel
    BY <1>2 DEF HandOver, Pending, BeforeVariant, Done
  <2>2. pending[c].variant # NoVariant
          => [pending[c] EXCEPT !.step = "variant"] \in Pending
    BY <2>1 DEF Pending, BeforeChannel, BeforeVariant
  <2>3. pending' \in [Callers -> Pending \cup {Done}]
    BY <1>2, <2>2 DEF HandOver
  <2> QED
    BY <1>2, <2>3 DEF HandOver
<1>3. ASSUME NEW c \in Callers, CountVariant(c) PROVE TypeOK'
  <2>1. <<pending[c].toggle, pending[c].variant>> \in Cells
    BY <1>3, CountedVariant DEF CountVariant, VariantAdded, VariantCell
  <2>2. bucket' \in Tally /\ counted' \in Tally
    BY <1>3, <2>1, BumpTally DEF CountVariant, VariantAdded, VariantCell
  <2>3. pending' \in [Callers -> Pending \cup {Done}]
    BY <1>3 DEF CountVariant, VariantAdded, VariantCell
  <2> QED
    BY <1>3, <2>2, <2>3 DEF CountVariant, VariantAdded, VariantCell
<1>4. CASE SkipTick
  BY <1>4, BackoffTyping DEF SkipTick, Tick
<1>5. CASE SwapBucket
  BY <1>5, NothingTally DEF SwapBucket, Tick
<1>6. ASSUME NEW status \in Statuses, Accept(status) PROVE TypeOK'
  BY <1>6, NothingTally, SumTally, BackoffTyping DEF Accept
<1>7. ASSUME NEW status \in Statuses, Reject(status) PROVE TypeOK'
  BY <1>7, BackoffTyping DEF Reject
<1>8. CASE PostFails
  <2>1. received' \in Tally /\ inflight' \in Tally
    BY <1>8, SumTally, NothingTally DEF PostFails, Unanswered
  <2>2. inflightEarly' = FALSE
    BY <1>8 DEF PostFails, Unanswered
  <2> QED
    BY <1>8, <2>1, <2>2 DEF PostFails, Unanswered
<1>9. ASSUME NEW cell \in AnswerCells, Restore(cell) PROVE TypeOK'
  <2>1. cell \in Cells /\ inflight[cell] \in Nat
    BY CellTyping DEF Tally
  <2>2. bucket' \in Tally /\ inflight' \in Tally
    BY <1>9, <2>1, BumpTally DEF Restore, AddBack, Tally
  <2> QED
    BY <1>9, <2>2 DEF Restore, AddBack
<1>10. CASE EndRestore
  BY <1>10, NothingTally DEF EndRestore, RestoreEnds
<1>11. CASE Close
  BY <1>11 DEF Close
<1>12. CASE TakeClose
  BY <1>12 DEF TakeClose, CloseTakenIf
<1>13. CASE UNCHANGED vars
  BY <1>13 DEF vars
<1> QED
  BY <1>1, <1>2, <1>3, <1>4, <1>5, <1>6, <1>7, <1>8, <1>9, <1>10, <1>11, <1>12, <1>13
     DEF Next, Call, SenderStep

\* The state stays in the types of metrics.go.
THEOREM TypeCorrect == Spec => []TypeOK
BY InitTypeOK, NextTypeOK, PTL DEF Spec

-----------------------------------------------------------------------------
(***************************************************************************)
(* What a step does to the ledger of one cell.                             *)
(***************************************************************************)

\* The sender holds a bucket only between the swap and its outcome; a bucket
\* with counts older than its Start exists only while one is added back.
SenderInv ==
  /\ sender \in {"selecting", "closed"} => inflight = Nothing
  /\ ~inflightEarly
  /\ sender # "restoring" => ~early

LEMMA SenderInvariant == Spec => []SenderInv
<1>1. Init => SenderInv
  BY DEF Init, SenderInv
<1>2. TypeOK /\ SenderInv /\ [Next]_vars => SenderInv'
  <2> SUFFICES ASSUME SenderInv, [Next]_vars PROVE SenderInv'
    OBVIOUS
  <2> USE DEF SenderInv
  <2>1. CASE SwapBucket
    BY <2>1 DEF SwapBucket, Tick
  <2>2. ASSUME NEW status \in Statuses, Accept(status) \/ Reject(status) PROVE SenderInv'
    BY <2>2 DEF Accept, Reject
  <2>3. CASE PostFails
    BY <2>3 DEF PostFails, Unanswered
  <2>4. ASSUME NEW cell \in AnswerCells, Restore(cell) PROVE SenderInv'
    BY <2>4 DEF Restore, AddBack
  <2>5. CASE EndRestore
    BY <2>5 DEF EndRestore, RestoreEnds
  <2>6. CASE TakeClose
    BY <2>6 DEF TakeClose, CloseTakenIf
  <2>7. CASE UNCHANGED <<sender, inflight, early, inflightEarly>>
    BY <2>7
  <2> QED
    BY <2>1, <2>2, <2>3, <2>4, <2>5, <2>6, <2>7
       DEF Next, vars, Call, SenderStep, Count, HandOver, CountVariant, VariantAdded,
           SkipTick, Tick, Close
<1> QED
  BY <1>1, <1>2, TypeCorrect, PTL DEF Spec

\* The three kinds of steps: a count, a move of counts between bucket, sender
\* and server, and a loss, which is a failed post or, for a variant, the end
\* of a rejected one.
LEMMA LedgerStep ==
  TypeOK /\ SenderInv /\ [Next]_vars =>
    \A cell \in Cells :
      \/ Accounted(cell)' - counted'[cell] = Accounted(cell) - counted[cell]
      \/ /\ Accounted(cell)' - counted'[cell] <= Accounted(cell) - counted[cell]
         /\ PostFails \/ (EndRestore /\ cell \notin AnswerCells)
<1> SUFFICES ASSUME TypeOK, SenderInv, [Next]_vars, NEW cell \in Cells
             PROVE  \/ Accounted(cell)' - counted'[cell] = Accounted(cell) - counted[cell]
                    \/ /\ Accounted(cell)' - counted'[cell] <= Accounted(cell) - counted[cell]
                       /\ PostFails \/ (EndRestore /\ cell \notin AnswerCells)
  OBVIOUS
<1> DEFINE Balanced == Accounted(cell)' - counted'[cell] = Accounted(cell) - counted[cell]
<1>1. /\ bucket[cell] \in Nat /\ inflight[cell] \in Nat
      /\ received[cell] \in Nat /\ counted[cell] \in Nat
  BY DEF TypeOK, Tally
<1>2. ASSUME NEW counting \in Cells, UNCHANGED <<inflight, received>>,
             bucket' = Bump(bucket, counting, 1), counted' = Bump(counted, counting, 1)
      PROVE  Balanced
  <2>1. /\ bucket'[cell] = IF cell = counting THEN bucket[cell] + 1 ELSE bucket[cell]
        /\ counted'[cell] = IF cell = counting THEN counted[cell] + 1 ELSE counted[cell]
    BY <1>2, BumpTally DEF TypeOK
  <2>2. inflight'[cell] = inflight[cell] /\ received'[cell] = received[cell]
    BY <1>2
  <2> QED
    BY <1>1, <2>1, <2>2 DEF Accounted
<1>3. ASSUME NEW c \in Callers, NEW t \in Toggles, NEW answer \in Answers,
             NEW v \in Variants \cup {NoVariant}, Count(c, t, answer, v)
      PROVE  Balanced
  BY <1>2, <1>3, CellTyping DEF Count
<1>4. ASSUME NEW c \in Callers, CountVariant(c) PROVE Balanced
  BY <1>2, <1>4, CountedVariant DEF CountVariant, VariantAdded, VariantCell
<1>5. CASE SwapBucket
  <2>1. inflight[cell] = 0 /\ bucket'[cell] = 0 /\ inflight'[cell] = bucket[cell]
    BY <1>5, NothingTally DEF SwapBucket, Tick, SenderInv
  <2>2. received'[cell] = received[cell] /\ counted'[cell] = counted[cell]
    BY <1>5 DEF SwapBucket, history
  <2> QED
    BY <1>1, <2>1, <2>2 DEF Accounted
<1>6. ASSUME NEW status \in Statuses, Accept(status) PROVE Balanced
  <2>1. inflight'[cell] = 0 /\ received'[cell] = received[cell] + inflight[cell]
    BY <1>6, NothingTally, SumTally DEF Accept, TypeOK
  <2>2. bucket'[cell] = bucket[cell] /\ counted'[cell] = counted[cell]
    BY <1>6 DEF Accept, history
  <2> QED
    BY <1>1, <2>1, <2>2 DEF Accounted
<1>7. ASSUME PostFails
      PROVE  Accounted(cell)' - counted'[cell] <= Accounted(cell) - counted[cell]
  <2>1. /\ inflight'[cell] = 0
        /\ received'[cell] = received[cell] \/ received'[cell] = received[cell] + inflight[cell]
    BY <1>7, NothingTally, SumTally DEF PostFails, Unanswered, TypeOK
  <2>2. bucket'[cell] = bucket[cell] /\ counted'[cell] = counted[cell]
    BY <1>7 DEF PostFails, Unanswered, history
  <2> QED
    BY <1>1, <2>1, <2>2 DEF Accounted
<1>8. ASSUME NEW restored \in AnswerCells, Restore(restored) PROVE Balanced
  <2>1. restored \in Cells /\ inflight[restored] \in Nat
    BY CellTyping DEF TypeOK, Tally
  <2>2. bucket'[cell] = IF cell = restored THEN bucket[cell] + inflight[cell] ELSE bucket[cell]
    BY <1>8, <2>1, BumpTally DEF Restore, AddBack, TypeOK
  <2>3. inflight'[cell] = IF cell = restored THEN 0 ELSE inflight[cell]
    BY <1>8 DEF Restore, AddBack, TypeOK, Tally
  <2>4. received'[cell] = received[cell] /\ counted'[cell] = counted[cell]
    BY <1>8 DEF Restore, AddBack, history
  <2> QED
    BY <1>1, <2>2, <2>3, <2>4 DEF Accounted
<1>9. ASSUME EndRestore
      PROVE  /\ Accounted(cell)' - counted'[cell] <= Accounted(cell) - counted[cell]
             /\ cell \in AnswerCells => Balanced
  <2>1. /\ inflight'[cell] = 0
        /\ cell \in AnswerCells => inflight[cell] = 0
    BY <1>9, NothingTally DEF EndRestore, RestoreEnds
  <2>2. /\ bucket'[cell] = bucket[cell] /\ counted'[cell] = counted[cell]
        /\ received'[cell] = received[cell]
    BY <1>9 DEF EndRestore, RestoreEnds, history
  <2> QED
    BY <1>1, <2>1, <2>2 DEF Accounted
<1>10. CASE UNCHANGED <<bucket, inflight, received, counted>>
  BY <1>10 DEF Accounted
<1> QED
  BY <1>3, <1>4, <1>5, <1>6, <1>7, <1>8, <1>9, <1>10
     DEF Next, vars, history, Call, SenderStep, HandOver, SkipTick, Tick, Reject, Close,
         TakeClose, CloseTakenIf

-----------------------------------------------------------------------------
(***************************************************************************)
(* The safety properties.                                                  *)
(***************************************************************************)

\* The server never learns of more than was counted: sendMetrics reports at
\* most once.
THEOREM AtMostOnce == Spec => []NeverOverreported
<1>1. Init => NeverOverreported
  BY NothingTally DEF Init, NeverOverreported, Accounted
<1>2. TypeOK /\ SenderInv /\ NeverOverreported /\ [Next]_vars => NeverOverreported'
  <2> SUFFICES ASSUME TypeOK, SenderInv, NeverOverreported, [Next]_vars,
                      NEW cell \in Cells
               PROVE  Accounted(cell)' <= counted'[cell]
    BY DEF NeverOverreported
  <2>1. /\ Accounted(cell) \in Nat /\ counted[cell] \in Nat
    BY DEF TypeOK, Tally, Accounted
  <2>2. /\ Accounted(cell)' \in Nat /\ counted'[cell] \in Nat
    BY NextTypeOK DEF TypeOK, Tally, Accounted
  <2>3. Accounted(cell) <= counted[cell]
    BY DEF NeverOverreported
  <2>4. Accounted(cell)' - counted'[cell] <= Accounted(cell) - counted[cell]
    BY <2>1, <2>2, LedgerStep
  <2> QED
    BY <2>1, <2>2, <2>3, <2>4
<1> QED
  BY <1>1, <1>2, TypeCorrect, SenderInvariant, PTL DEF Spec

\* Until a post ends without a response no yes and no no is lost: the loop of
\* sendMetrics adds each rejected one back exactly once.
THEOREM NoAnswerLost == Spec => []AnswersConserved
<1>1. Init => AnswersConserved
  BY NothingTally, CellTyping DEF Init, AnswersConserved, Conserved, Accounted
<1>2. TypeOK /\ SenderInv /\ AnswersConserved /\ [Next]_vars => AnswersConserved'
  <2> SUFFICES ASSUME TypeOK, SenderInv, AnswersConserved, [Next]_vars,
                      ~unanswered', NEW cell \in AnswerCells
               PROVE  Accounted(cell)' = counted'[cell]
    BY DEF AnswersConserved, Conserved
  <2>1. ~unanswered /\ ~PostFails
    <3>1. ~PostFails
      BY DEF PostFails, Unanswered
    <3>2. unanswered' = unanswered
      BY <3>1 DEF history, Next, vars, Call, SenderStep, Count, HandOver, CountVariant, VariantAdded,
             SkipTick, SwapBucket, Accept, Reject, Restore, AddBack, EndRestore,
             RestoreEnds, Close, TakeClose, CloseTakenIf
    <3> QED
      BY <3>1, <3>2
  <2>2. cell \in Cells
    BY CellTyping
  <2>3. /\ Accounted(cell) \in Nat /\ counted[cell] \in Nat
    BY <2>2 DEF TypeOK, Tally, Accounted
  <2>4. /\ Accounted(cell)' \in Nat /\ counted'[cell] \in Nat
    BY <2>2, NextTypeOK DEF TypeOK, Tally, Accounted
  <2>5. Accounted(cell) = counted[cell]
    BY <2>1 DEF AnswersConserved, Conserved
  <2>6. Accounted(cell)' - counted'[cell] = Accounted(cell) - counted[cell]
    BY <2>1, <2>2, LedgerStep
  <2> QED
    BY <2>3, <2>4, <2>5, <2>6
<1> QED
  BY <1>1, <1>2, TypeCorrect, SenderInvariant, PTL DEF Spec

\* Nothing that was counted vanishes but with a post: not at the swap, nor when
\* a variant is counted after it, nor between a rejection and the next post.
THEOREM NothingVanishes == Spec => CountsKept
<1>1. TypeOK /\ SenderInv /\ [Next]_vars =>
        [\A cell \in Cells :
           \/ Accounted(cell)' + counted[cell] = Accounted(cell) + counted'[cell]
           \/ /\ sender' = "selecting"
              /\ \/ sender = "posting" /\ unanswered'
                 \/ sender = "restoring" /\ cell \notin AnswerCells]_vars
  <2> SUFFICES ASSUME TypeOK, SenderInv, [Next]_vars, NEW cell \in Cells
               PROVE  \/ Accounted(cell)' + counted[cell] = Accounted(cell) + counted'[cell]
                      \/ /\ sender' = "selecting"
                         /\ \/ sender = "posting" /\ unanswered'
                            \/ sender = "restoring" /\ cell \notin AnswerCells
    OBVIOUS
  <2>1. /\ Accounted(cell) \in Nat /\ counted[cell] \in Nat
        /\ Accounted(cell)' \in Nat /\ counted'[cell] \in Nat
    BY NextTypeOK DEF TypeOK, Tally, Accounted
  <2>2. CASE Accounted(cell)' - counted'[cell] = Accounted(cell) - counted[cell]
    BY <2>1, <2>2
  <2>3. CASE PostFails \/ (EndRestore /\ cell \notin AnswerCells)
    BY <2>3 DEF PostFails, Unanswered, EndRestore, RestoreEnds
  <2> QED
    BY <2>2, <2>3, LedgerStep
<1> QED
  BY <1>1, TypeCorrect, SenderInvariant, PTL DEF Spec, CountsKept

\* Every payload's Start is not after the counts it reports.
THEOREM WindowSafety == Spec => []WindowCoversCounts
<1>1. SenderInv => WindowCoversCounts
  BY DEF SenderInv, WindowCoversCounts
<1> QED
  BY <1>1, SenderInvariant, PTL

-----------------------------------------------------------------------------
(***************************************************************************)
(* The buckets implement the ledger.                                       *)
(***************************************************************************)

\* A count made in the bucket is a count in the ledger.
LEMMA CountRefines ==
  ASSUME TypeOK, NEW cell \in Cells, UNCHANGED <<inflight, received>>,
         bucket' = Bump(bucket, cell, 1), counted' = Bump(counted, cell, 1)
  PROVE  Books!Count(cell)
<1>1. Sum2(bucket', inflight) = [Sum2(bucket, inflight) EXCEPT ![cell] = @ + 1]
  <2>1. /\ bucket' \in Tally
        /\ \A c \in Cells : bucket'[c] = IF c = cell THEN bucket[c] + 1 ELSE bucket[c]
    BY BumpTally DEF TypeOK
  <2>2. \A c \in Cells : bucket[c] \in Nat /\ inflight[c] \in Nat
    BY DEF TypeOK, Tally
  <2> DEFINE before == Sum2(bucket, inflight)
             after == Sum2(bucket', inflight)
  <2>3. /\ before \in [Cells -> Nat] /\ after \in [Cells -> Nat]
        /\ \A c \in Cells : before[c] = bucket[c] + inflight[c]
        /\ \A c \in Cells : after[c] = bucket'[c] + inflight[c]
    BY <2>1, SumTally DEF TypeOK, Tally
  <2> HIDE DEF before, after
  <2>4. \A c \in Cells : after[c] = IF c = cell THEN before[c] + 1 ELSE before[c]
    BY <2>1, <2>2, <2>3
  <2>5. after = [before EXCEPT ![cell] = @ + 1]
    BY <2>3, <2>4
  <2> QED
    BY <2>5 DEF before, after
<1> QED
  BY <1>1 DEF Books!Count, Bump

\* Whatever leaves the counts alone and loses or reports some of what waits
\* is a settlement.
LEMMA SettleRefines ==
  ASSUME TypeOK, TypeOK', counted' = counted,
         \A cell \in Cells : received[cell] <= received'[cell],
         \A cell \in Cells : Accounted(cell)' <= Accounted(cell)
  PROVE  Books!Settle
<1>1. /\ Sum2(bucket, inflight) \in Tally
      /\ \A c \in Cells : Sum2(bucket, inflight)[c] = bucket[c] + inflight[c]
  BY SumTally DEF TypeOK
<1>2. /\ Sum2(bucket', inflight') \in Tally
      /\ \A c \in Cells : Sum2(bucket', inflight')[c] = bucket'[c] + inflight'[c]
  BY SumTally DEF TypeOK
<1>3. received' \in Tally
  BY DEF TypeOK
<1> QED
  BY <1>1, <1>2, <1>3 DEF Books!Settle, Books!Amounts, Tally, Accounted, Sum2

\* The server forgets nothing, and only the callers count.
LEMMA ServerRemembers ==
  TypeOK /\ [Next]_vars => \A cell \in Cells : received[cell] <= received'[cell]
<1> SUFFICES ASSUME TypeOK, [Next]_vars, NEW cell \in Cells
             PROVE  received[cell] <= received'[cell]
  OBVIOUS
<1>1. received[cell] \in Nat /\ inflight[cell] \in Nat
  BY DEF TypeOK, Tally
<1>2. Sum2(received, inflight)[cell] = received[cell] + inflight[cell]
  BY SumTally DEF TypeOK
<1>3. received' \in {received, Sum2(received, inflight)}
  BY DEF Next, vars, history, Call, SenderStep, Count, HandOver, CountVariant, VariantAdded, SkipTick,
         SwapBucket, Accept, Reject, PostFails, Unanswered, Restore, AddBack, EndRestore,
         RestoreEnds, Close, TakeClose, CloseTakenIf
<1> QED
  BY <1>1, <1>2, <1>3

LEMMA StepRefines ==
  TypeOK /\ SenderInv /\ [Next]_vars => [Books!Next]_(Books!ledger)
<1> SUFFICES ASSUME TypeOK, SenderInv, [Next]_vars PROVE Books!Next
  OBVIOUS
<1>1. ASSUME NEW c \in Callers, NEW t \in Toggles, NEW answer \in Answers,
             NEW v \in Variants \cup {NoVariant}, Count(c, t, answer, v)
      PROVE  Books!Next
  BY <1>1, CountRefines, CellTyping DEF Count, Books!Next
<1>2. ASSUME NEW c \in Callers, CountVariant(c) PROVE Books!Next
  BY <1>2, CountRefines, CountedVariant DEF CountVariant, VariantAdded, VariantCell, Books!Next
<1>3. CASE counted' = counted
  <2>1. \A cell \in Cells : Accounted(cell) \in Nat /\ Accounted(cell)' \in Nat
    BY NextTypeOK DEF TypeOK, Tally, Accounted
  <2>2. \A cell \in Cells : counted[cell] \in Nat
    BY DEF TypeOK, Tally
  <2>3. \A cell \in Cells : Accounted(cell)' - counted[cell] <= Accounted(cell) - counted[cell]
    BY <1>3, <2>1, <2>2, LedgerStep
  <2>4. \A cell \in Cells : Accounted(cell)' <= Accounted(cell)
    BY <2>1, <2>2, <2>3
  <2> QED
    BY <1>3, <2>4, SettleRefines, ServerRemembers, NextTypeOK DEF Books!Next
<1> QED
  BY <1>1, <1>2, <1>3
     DEF Next, vars, history, Call, SenderStep, HandOver, SkipTick, SwapBucket, Accept,
         Reject, PostFails, Unanswered, Restore, AddBack, EndRestore, RestoreEnds, Close,
         TakeClose, CloseTakenIf

\* Swaps, posts, rejections and their re-adding are settlements of the ledger:
\* a count is settled at most once and never comes back.
THEOREM Implementation == Spec => LedgerSpec
<1>1. Init => Books!Init
  BY NothingTally DEF Init, Books!Init, Sum2, Nothing
<1> QED
  BY <1>1, StepRefines, TypeCorrect, SenderInvariant, PTL DEF Spec, LedgerSpec, Books!Spec
==============================================================================
