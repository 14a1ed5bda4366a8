----------------------------- MODULE ClientProofs ----------------------------
(***************************************************************************)
(* Types and life cycle of Client, for any number of callers, any         *)
(* capacity of the channels and every combination of failures.             *)
(***************************************************************************)
EXTENDS Client, TLAPS

\* Who has started or stopped whom.
LifeInv ==
  /\ loop # "notStarted" => starter \in {"returned", "failed"}
  /\ closer # "idle" => starter = "returned"
  /\ starter # "returned" => sender \in {"notStarted", "disabled"}
  /\ loop = "stopped" => closer \in {"loop", "done"}
  /\ closer \in {"metrics", "loop", "done"} => poller = "closed"
  /\ closer \in {"loop", "done"} => sender \in {"closed", "disabled"}
  /\ poller # "notStarted" <=> starter \notin {"starting", "failed"}

\* Nobody sends before the repository runs; callers wait for NewClient.
QuietInv ==
  /\ starter \in {"starting", "failed"} =>
       errors = 0 /\ ready = 0 /\ registered = 0 /\ warnings <= 1
  /\ starter # "returned" => \A c \in Callers : caller[c] = "idle"

\* Where the one announcement is: with the poller, in the channel, or delivered.
ReadyInv ==
  /\ ready \in {0, 1}
  /\ poller = "announcing" => ~isReady
  /\ ready = 1 \/ onReady => isReady
  /\ onReady => ready = 0

LEMMA NextLifeInv == LifeInv /\ [Next]_vars => LifeInv'
<1> SUFFICES ASSUME LifeInv, [Next]_vars PROVE LifeInv'
  OBVIOUS
<1> USE DEF LifeInv, channels
<1>1. CASE StarterStep
  <2> USE DEF StarterOnly
  <2>1. CASE StartRepository
    BY <2>1 DEF StartRepository
  <2>2. CASE Register
    BY <2>2 DEF Register
  <2>3. CASE ReportRegistration
    BY <2>3 DEF ReportRegistration, RegistrationReported
  <2>4. CASE Return
    BY <2>4 DEF Return, Returned
  <2>5. CASE Fail
    BY <2>5 DEF Fail, FailedAt
  <2> QED
    BY <1>1, <2>1, <2>2, <2>3, <2>4, <2>5 DEF StarterStep
<1>2. CASE PollerStep
  BY <1>2 DEF PollerStep, PollerOnly, PollerGoes, FetchTick, FetchReturns, ReportFetchError,
              AnnounceReady, Announced, PollerCloses
<1>3. CASE SenderStep
  BY <1>3 DEF SenderStep, SenderOnly, SenderGoes, SendTick, PostReturns, ReportPost,
              HandOverSent, SenderCloses
<1>4. ASSUME NEW c \in Callers, CallerStep(c) PROVE LifeInv'
  BY <1>4 DEF CallerStep, CallerOnly, Evaluate, ReportEvaluation, HandOverCount
<1>5. CASE LoopStep
  BY <1>5 DEF LoopStep, LoopOnly, Receives, TakeError, TakeWarning, TakeRegistered,
              TakeReady, CallbackReturns, LoopCloses, Callbacks
<1>6. CASE ReaderTakes
  BY <1>6 DEF ReaderTakes, SenderGoes
<1>7. CASE CloseStarts
  BY <1>7 DEF CloseStarts, CloserGoes
<1>8. CASE CloseProceeds
  BY <1>8 DEF CloseProceeds, CloserGoes
<1>9. CASE UNCHANGED vars
  BY <1>9 DEF vars
<1> QED
  BY <1>1, <1>2, <1>3, <1>4, <1>5, <1>6, <1>7, <1>8, <1>9 DEF Next

LEMMA NextReadyInv == ReadyInv /\ [Next]_vars => ReadyInv'
<1> SUFFICES ASSUME ReadyInv, [Next]_vars PROVE ReadyInv'
  OBVIOUS
<1> USE DEF ReadyInv, channels
<1>1. CASE StarterStep
  BY <1>1 DEF StarterStep, StarterOnly, Fail, FailedAt, StartRepository, Register, ReportRegistration,
              RegistrationReported, SendError, ErrorSent, SendWarning, Return, Returned
<1>2. CASE PollerStep
  BY <1>2 DEF PollerStep, PollerOnly, PollerGoes, FetchTick, FetchReturns, ReportFetchError,
              SendError, ErrorSent, AnnounceReady, Announced, PollerCloses
<1>3. CASE SenderStep
  BY <1>3 DEF SenderStep, SenderOnly, SendTick, PostReturns, ReportPost, SendError, ErrorSent,
              SendWarning, HandOverSent, SenderCloses
<1>4. ASSUME NEW c \in Callers, CallerStep(c) PROVE ReadyInv'
  BY <1>4 DEF CallerStep, CallerOnly, Evaluate, ReportEvaluation, SendError, ErrorSent, HandOverCount
<1>5. CASE LoopStep
  BY <1>5 DEF LoopStep, LoopOnly, Receives, TakeError, TakeWarning, TakeRegistered,
              TakeReady, CallbackReturns, LoopCloses
<1>6. CASE ReaderTakes
  BY <1>6 DEF ReaderTakes
<1>7. CASE CloseStarts \/ CloseProceeds
  BY <1>7 DEF CloseStarts, CloseProceeds, CloserGoes
<1>8. CASE UNCHANGED vars
  BY <1>8 DEF vars
<1> QED
  BY <1>1, <1>2, <1>3, <1>4, <1>5, <1>6, <1>7, <1>8 DEF Next

LEMMA NextQuietInv == TypeOK /\ LifeInv /\ QuietInv /\ [Next]_vars => QuietInv'
<1> SUFFICES ASSUME TypeOK, LifeInv, QuietInv, [Next]_vars PROVE QuietInv'
  OBVIOUS
<1> USE DEF TypeOK, LifeInv, QuietInv, channels
<1>1. CASE StarterStep
  BY <1>1 DEF StarterStep, StarterOnly, Fail, FailedAt, StartRepository, Register,
              ReportRegistration, RegistrationReported, Return, Returned
<1>2. CASE PollerStep
  BY <1>2 DEF PollerStep, PollerOnly, PollerGoes, FetchTick, FetchReturns, ReportFetchError,
              AnnounceReady, Announced, PollerCloses
<1>3. CASE SenderStep
  BY <1>3 DEF SenderStep, SenderOnly, SenderGoes, SendTick, PostReturns, ReportPost,
              HandOverSent, SenderCloses
<1>4. ASSUME NEW c \in Callers, CallerStep(c) PROVE QuietInv'
  BY <1>4 DEF CallerStep, CallerOnly, CallerGoes, Evaluate, ReportEvaluation, HandOverCount
<1>5. CASE LoopStep
  <2> USE DEF LoopOnly, Receives
  <2>1. CASE TakeWarning
    <3>1. warnings \in Nat
      BY ClientAssumption
    <3> QED
      BY <2>1, <3>1 DEF TakeWarning
  <2>2. CASE TakeError \/ TakeRegistered \/ TakeReady
    BY <2>2 DEF TakeError, TakeRegistered, TakeReady
  <2>3. CASE CallbackReturns \/ LoopCloses
    BY <2>3 DEF CallbackReturns, LoopCloses
  <2> QED
    BY <1>5, <2>1, <2>2, <2>3 DEF LoopStep
<1>6. CASE ReaderTakes
  BY <1>6 DEF ReaderTakes
<1>7. CASE CloseStarts \/ CloseProceeds
  BY <1>7 DEF CloseStarts, CloseProceeds, CloserGoes
<1>8. CASE UNCHANGED vars
  BY <1>8 DEF vars
<1> QED
  BY <1>1, <1>2, <1>3, <1>4, <1>5, <1>6, <1>7, <1>8 DEF Next

LEMMA NextTypeOK == TypeOK /\ [Next]_vars => TypeOK'
<1> SUFFICES ASSUME TypeOK, [Next]_vars PROVE TypeOK'
  OBVIOUS
<1> USE ClientAssumption DEF ClientAssumption, TypeOK, channels, Callbacks
<1>1. CASE StarterStep
  <2> USE DEF StarterOnly
  <2>1. CASE StartRepository
    BY <2>1 DEF StartRepository
  <2>2. CASE Register
    BY <2>2 DEF Register
  <2>3. CASE ReportRegistration
    BY <2>3 DEF ReportRegistration, RegistrationReported, SendError, ErrorSent, SendWarning
  <2>4. CASE Return \/ Fail
    BY <2>4 DEF Return, Returned, Fail, FailedAt
  <2> QED
    BY <1>1, <2>1, <2>2, <2>3, <2>4 DEF StarterStep
<1>2. CASE PollerStep
  <2> USE DEF PollerOnly, PollerGoes
  <2>1. CASE FetchTick \/ FetchReturns \/ PollerCloses
    BY <2>1 DEF FetchTick, FetchReturns, PollerCloses
  <2>2. CASE ReportFetchError
    BY <2>2 DEF ReportFetchError, SendError, ErrorSent
  <2>3. CASE AnnounceReady
    BY <2>3 DEF AnnounceReady, Announced
  <2> QED
    BY <1>2, <2>1, <2>2, <2>3 DEF PollerStep
<1>3. CASE SenderStep
  <2> USE DEF SenderOnly, SenderGoes
  <2>1. CASE SendTick \/ PostReturns \/ HandOverSent \/ SenderCloses
    BY <2>1 DEF SendTick, PostReturns, HandOverSent, SenderCloses
  <2>2. CASE ReportPost
    BY <2>2 DEF ReportPost, SendError, ErrorSent, SendWarning
  <2> QED
    BY <1>3, <2>1, <2>2 DEF SenderStep
<1>4. ASSUME NEW c \in Callers, CallerStep(c) PROVE TypeOK'
  <2> USE DEF CallerOnly, CallerGoes, Counted
  <2>1. CASE Evaluate(c) \/ HandOverCount(c)
    BY <2>1 DEF Evaluate, HandOverCount
  <2>2. CASE ReportEvaluation(c)
    BY <2>2 DEF ReportEvaluation, SendError, ErrorSent
  <2> QED
    BY <1>4, <2>1, <2>2 DEF CallerStep
<1>5. CASE LoopStep
  <2> USE DEF LoopOnly, Receives
  <2>1. CASE TakeError
    BY <2>1 DEF TakeError
  <2>2. CASE TakeWarning
    BY <2>2 DEF TakeWarning
  <2>3. CASE TakeRegistered
    BY <2>3 DEF TakeRegistered
  <2>4. CASE TakeReady
    BY <2>4 DEF TakeReady
  <2>5. CASE CallbackReturns \/ LoopCloses
    BY <2>5 DEF CallbackReturns, LoopCloses
  <2> QED
    BY <1>5, <2>1, <2>2, <2>3, <2>4, <2>5 DEF LoopStep
<1>6. CASE ReaderTakes
  BY <1>6 DEF ReaderTakes, SenderGoes, CallerGoes
<1>7. CASE CloseStarts \/ CloseProceeds
  BY <1>7 DEF CloseStarts, CloseProceeds, CloserGoes
<1>8. CASE UNCHANGED vars
  BY <1>8 DEF vars
<1> QED
  BY <1>1, <1>2, <1>3, <1>4, <1>5, <1>6, <1>7, <1>8 DEF Next

\* Every channel stays within its buffer, and every goroutine where it can be.
THEOREM TypeCorrect == Spec => []TypeOK
<1>1. Init => TypeOK
  <2> SUFFICES ASSUME Init PROVE TypeOK
    OBVIOUS
  <2>1. Capacity \in Nat \ {0}
    BY ClientAssumption DEF ClientAssumption
  <2>2. warnings = 0 \/ warnings = 1
    BY DEF Init
  <2>3. errors = 0 /\ ready = 0 /\ registered = 0
    BY DEF Init
  <2>4. 0 \in 0 .. Capacity /\ 1 \in 0 .. Capacity /\ 0 \in 0 .. 1
    BY <2>1
  <2>5. caller \in [Callers -> {"idle", "erring", "counting"}]
    BY DEF Init
  <2> QED
    BY <2>2, <2>3, <2>4, <2>5 DEF Init, TypeOK
<1> QED
  BY <1>1, NextTypeOK, PTL DEF Spec

\* The event loop outlives poller and sender: Close waits for r.closed and for
\* m.closed before it closes uc.close.
THEOREM LoopOutlivesComponents == Spec => []LoopStopsLast
<1>1. Init => LifeInv
  BY DEF Init, LifeInv
<1>2. LifeInv => LoopStopsLast
  BY DEF LifeInv, LoopStopsLast
<1> QED
  BY <1>1, <1>2, NextLifeInv, PTL DEF Spec

\* close(uc.onReady) is executed at most once, whoever reads the ready channel.
THEOREM NoDoubleClose == Spec => []AnnouncedOnce
<1>1. Init => ReadyInv
  BY DEF Init, ReadyInv
<1>2. ReadyInv => AnnouncedOnce
  BY DEF ReadyInv, AnnouncedOnce
<1> QED
  BY <1>1, <1>2, NextReadyInv, PTL DEF Spec

\* NewClient checks its options before it starts repository and metrics: after
\* an error only the event loop runs.
THEOREM FailureSafety == Spec => []FailureLeavesOnlyLoop
<1>1. Init => LifeInv /\ QuietInv
  BY DEF Init, LifeInv, QuietInv
<1>2. LifeInv /\ QuietInv => FailureLeavesOnlyLoop
  BY DEF LifeInv, QuietInv, FailureLeavesOnlyLoop
<1> QED
  BY <1>1, <1>2, NextLifeInv, NextQuietInv, TypeCorrect, PTL DEF Spec

-----------------------------------------------------------------------------
(***************************************************************************)
(* Client implements Service.                                              *)
(***************************************************************************)

\* Disabled metrics have nothing to say, and the poller stops for Close only.
MeterInv ==
  /\ sender = "disabled" =>
       /\ registered = 0
       /\ starter \notin {"registering", "reporting", "warning", "announcing"}
       /\ \A c \in Callers : caller[c] # "counting"
  /\ poller \in {"flushing", "closed"} => closer # "idle"

LEMMA NextMeterInv == TypeOK /\ LifeInv /\ MeterInv /\ [Next]_vars => MeterInv'
<1> SUFFICES ASSUME TypeOK, LifeInv, MeterInv, [Next]_vars PROVE MeterInv'
  OBVIOUS
<1> USE DEF TypeOK, LifeInv, MeterInv, channels
<1>1. CASE StarterStep
  BY <1>1 DEF StarterStep, StarterOnly, Fail, FailedAt, StartRepository, Register,
              ReportRegistration, RegistrationReported, SendError, ErrorSent, SendWarning,
              Return, Returned
<1>2. CASE PollerStep
  BY <1>2 DEF PollerStep, PollerOnly, PollerGoes, FetchTick, FetchReturns, ReportFetchError,
              SendError, ErrorSent, AnnounceReady, Announced, PollerCloses
<1>3. CASE SenderStep
  BY <1>3 DEF SenderStep, SenderOnly, SenderGoes, SendTick, PostReturns, ReportPost, SendError,
              ErrorSent, SendWarning, HandOverSent, SenderCloses
<1>4. ASSUME NEW c \in Callers, CallerStep(c) PROVE MeterInv'
  BY <1>4 DEF CallerStep, CallerOnly, CallerGoes, Counted, Evaluate, ReportEvaluation, SendError,
              ErrorSent, HandOverCount
<1>5. CASE LoopStep
  BY <1>5 DEF LoopStep, LoopOnly, Receives, TakeError, TakeWarning, TakeRegistered,
              TakeReady, CallbackReturns, LoopCloses
<1>6. CASE ReaderTakes
  BY <1>6 DEF ReaderTakes, SenderGoes, CallerGoes
<1>7. CASE CloseStarts \/ CloseProceeds
  BY <1>7 DEF CloseStarts, CloseProceeds, CloserGoes
<1>8. CASE UNCHANGED vars
  BY <1>8 DEF vars
<1> QED
  BY <1>1, <1>2, <1>3, <1>4, <1>5, <1>6, <1>7, <1>8 DEF Next

ServiceInv == TypeOK /\ LifeInv /\ QuietInv /\ ReadyInv /\ MeterInv

\* A step that starts, stops and tells nothing is invisible to the application.
LEMMA Invisible ==
  ASSUME UNCHANGED <<starter, loop, isReady, onReady, closer>>, Working' = Working,
         sender' = "disabled" <=> sender = "disabled"
  PROVE  UNCHANGED Promise!serviceVars
BY DEF Promise!serviceVars, Life, Listening

LEMMA SameWorking ==
  ASSUME poller' \in {"notStarted", "closed"} <=> poller \in {"notStarted", "closed"},
         sender' \in {"notStarted", "closed", "disabled"}
           <=> sender \in {"notStarted", "closed", "disabled"},
         loop' \in {"notStarted", "stopped"} <=> loop \in {"notStarted", "stopped"}
  PROVE  Working' = Working
BY DEF Working

LEMMA WorkersStop ==
  ASSUME NEW worker \in {"poller", "sender", "loop"}, Life = "closing", worker \in Working,
         worker = "sender" => poller \in {"notStarted", "closed"},
         worker = "loop" => /\ poller \in {"notStarted", "closed"} /\ loop \notin Callbacks
                            /\ sender \in {"notStarted", "closed", "disabled"},
         Working' = Working \ {worker}, UNCHANGED <<Life, isReady, onReady, Listening>>,
         sender' = "disabled" <=> sender = "disabled"
  PROVE  Promise!Next
<1>1. worker = "sender" => "poller" \notin Working
  BY DEF Working
<1>2. worker = "loop" => Working = {"loop"} /\ Listening = "none"
  BY DEF Working, Listening
<1>3. Promise!Stop(worker)
  BY <1>1, <1>2 DEF Promise!Stop
<1> QED
  BY <1>3 DEF Promise!Next

\* The loop calls the listener.
LEMMA LoopTells ==
  ASSUME TypeOK, loop = "selecting", NEW method \in Callbacks, loop' = method, method # "OnReady",
         starter = "failed" => method = "OnWarning", closer = "idle" \/ starter = "returned",
         method \in {"OnCount", "OnSent", "OnRegistered"} => sender # "disabled",
         method = "OnSent" => sender \notin {"notStarted", "closed", "disabled"},
         poller' = poller, UNCHANGED <<starter, isReady, onReady, closer>>,
         sender' \in {"notStarted", "closed", "disabled"}
           <=> sender \in {"notStarted", "closed", "disabled"},
         sender' = "disabled" <=> sender = "disabled"
  PROVE  Promise!Next
<1>1. Working' = Working /\ Life' = Life
  BY DEF Working, Life, Callbacks
<1>2. "loop" \in Working /\ Listening = "none" /\ Listening' = method
  BY DEF Working, Listening, Callbacks
<1>3. Life = "failed" => method = "OnWarning"
  BY DEF Life
<1>4. method = "OnSent" => "sender" \in Working
  BY DEF Working
<1>5. onReady' = (onReady \/ method = "OnReady")
  BY DEF TypeOK
<1>6. Promise!Tell(method)
  BY <1>1, <1>2, <1>3, <1>4, <1>5 DEF Promise!Tell, Promise!MeterMethods
<1> QED
  BY <1>6 DEF Promise!Next, Promise!Methods, Callbacks

LEMMA NextImplementsService ==
  ServiceInv /\ [Next]_vars => [Promise!Next]_Promise!serviceVars
<1> SUFFICES ASSUME ServiceInv, [Next]_vars
             PROVE  Promise!Next \/ UNCHANGED Promise!serviceVars
  OBVIOUS
<1> USE DEF ServiceInv
<1>1. CASE StarterStep
  <2>1. CASE Fail
    <3>1. /\ starter = "starting" /\ starter' = "failed" /\ loop' = "selecting"
          /\ UNCHANGED <<onReady, isReady, poller, sender, closer>>
          /\ loop = "notStarted" /\ closer = "idle" /\ poller = "notStarted"
          /\ sender \in {"notStarted", "disabled"}
      BY <2>1 DEF Fail, FailedAt, LifeInv, TypeOK
    <3>2. Life = "starting" /\ Life' = "failed" /\ Listening = "none" /\ Listening' = "none"
      BY <3>1 DEF Life, Listening, Callbacks
    <3>3. Working = {} /\ Working' = {"loop"}
      BY <3>1 DEF Working
    <3>4. Promise!Fail
      BY <3>1, <3>2, <3>3 DEF Promise!Fail
    <3> QED
      BY <3>4 DEF Promise!Next
  <2>2. CASE StartRepository
    <3>1. /\ starter = "starting" /\ starter' \in {"returning", "registering"}
          /\ poller' = "fetching" /\ UNCHANGED <<onReady, isReady, loop, sender, closer>>
          /\ loop = "notStarted" /\ closer = "idle" /\ poller = "notStarted"
          /\ sender \in {"notStarted", "disabled"}
      BY <2>2 DEF StartRepository, LifeInv, TypeOK
    <3>2. Life = "starting" /\ Life' = "starting" /\ Listening = "none" /\ Listening' = "none"
      BY <3>1 DEF Life, Listening, Callbacks
    <3>3. Working = {} /\ Working' = {"poller"}
      BY <3>1 DEF Working
    <3>4. Promise!Launch
      BY <3>1, <3>2, <3>3 DEF Promise!Launch
    <3> QED
      BY <3>4 DEF Promise!Next
  <2>3. CASE Register \/ ReportRegistration
    <3>1. /\ UNCHANGED <<loop, isReady, onReady, closer, poller, sender>> /\ closer = "idle"
          /\ starter \notin {"returned", "failed"} /\ starter' \notin {"returned", "failed"}
      BY <2>3 DEF Register, ReportRegistration, RegistrationReported, StarterOnly, LifeInv
    <3>2. Life' = Life /\ Listening' = Listening
      BY <3>1 DEF Life, Listening
    <3>3. Working' = Working
      BY <3>1, SameWorking
    <3> QED
      BY <3>1, <3>2, <3>3 DEF Promise!serviceVars
  <2>4. CASE Return
    <3>1. /\ starter = "returning" /\ starter' = "returned" /\ loop' = "selecting"
          /\ sender' = IF sender = "disabled" THEN "disabled" ELSE "selecting"
          /\ UNCHANGED <<onReady, isReady, poller, closer>>
          /\ loop = "notStarted" /\ closer = "idle" /\ poller \notin {"notStarted", "closed"}
          /\ sender \in {"notStarted", "disabled"}
      BY <2>4 DEF Return, Returned, LifeInv, MeterInv, TypeOK
    <3>2. Life = "starting" /\ Life' = "running" /\ Listening = "none" /\ Listening' = "none"
      BY <3>1 DEF Life, Listening, Callbacks
    <3>3. /\ Working = {"poller"}
          /\ Working' = {"poller", "loop"} \cup (IF sender # "disabled" THEN {"sender"} ELSE {})
      BY <3>1 DEF Working
    <3>4. Promise!Open
      BY <3>1, <3>2, <3>3 DEF Promise!Open
    <3> QED
      BY <3>4 DEF Promise!Next
  <2> QED
    BY <1>1, <2>1, <2>2, <2>3, <2>4 DEF StarterStep
<1>2. CASE PollerStep
  <2>0. UNCHANGED <<onReady, starter, loop, sender, closer>>
    BY <1>2 DEF PollerStep, PollerOnly, FetchTick, FetchReturns, ReportFetchError, AnnounceReady,
                Announced, PollerCloses
  <2>1. Life' = Life /\ Listening' = Listening
    BY <2>0 DEF Life, Listening
  <2>2. CASE isReady' = isReady /\ poller \notin {"notStarted", "closed"}
             /\ poller' \notin {"notStarted", "closed"}
    BY <2>0, <2>2, SameWorking, Invisible
  <2>3. CASE isReady' = isReady /\ poller \in {"selecting", "flushing"} /\ poller' = "closed"
             /\ closer # "idle"
    <3>1. Life = "closing"
      BY <2>3 DEF Life, LifeInv
    <3>2. "poller" \in Working /\ Working' = Working \ {"poller"}
      BY <2>0, <2>3 DEF Working
    <3> QED
      BY <2>0, <2>1, <2>3, <3>1, <3>2, WorkersStop
  <2>4. CASE AnnounceReady
    <3>1. poller = "announcing" /\ poller' = "selecting" /\ ~isReady /\ isReady' = TRUE
      BY <2>4 DEF AnnounceReady, Announced, PollerGoes, ReadyInv
    <3>2. Working' = Working /\ "poller" \in Working
      BY <2>0, <3>1 DEF Working
    <3>3. Promise!Load
      BY <2>0, <2>1, <3>1, <3>2 DEF Promise!Load
    <3> QED
      BY <3>3 DEF Promise!Next
  <2>5. CASE FetchTick \/ FetchReturns
    BY <2>2, <2>5 DEF FetchTick, FetchReturns, PollerGoes
  <2>6. CASE ReportFetchError
    BY <2>2, <2>3, <2>6 DEF ReportFetchError, PollerGoes, MeterInv
  <2>7. CASE PollerCloses
    BY <2>2, <2>3, <2>7 DEF PollerCloses, PollerGoes
  <2> QED
    BY <1>2, <2>4, <2>5, <2>6, <2>7 DEF PollerStep
<1>3. CASE SenderStep
  <2>0. UNCHANGED <<onReady, isReady, starter, poller, closer>>
    BY <1>3 DEF SenderStep, SenderOnly, SendTick, PostReturns, ReportPost, HandOverSent,
                SenderCloses
  <2>1. CASE SendTick \/ PostReturns \/ ReportPost
    <3>1. /\ sender \notin {"notStarted", "closed", "disabled"} /\ loop' = loop
          /\ sender' \notin {"notStarted", "closed", "disabled"}
      BY <2>1 DEF SendTick, PostReturns, ReportPost, SenderGoes
    <3> QED
      BY <2>0, <3>1, SameWorking, Invisible
  <2>2. CASE HandOverSent
    <3>1. sender = "sending" /\ sender' = "selecting" /\ loop = "selecting" /\ loop' = "OnSent"
      BY <2>2 DEF HandOverSent, SenderGoes
    <3>2. starter = "returned"
      BY <3>1 DEF LifeInv
    <3>3. "OnSent" \in Callbacks
      BY DEF Callbacks
    <3> QED
      BY <2>0, <3>1, <3>2, <3>3, LoopTells
  <2>3. CASE SenderCloses
    <3>1. /\ sender = "selecting" /\ sender' = "closed" /\ loop' = loop /\ closer = "metrics"
          /\ poller = "closed"
      BY <2>3 DEF SenderCloses, SenderGoes, LifeInv
    <3>2. Life = "closing" /\ Life' = Life /\ Listening' = Listening
      BY <2>0, <3>1 DEF Life, Listening
    <3>3. "sender" \in Working /\ Working' = Working \ {"sender"}
      BY <2>0, <3>1 DEF Working
    <3> QED
      BY <2>0, <3>1, <3>2, <3>3, WorkersStop
  <2> QED
    BY <1>3, <2>1, <2>2, <2>3 DEF SenderStep
<1>4. ASSUME NEW c \in Callers, CallerStep(c)
      PROVE  Promise!Next \/ UNCHANGED Promise!serviceVars
  <2>0. UNCHANGED <<onReady, isReady, starter, poller, sender, closer>>
    BY <1>4 DEF CallerStep, CallerOnly, Evaluate, ReportEvaluation, HandOverCount
  <2>1. CASE Evaluate(c) \/ ReportEvaluation(c)
    <3>1. loop' = loop
      BY <2>1 DEF Evaluate, ReportEvaluation
    <3> QED
      BY <2>0, <3>1, SameWorking, Invisible
  <2>2. CASE HandOverCount(c)
    <3>1. caller[c] = "counting" /\ loop = "selecting" /\ loop' = "OnCount"
      BY <2>2 DEF HandOverCount, CallerGoes
    <3>2. starter = "returned" /\ sender # "disabled"
      BY <3>1 DEF QuietInv, MeterInv
    <3>3. "OnCount" \in Callbacks
      BY DEF Callbacks
    <3> QED
      BY <2>0, <3>1, <3>2, <3>3, LoopTells
  <2> QED
    BY <1>4, <2>1, <2>2 DEF CallerStep
<1>5. CASE LoopStep
  <2>0. UNCHANGED <<isReady, starter, poller, sender, closer>>
    BY <1>5 DEF LoopStep, LoopOnly, Receives, TakeError, TakeWarning, TakeRegistered, TakeReady,
                CallbackReturns, LoopCloses
  <2>1. loop = "selecting" => closer = "idle" \/ starter = "returned"
    BY DEF LifeInv
  <2>2. CASE TakeError \/ TakeWarning \/ TakeRegistered
    <3>1. PICK method \in {"OnError", "OnWarning", "OnRegistered"} :
            /\ loop = "selecting" /\ loop' = method /\ onReady' = onReady
            /\ starter = "failed" => method = "OnWarning"
            /\ method = "OnRegistered" => sender # "disabled"
      BY <2>2 DEF TakeError, TakeWarning, TakeRegistered, Receives, QuietInv, MeterInv
    <3>2. method \in Callbacks
      BY DEF Callbacks
    <3> QED
      BY <2>0, <2>1, <3>1, <3>2, LoopTells
  <2>3. CASE TakeReady
    <3>1. /\ loop = "selecting" /\ loop' = "OnReady" /\ ready > 0 /\ onReady' = TRUE
          /\ isReady /\ ~onReady /\ starter # "failed"
      BY <2>3 DEF TakeReady, Receives, ReadyInv, QuietInv, TypeOK
    <3>2. Working' = Working /\ "loop" \in Working
      BY <2>0, <3>1 DEF Working
    <3>3. Listening = "none" /\ Listening' = "OnReady"
      BY <3>1 DEF Listening, Callbacks
    <3>4. Life' = Life /\ Life # "failed"
      BY <2>0, <3>1 DEF Life
    <3>5. Promise!Tell("OnReady")
      BY <2>0, <3>1, <3>2, <3>3, <3>4 DEF Promise!Tell, Promise!MeterMethods
    <3> QED
      BY <3>5 DEF Promise!Next, Promise!Methods
  <2>4. CASE CallbackReturns
    <3>1. loop \in Callbacks /\ loop' = "selecting" /\ onReady' = onReady
      BY <2>4 DEF CallbackReturns
    <3>2. Working' = Working /\ Life' = Life
      BY <2>0, <3>1 DEF Working, Life, Callbacks
    <3>3. Listening # "none" /\ Listening' = "none"
      BY <3>1 DEF Listening, Callbacks
    <3>4. Promise!Told
      BY <2>0, <3>1, <3>2, <3>3 DEF Promise!Told
    <3> QED
      BY <3>4 DEF Promise!Next
  <2>5. CASE LoopCloses
    <3>1. /\ loop = "selecting" /\ loop' = "stopped" /\ closer = "loop" /\ onReady' = onReady
          /\ poller = "closed" /\ sender \in {"closed", "disabled"}
      BY <2>5 DEF LoopCloses, LifeInv
    <3>2. Life = "closing" /\ Life' = Life
      BY <2>0, <3>1 DEF Life
    <3>3. "loop" \in Working /\ Working' = Working \ {"loop"}
      BY <2>0, <3>1 DEF Working
    <3>4. Listening' = Listening /\ loop \notin Callbacks
      BY <3>1 DEF Listening, Callbacks
    <3> QED
      BY <2>0, <3>1, <3>2, <3>3, <3>4, WorkersStop
  <2> QED
    BY <1>5, <2>2, <2>3, <2>4, <2>5 DEF LoopStep
<1>6. CASE ReaderTakes
  <2>1. /\ UNCHANGED <<onReady, isReady, starter, loop, poller, closer>>
        /\ sender' = sender \/ (sender = "sending" /\ sender' = "selecting")
    BY <1>6 DEF ReaderTakes, SenderGoes
  <2> QED
    BY <2>1, SameWorking, Invisible
<1>7. CASE CloseStarts \/ CloseProceeds
  <2>1. UNCHANGED <<onReady, isReady, starter, loop, poller, sender>>
    BY <1>7 DEF CloseStarts, CloseProceeds, CloserGoes
  <2>2. Working' = Working /\ Listening' = Listening
    BY <2>1 DEF Working, Listening
  <2>3. CASE CloseStarts
    <3>1. Life = "running" /\ Life' = "closing"
      BY <2>1, <2>3 DEF CloseStarts, CloserGoes, Life
    <3>2. Promise!Close
      BY <2>1, <2>2, <3>1 DEF Promise!Close
    <3> QED
      BY <3>2 DEF Promise!Next
  <2>4. CASE closer \in {"repository", "metrics"} /\ closer' \in {"metrics", "loop"}
    <3>1. Life' = Life
      BY <2>4 DEF Life
    <3> QED
      BY <2>1, <2>2, <3>1 DEF Promise!serviceVars
  <2>5. CASE loop = "stopped" /\ closer = "loop" /\ closer' = "done"
    <3>1. Life = "closing" /\ Life' = "closed"
      BY <2>5 DEF Life
    <3>2. Working = {}
      BY <2>5 DEF Working, LifeInv
    <3>3. Promise!Finish
      BY <2>1, <2>2, <3>1, <3>2 DEF Promise!Finish
    <3> QED
      BY <3>3 DEF Promise!Next
  <2> QED
    BY <1>7, <2>3, <2>4, <2>5 DEF CloseProceeds, CloserGoes
<1>8. CASE UNCHANGED vars
  BY <1>8, SameWorking, Invisible DEF vars
<1> QED
  BY <1>1, <1>2, <1>3, <1>4, <1>5, <1>6, <1>7, <1>8 DEF Next

LEMMA InitImplementsService == Init => Promise!Init
<1> SUFFICES ASSUME Init PROVE Promise!Init
  OBVIOUS
<1>1. Life = "starting" /\ Listening = "none"
  BY DEF Init, Life, Listening, Callbacks
<1>2. Working = {}
  BY DEF Init, Working
<1> QED
  BY <1>1, <1>2 DEF Init, Promise!Init

\* From NewClient to Close the client does what Service allows, whatever is
\* under way between its goroutines and whatever the application reads.
THEOREM Implementation == Spec => ServiceSpec
<1>1. Init => LifeInv /\ QuietInv /\ ReadyInv /\ MeterInv
  BY DEF Init, LifeInv, QuietInv, ReadyInv, MeterInv
<1>2. Spec => []ServiceInv
  BY <1>1, TypeCorrect, NextLifeInv, NextQuietInv, NextReadyInv, NextMeterInv, PTL
     DEF Spec, ServiceInv
<1> QED
  BY <1>2, InitImplementsService, NextImplementsService, PTL DEF Spec, ServiceSpec, Promise!Spec
==============================================================================
