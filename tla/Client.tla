------------------------------- MODULE Client --------------------------------
(***************************************************************************)
(* The client (client.go): the goroutine that runs NewClient, the two      *)
(* component goroutines, the event loop, the application's callers and     *)
(* Close, and the channels between them.  What the components compute is   *)
(* in Repository and Metrics; here they are reduced to the messages they   *)
(* send and to where they block.                                           *)
(*                                                                         *)
(* A buffered channel is the number of messages in it.  count and sent     *)
(* have no buffer: sender and receiver step together.                      *)
(***************************************************************************)
EXTENDS Naturals

CONSTANTS
  Callers,          \* application goroutines that evaluate toggles
  Capacity,         \* of the errors and warnings channels: 3 in NewClient
  RegisterErrs,     \* may the registration end without a response?
  EvaluationErrs,   \* may an evaluation report a missing segment or a bad constraint?
  CallsDuringClose, \* may callers still be active when Close is called, or later?
  UserDrains,       \* does the application read the channels itself (doc.go)?
  OldUrl,           \* does the url end in /features?
  BadOptions,       \* may the url be unusable, or the name of the application missing?
  MetricsOptional   \* may the application disable metrics?

ASSUME ClientAssumption ==
  /\ Capacity \in Nat \ {0}
  /\ {RegisterErrs, EvaluationErrs, CallsDuringClose, UserDrains, OldUrl, BadOptions,
      MetricsOptional} \subseteq BOOLEAN

VARIABLES
  errors, warnings, ready, registered,  \* messages in the buffered channels
  onReady,       \* uc.onReady is closed: WaitForReady returns
  starter,       \* NewClient
  loop,          \* Client.sync, and the listener method it is in
  poller,        \* repository.sync
  isReady,       \* repository.isReady
  sender,        \* metrics.sync, or metrics.options.disableMetrics
  caller,        \* IsEnabled or GetVariant
  closer         \* Client.Close

channels == <<errors, warnings, ready, registered>>
vars == <<errors, warnings, ready, registered, onReady, starter, loop, poller, isReady,
          sender, caller, closer>>

Callbacks == {"OnError", "OnWarning", "OnReady", "OnCount", "OnSent", "OnRegistered"}

TypeOK ==
  /\ errors \in 0 .. Capacity /\ warnings \in 0 .. Capacity
  /\ ready \in 0 .. 1 /\ registered \in 0 .. 1
  /\ onReady \in BOOLEAN /\ isReady \in BOOLEAN
  /\ starter \in {"starting", "registering", "reporting", "warning", "announcing",
                  "returning", "returned", "failed"}
  /\ loop \in {"notStarted", "selecting", "stopped"} \cup Callbacks
  /\ poller \in {"notStarted", "fetching", "reporting", "announcing", "selecting",
                 "flushing", "closed"}
  /\ sender \in {"notStarted", "posting", "reporting", "warning", "sending",
                 "selecting", "closed", "disabled"}
  /\ caller \in [Callers -> {"idle", "erring", "counting"}]
  /\ closer \in {"idle", "repository", "metrics", "loop", "done"}

Init ==
  /\ errors = 0 /\ ready = 0 /\ registered = 0
  /\ warnings = IF OldUrl THEN 1 ELSE 0  \* uc.warn about the deprecated suffix
  /\ onReady = FALSE /\ isReady = FALSE
  /\ starter = "starting"
  /\ loop = "notStarted" /\ poller = "notStarted"
  /\ sender \in {"notStarted"} \cup (IF MetricsOptional THEN {"disabled"} ELSE {})
  /\ caller = [c \in Callers |-> "idle"]
  /\ closer = "idle"

ErrorSent(limit) ==
  /\ errors < limit
  /\ errors' = errors + 1
  /\ UNCHANGED <<warnings, ready, registered>>

\* Mutant: the channel is made with one place more than the others expect.
SendErrorBeyondCapacity == ErrorSent(Capacity + 1)

\* A goroutine sends on the errors or warnings channel if there is room.
SendError == ErrorSent(Capacity)

SendWarning ==
  /\ warnings < Capacity
  /\ warnings' = warnings + 1
  /\ UNCHANGED <<errors, ready, registered>>

-----------------------------------------------------------------------------
(***************************************************************************)
(* NewClient: newRepository starts the poller; newMetrics registers before *)
(* it returns; the event loop is started by the deferred call at the end.  *)
(***************************************************************************)
StarterOnly == UNCHANGED <<onReady, isReady, loop, poller, sender, caller, closer>>

\* The last option that is checked is the name of the application; the
\* deferred go uc.sync() runs all the same.
FailedAt(step) ==
  /\ BadOptions
  /\ starter = step
  /\ starter' = "failed"
  /\ loop' = "selecting"
  /\ UNCHANGED <<channels, onReady, isReady, poller, sender, caller, closer>>

\* Mutant: the application's name is only checked when the repository runs.
FailLate == FailedAt("registering")

Fail == FailedAt("starting")

\* newRepository; newMetrics registers unless metrics are disabled.
StartRepository ==
  /\ starter = "starting"
  /\ starter' = IF sender = "disabled" THEN "returning" ELSE "registering"
  /\ poller' = "fetching"
  /\ UNCHANGED <<channels, onReady, isReady, loop, sender,
                 caller, closer>>

Register ==
  /\ starter = "registering"
  /\ \/ starter' = "announcing"                  \* the server accepts
     \/ starter' = "warning"                     \* it answers with an error status
     \/ RegisterErrs /\ starter' = "reporting"   \* it does not answer
  /\ UNCHANGED channels /\ StarterOnly

RegistrationReported(capacity) ==
  /\ \/ starter = "reporting" /\ SendError /\ starter' = "returning"
     \/ starter = "warning" /\ SendWarning /\ starter' = "announcing"
     \/ /\ starter = "announcing"
        /\ registered < capacity
        /\ registered' = registered + 1
        /\ starter' = "returning"
        /\ UNCHANGED <<errors, warnings, ready>>
  /\ StarterOnly

\* Mutant: the registered channel is made without a buffer.
ReportRegistrationUnbuffered == RegistrationReported(0)

\* m.err, m.warn and m.registered <- payload of registerInstance.
ReportRegistration == RegistrationReported(1)

Returned(loopStarts) ==
  /\ starter = "returning"
  /\ starter' = "returned"
  /\ sender' = IF sender = "disabled" THEN "disabled" ELSE "selecting"
  /\ loop' = IF loopStarts THEN "selecting" ELSE "notStarted"
  /\ UNCHANGED <<channels, onReady, isReady, poller, caller, closer>>

\* Mutant: the event loop is only started for a listener of the application.
ReturnWithoutLoop == Returned(FALSE)

\* go m.sync(); then the deferred go uc.sync().
Return == Returned(TRUE)

-----------------------------------------------------------------------------
(***************************************************************************)
(* The poller.                                                             *)
(***************************************************************************)
PollerOnly == UNCHANGED <<onReady, starter, loop, sender,
                          caller, closer>>

PollerGoes(from, to) == poller = from /\ poller' = to

FetchTick == PollerGoes("selecting", "fetching") /\ UNCHANGED <<channels, isReady>> /\ PollerOnly

FetchReturns ==
  /\ \/ ~isReady /\ PollerGoes("fetching", "announcing")  \* no error
     \/ isReady /\ PollerGoes("fetching", "selecting")
     \/ PollerGoes("fetching", "reporting")
     \/ closer # "idle" /\ PollerGoes("fetching", "selecting")  \* context.Canceled
  /\ UNCHANGED <<channels, isReady>> /\ PollerOnly

ReportFetchError ==
  /\ PollerGoes("reporting", "selecting") \/ PollerGoes("flushing", "closed")
  /\ SendError
  /\ UNCHANGED isReady /\ PollerOnly

Announced(flag) ==
  /\ PollerGoes("announcing", "selecting")
  /\ ready = 0
  /\ ready' = 1
  /\ isReady' = flag
  /\ UNCHANGED <<errors, warnings, registered>> /\ PollerOnly

\* Mutant: isReady is never set.
AnnounceReadyAlways == Announced(FALSE)

\* r.isReady = true; r.ready <- true
AnnounceReady == Announced(TRUE)

\* The close branch; the backup may fail to be written, which is reported.
PollerCloses ==
  /\ closer # "idle"
  /\ PollerGoes("selecting", "closed") \/ PollerGoes("selecting", "flushing")
  /\ UNCHANGED <<channels, isReady>> /\ PollerOnly

-----------------------------------------------------------------------------
(***************************************************************************)
(* The metrics sender.                                                     *)
(***************************************************************************)
SenderOnly == UNCHANGED <<onReady, isReady, starter, poller,
                          caller, closer>>

SenderGoes(from, to) == sender = from /\ sender' = to

SendTick == SenderGoes("selecting", "posting") /\ UNCHANGED <<channels, loop>> /\ SenderOnly

PostReturns ==
  /\ \E outcome \in {"sending", "warning", "reporting"} : SenderGoes("posting", outcome)
  /\ UNCHANGED <<channels, loop>> /\ SenderOnly

ReportPost ==
  /\ \/ SenderGoes("reporting", "selecting") /\ SendError
     \/ SenderGoes("warning", "selecting") /\ SendWarning
  /\ UNCHANGED loop /\ SenderOnly

\* m.sent <- payload, received by the event loop.
HandOverSent ==
  /\ SenderGoes("sending", "selecting")
  /\ loop = "selecting"
  /\ loop' = "OnSent"
  /\ UNCHANGED channels /\ SenderOnly

SenderCloses ==
  /\ closer \in {"metrics", "loop", "done"}
  /\ SenderGoes("selecting", "closed")
  /\ UNCHANGED <<channels, loop>> /\ SenderOnly

-----------------------------------------------------------------------------
(***************************************************************************)
(* The callers of IsEnabled and GetVariant.                                *)
(***************************************************************************)
CallerOnly == UNCHANGED <<onReady, isReady, starter, poller,
                          sender, closer>>

CallerGoes(c, from, to) == caller[c] = from /\ caller' = [caller EXCEPT ![c] = to]

\* Mutant: metrics.count does not ask whether the metrics are disabled.
CountedAlways == "counting"

\* What is left to do after the evaluation: metrics.count, unless disabled.
Counted == IF sender = "disabled" THEN "idle" ELSE "counting"

Evaluate(c) ==
  /\ starter = "returned"
  /\ closer = "idle" \/ CallsDuringClose
  /\ CallerGoes(c, "idle", Counted) \/ (EvaluationErrs /\ CallerGoes(c, "idle", "erring"))
  /\ UNCHANGED <<channels, loop>> /\ CallerOnly

\* uc.errors <- err; a bad constraint lets the loop over the strategies go on.
ReportEvaluation(c) ==
  /\ CallerGoes(c, "erring", Counted) \/ CallerGoes(c, "erring", "erring")
  /\ SendError
  /\ UNCHANGED loop /\ CallerOnly

\* The deferred metrics.count: a send on the count channel.
HandOverCount(c) ==
  /\ CallerGoes(c, "counting", "idle")
  /\ loop = "selecting"
  /\ loop' = "OnCount"
  /\ UNCHANGED channels /\ CallerOnly

-----------------------------------------------------------------------------
(***************************************************************************)
(* The event loop.                                                         *)
(***************************************************************************)
LoopOnly == UNCHANGED <<isReady, starter, poller, sender,
                        caller, closer>>

Receives(channel, rest, callback) ==
  /\ loop = "selecting"
  /\ channel > 0
  /\ channel' = channel - 1
  /\ loop' = callback
  /\ UNCHANGED rest /\ LoopOnly

TakeError   == Receives(errors, <<warnings, ready, registered, onReady>>, "OnError")
TakeWarning == Receives(warnings, <<errors, ready, registered, onReady>>, "OnWarning")
TakeRegistered == Receives(registered, <<errors, warnings, ready, onReady>>, "OnRegistered")

\* close(uc.onReady), which panics if it is closed already.
TakeReady ==
  /\ Receives(ready, <<errors, warnings, registered>>, "OnReady")
  /\ onReady' = TRUE

\* The method of the listener returns (it calls nothing of the client).
CallbackReturns ==
  /\ loop \in Callbacks
  /\ loop' = "selecting"
  /\ UNCHANGED <<channels, onReady>> /\ LoopOnly

LoopCloses ==
  /\ loop = "selecting"
  /\ closer = "loop"
  /\ loop' = "stopped"
  /\ UNCHANGED <<channels, onReady>> /\ LoopOnly

\* An application that reads the channels itself, as doc.go describes: it
\* competes with the event loop for every message.
ReaderTakes ==
  /\ UserDrains
  /\ starter = "returned"
  /\ \/ errors > 0 /\ errors' = errors - 1
        /\ UNCHANGED <<warnings, ready, registered, sender, caller>>
     \/ warnings > 0 /\ warnings' = warnings - 1
        /\ UNCHANGED <<errors, ready, registered, sender, caller>>
     \/ registered > 0 /\ registered' = registered - 1
        /\ UNCHANGED <<errors, warnings, ready, sender, caller>>
     \/ ready > 0 /\ ready' = ready - 1
        /\ UNCHANGED <<errors, warnings, registered, sender, caller>>
     \/ SenderGoes("sending", "selecting") /\ UNCHANGED <<channels, caller>>
     \/ \E c \in Callers : CallerGoes(c, "counting", "idle")
        /\ UNCHANGED <<channels, sender>>
  /\ UNCHANGED <<onReady, isReady, starter, loop, poller, closer>>

-----------------------------------------------------------------------------
(***************************************************************************)
(* Client.Close.                                                           *)
(***************************************************************************)
CloserGoes(from, to) ==
  /\ closer = from
  /\ closer' = to
  /\ UNCHANGED <<channels, onReady, isReady, starter, loop,
                 poller, sender, caller>>

CloseStarts ==
  /\ starter = "returned"
  /\ CallsDuringClose \/ \A c \in Callers : caller[c] = "idle"
  /\ CloserGoes("idle", "repository")

\* Mutant: the event loop is stopped together with the metrics, not after them.
CloseProceedsTogether ==
  \/ poller = "closed" /\ CloserGoes("repository", "loop")
  \/ loop = "stopped" /\ sender \in {"closed", "disabled"} /\ CloserGoes("loop", "done")

\* <-r.closed, then <-m.closed, then close(uc.close) and <-uc.closed.
CloseProceeds ==
  \/ poller = "closed" /\ CloserGoes("repository", "metrics")
  \/ sender \in {"closed", "disabled"} /\ CloserGoes("metrics", "loop")
  \/ loop = "stopped" /\ CloserGoes("loop", "done")

-----------------------------------------------------------------------------
StarterStep == Fail \/ StartRepository \/ Register \/ ReportRegistration \/ Return
PollerStep == FetchTick \/ FetchReturns \/ ReportFetchError \/ AnnounceReady \/ PollerCloses
SenderStep == SendTick \/ PostReturns \/ ReportPost \/ HandOverSent \/ SenderCloses
CallerStep(c) == Evaluate(c) \/ ReportEvaluation(c) \/ HandOverCount(c)
LoopStep == TakeError \/ TakeWarning \/ TakeRegistered \/ TakeReady \/ CallbackReturns \/ LoopCloses

Next ==
  \/ StarterStep
  \/ PollerStep
  \/ SenderStep
  \/ \E c \in Callers : CallerStep(c)
  \/ LoopStep
  \/ ReaderTakes
  \/ CloseStarts
  \/ CloseProceeds

Spec == Init /\ [][Next]_vars

(***************************************************************************)
(* Goroutines run.  A select picks one of its ready cases at random, and   *)
(* senders that wait for a channel are served in order: no ready case and  *)
(* no sender is passed over for ever (SF).  The registration returns, and  *)
(* a request returns once its context is cancelled; other requests need    *)
(* not return, and the application need not call anything.                 *)
(***************************************************************************)
PollerProgress == FetchReturns \/ ReportFetchError
SenderProgress == PostReturns \/ ReportPost \/ HandOverSent
CallerProgress(c) == HandOverCount(c) \/ (ReportEvaluation(c) /\ caller'[c] # "erring")

\* What callers need of the event loop.
LoopFairness ==
  /\ WF_vars(StarterStep \/ AnnounceReady \/ CloseProceeds)
  /\ WF_vars(CallbackReturns)
  /\ SF_vars(TakeError) /\ SF_vars(TakeReady)
  /\ \A c \in Callers : SF_vars(CallerProgress(c))

\* What Close needs of the components and of the event loop.
ComponentFairness ==
  /\ SF_vars(closer # "idle" /\ PollerProgress) /\ SF_vars(PollerCloses)
  /\ SF_vars(closer = "metrics" /\ SenderProgress) /\ SF_vars(SenderCloses)
  /\ SF_vars(TakeWarning) /\ SF_vars(LoopCloses)
  /\ SF_vars(ReaderTakes)

FairSpec == Spec /\ LoopFairness /\ ComponentFairness

-----------------------------------------------------------------------------
(***************************************************************************)
(* Correctness.                                                            *)
(***************************************************************************)

\* onReady is never closed twice (that would panic): poller, channel, loop and
\* the application's own reader together know of one announcement.
AnnouncedOnce == onReady => ready = 0 /\ poller # "announcing"

\* The event loop, which the components need to get rid of their messages,
\* stops after both of them; a component left behind would block for ever.
LoopStopsLast == loop = "stopped" => poller = "closed" /\ sender \in {"closed", "disabled"}

\* A NewClient that returns an error has started nothing that would have to be
\* closed but the event loop, which has at most the warning about the url to
\* deliver: the caller gets no client to close.
FailureLeavesOnlyLoop ==
  starter = "failed" =>
    /\ poller = "notStarted" /\ sender \in {"notStarted", "disabled"}
    /\ errors = 0 /\ ready = 0 /\ registered = 0 /\ warnings <= 1

\* What the client promises the application; see Service.
Life ==
  CASE closer = "done" -> "closed"
    [] closer \notin {"idle", "done"} -> "closing"
    [] closer = "idle" /\ starter = "returned" -> "running"
    [] closer = "idle" /\ starter = "failed" -> "failed"
    [] OTHER -> "starting"

Working ==
  {worker \in {"poller", "sender", "loop"} :
     \/ worker = "poller" /\ poller \notin {"notStarted", "closed"}
     \/ worker = "sender" /\ sender \notin {"notStarted", "closed", "disabled"}
     \/ worker = "loop" /\ loop \notin {"notStarted", "stopped"}}

Listening == IF loop \in Callbacks THEN loop ELSE "none"

Promise == INSTANCE Service WITH
  life <- Life, working <- Working, metered <- sender # "disabled",
  loaded <- isReady, released <- onReady, listening <- Listening

\* From NewClient to Close, with every message that is under way, the client
\* does what Service allows: whatever the application reads or drops, nothing
\* works or speaks when it should not.
ServiceSpec == Promise!Spec

\* NewClient returns a client, or an error.
NewClientReturns == <>(starter \in {"returned", "failed"})

\* An evaluation returns if the methods of the listener do.  It does, however
\* full the channels are, for callers that have finished before Close is called;
\* but not for others (CallsDuringClose): "It is safe to call this method from
\* multiple goroutines concurrently" (client.go:250), but one that calls it when
\* the event loop has stopped waits for ever to hand its count over.
CallsReturn == \A c \in Callers : caller[c] # "idle" ~> caller[c] = "idle"

\* Close returns, although poller and sender may be waiting for the event
\* loop when it is called.
CloseReturns == closer = "repository" ~> closer = "done"

\* WaitForReady returns once the toggles are loaded, also when the client is being
\* closed: only an event loop that is stopped before it takes the message, which
\* its select may choose (client.go:241), leaves it waiting.
ReadyDelivered == isReady ~> onReady \/ loop = "stopped"
==============================================================================
