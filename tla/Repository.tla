----------------------------- MODULE Repository ------------------------------
(***************************************************************************)
(* The feature repository (repository.go) with its storage (storage.go,    *)
(* bootstrap_storage.go), the Unleash server it polls, and the application *)
(* goroutines that read it while they evaluate a toggle.                   *)
(*                                                                         *)
(* The server's data is abstracted to a revision number: revision n stands *)
(* for the toggles AND the segments the server published n-th; 0 stands    *)
(* for none.  A revision in `Toggleless` is a document without toggles.    *)
(* `features` and `segments` are the revisions held in memory, `backup`    *)
(* the one in the backup file, `etag` the one named by the ETag the next   *)
(* request carries (0: no ETag).                                           *)
(*                                                                         *)
(* Errors are handed to a channel of the client: the poller waits there    *)
(* only for the client's event loop, so this module takes the report to    *)
(* return.                                                                 *)
(***************************************************************************)
EXTENDS Backoff

CONSTANTS
  Evaluators,   \* goroutines that evaluate toggles
  Statuses,     \* HTTP status codes the server may answer with
  Torn,         \* a backup file that was truncated and not completely written
  Bootstrap,    \* revision BootstrapStorage reads (0: DefaultStorage, no Reader)
  Toggleless,   \* revisions whose document has no toggles
  DiskFails,    \* may opening, creating or writing the backup file fail?
  MaxRevision,  \* bound: revisions the server publishes
  MaxRestarts   \* bound: restarts of the process

ASSUME RepositoryAssumption ==
  /\ Statuses \subseteq Nat
  /\ Torn \notin Nat
  /\ Bootstrap \in 0 .. 1
  /\ Toggleless \subseteq Nat
  /\ DiskFails \in BOOLEAN
  /\ MaxRevision \in Nat \ {0}
  /\ MaxRestarts \in Nat

VARIABLES
  published,   \* latest revision on the server
  answer,      \* the response the poller is processing
  poller,      \* where the goroutine running repository.sync is
  etag, segments, features, isReady, backoff,
  backup,      \* revision in the backup file; survives a restart
  unsaved,     \* history: the last use of the backup file failed
  closing,     \* repository.close is closed, the request context cancelled
  quiet,       \* history: ticks the poller let pass since its last request
  restarts,    \* history: restarts so far
  evaluation   \* what each evaluator has read

serverVars == <<published, answer>>
memory     == <<etag, segments, features, isReady>>
disk       == <<backup, unsaved>>
run        == <<closing, quiet, restarts>>
vars == <<published, answer, poller, etag, segments, features, isReady,
          backoff, backup, unsaved, closing, quiet, restarts, evaluation>>

Revision == 0 .. MaxRevision

\* The map of toggles is empty.
NoToggles(revision) == revision = 0 \/ revision \in Toggleless

Steps == {"fetching", "answered", "resetting", "persisting", "writing",
          "persisted", "fetched", "selecting", "flushing", "finishing", "closed"}

\* The poller holds the repository's write lock (repository.go, Lock..Unlock).
Locked == poller \in {"resetting", "persisting", "writing", "persisted"}

NoAnswer  == [status |-> 0, revision |-> 0, etag |-> 0]
Idle      == [step |-> "idle", toggle |-> 0, segments |-> {}]
Answers    == [status : Statuses \cup {0}, revision : Revision, etag : Revision]
Evaluation == [step : {"idle", "resolving"}, toggle : Revision, segments : SUBSET Revision]

NotModifiedStatus == 304
Ok(status) == 200 <= status /\ status < 300

TypeOK ==
  /\ published \in 1 .. MaxRevision
  /\ answer \in Answers
  /\ poller \in Steps
  /\ etag \in Revision
  /\ segments \in Revision
  /\ features \in Revision
  /\ isReady \in BOOLEAN
  /\ backoff \in BackoffState
  /\ backup \in Revision \cup {Torn}
  /\ unsaved \in BOOLEAN
  /\ closing \in BOOLEAN
  /\ quiet \in Nat
  /\ restarts \in 0 .. MaxRestarts
  /\ evaluation \in [Evaluators -> Evaluation]

(***************************************************************************)
(* The server.  It is taken to answer with its latest revision, and with   *)
(* 304 only to a request that names that revision.                         *)
(***************************************************************************)
Publish ==
  /\ published < MaxRevision
  /\ published' = published + 1
  /\ UNCHANGED <<answer, poller, memory, backoff, disk, run, evaluation>>

Answer(status) ==
  /\ poller = "fetching"
  /\ status = NotModifiedStatus => etag # 0 /\ etag = published
  /\ \E tag \in {0, published} :
       answer' = [status |-> status, revision |-> published, etag |-> tag]
  /\ poller' = "answered"
  /\ UNCHANGED <<published, memory, backoff, disk, run, evaluation>>

-----------------------------------------------------------------------------
(***************************************************************************)
(* repository.fetch, after the response arrived.                           *)
(***************************************************************************)

\* Mutant: the ETag header is stored before the body is known to decode.
LeaveKeepingEtag(next) ==
  /\ poller' = next
  /\ etag' = answer.etag
  /\ answer' = NoAnswer
  /\ UNCHANGED <<published, segments, features, isReady, disk, run, evaluation>>

\* A return of fetch that leaves the data alone.
Leave(next) ==
  /\ poller' = next
  /\ answer' = NoAnswer
  /\ UNCHANGED <<published, memory, disk, run, evaluation>>

\* 304: fetch returns nil at once; successfulFetch is not called.
NotModified ==
  /\ poller = "answered"
  /\ answer.status = NotModifiedStatus
  /\ Leave("fetched")
  /\ UNCHANGED backoff

\* statusIsOK is not satisfied.
Refused(next) ==
  /\ poller = "answered"
  /\ ~Ok(answer.status)
  /\ answer.status # NotModifiedStatus
  /\ backoff' = AfterRefusal(backoff, answer.status)
  /\ Leave(next)

\* Mutant: the error of statusIsOK is not returned.
RefuseSilently == Refused("fetched")

Refuse == Refused("selecting")

\* No response: connection error, or the context was cancelled by Close.
FetchFails ==
  /\ poller = "fetching"
  /\ Leave("selecting")
  /\ UNCHANGED backoff

\* A body that json cannot decode: the answer is dropped before the lock.
DecodeFails ==
  /\ poller = "answered"
  /\ Ok(answer.status)
  /\ Leave("selecting")
  /\ UNCHANGED backoff

Installed(newSegments) ==
  /\ poller = "answered"
  /\ Ok(answer.status)
  /\ etag' = answer.etag
  /\ segments' = newSegments
  /\ poller' = "resetting"
  /\ UNCHANGED <<serverVars, features, isReady, backoff, disk, run, evaluation>>

\* Mutant: the segments are only read from the first response.
InstallSegmentsOnce == Installed(IF isReady THEN segments ELSE answer.revision)

\* r.Lock(); r.etag = ...; r.segments = ...  Evaluators see the segments from
\* here on: resolveSegmentConstraints does not take the lock.
InstallSegments == Installed(answer.revision)

ResetTo(toggles) ==
  /\ poller = "resetting"
  /\ features' = toggles
  /\ poller' = "persisting"
  /\ UNCHANGED <<serverVars, etag, segments, isReady, backoff, disk, run, evaluation>>

\* Mutant: the storage is only filled by the first response.
ResetTogglesOnce == ResetTo(IF isReady THEN features ELSE answer.revision)

\* DefaultStorage.Reset(data, true): ds.data = data, then Persist.
ResetToggles == ResetTo(answer.revision)

\* r.successfulFetch(); r.Unlock(); return nil
FinishFetch ==
  /\ poller = "persisted"
  /\ backoff' = Success(backoff)
  /\ Leave("fetched")

\* fetchAndReportError when fetch returned nil.
Announce ==
  /\ poller = "fetched"
  /\ isReady' = TRUE
  /\ poller' = "selecting"
  /\ UNCHANGED <<serverVars, etag, segments, features, backoff, disk, run, evaluation>>

-----------------------------------------------------------------------------
(***************************************************************************)
(* DefaultStorage.Persist: os.Create truncates the file, Encode writes it. *)
(* It runs inside fetch, where its error is dropped, and on Close.         *)
(***************************************************************************)
Persist(next, content, failed) ==
  /\ poller' = next
  /\ backup' = content
  /\ unsaved' = failed
  /\ UNCHANGED <<serverVars, memory, backoff, run, evaluation>>

CreateBackup ==
  \/ poller = "persisting" /\ Persist("writing", Torn, unsaved)
  \/ poller = "flushing"   /\ Persist("finishing", Torn, unsaved)

\* Mutant: Close leaves the file as os.Create made it.
WriteBackupUnlessClosing ==
  \/ poller = "writing"   /\ Persist("persisted", features, FALSE)
  \/ poller = "finishing" /\ Persist("closed", backup, FALSE)

WriteBackup ==
  \/ poller = "writing"   /\ Persist("persisted", features, FALSE)
  \/ poller = "finishing" /\ Persist("closed", features, FALSE)

\* os.Create or Encode returns an error: the old file, or what was written.
PersistFails ==
  /\ DiskFails
  /\ \/ poller \in {"persisting", "writing"}  /\ Persist("persisted", backup, TRUE)
     \/ poller \in {"flushing", "finishing"} /\ Persist("closed", backup, TRUE)

-----------------------------------------------------------------------------
(***************************************************************************)
(* The select of repository.sync: the ticker or the close channel.         *)
(***************************************************************************)
Poll ==
  /\ poller = "selecting"
  /\ backoff.skips = 0
  /\ poller' = "fetching"
  /\ quiet' = 0
  /\ UNCHANGED <<serverVars, memory, backoff, disk, closing, restarts, evaluation>>

SkipTick ==
  /\ poller = "selecting"
  /\ backoff.skips > 0
  /\ backoff' = DecrementSkips(backoff)
  /\ quiet' = quiet + 1
  /\ UNCHANGED <<serverVars, poller, memory, disk, closing, restarts, evaluation>>

CloseTaken(heeded) ==
  /\ poller = "selecting"
  /\ closing
  /\ heeded
  /\ poller' = "flushing"
  /\ UNCHANGED <<serverVars, memory, backoff, disk, run, evaluation>>

\* Mutant: the poller listens to close only once it is ready.
TakeCloseWhenReady == CloseTaken(isReady)

TakeClose == CloseTaken(TRUE)

\* repository.Close up to its wait for `closed`: close(r.close); r.cancel().
Close ==
  /\ ~closing
  /\ closing' = TRUE
  /\ UNCHANGED <<serverVars, poller, memory, backoff, disk, quiet, restarts, evaluation>>

-----------------------------------------------------------------------------
(***************************************************************************)
(* The start of the process: newRepository calls storage.Init.             *)
(***************************************************************************)

\* DefaultStorage.Load into the empty map: a torn file does not decode.
Loaded(file) == IF file = Torn THEN 0 ELSE file

\* Mutant: BootstrapStorage.Load without its test for loaded data.
StorageInitAlwaysBootstrap(file) == IF Bootstrap # 0 THEN Bootstrap ELSE Loaded(file)

\* BootstrapStorage.Init: the Reader, if there is one, is read when the map in
\* memory is empty, which is also so after loading a document without toggles;
\* only the toggles of the Reader's data are kept.
StorageInit(file) ==
  IF NoToggles(Loaded(file)) /\ Bootstrap # 0 THEN Bootstrap ELSE Loaded(file)

\* storage.Init; the backup file may be unreadable at this start.
StartStorage ==
  \/ features' = StorageInit(backup) /\ unsaved' = FALSE
  \/ DiskFails /\ features' = StorageInit(0) /\ unsaved' = TRUE

\* The process crashed anywhere, or ended after Close, and starts again.
Restart ==
  /\ restarts < MaxRestarts
  /\ restarts' = restarts + 1
  /\ StartStorage
  /\ answer' = NoAnswer
  /\ poller' = "fetching"
  /\ etag' = 0
  /\ segments' = 0
  /\ isReady' = FALSE
  /\ backoff' = Steady
  /\ closing' = FALSE
  /\ quiet' = 0
  /\ evaluation' = [e \in Evaluators |-> Idle]
  /\ UNCHANGED <<published, backup>>

-----------------------------------------------------------------------------
(***************************************************************************)
(* An evaluation reads one toggle, and then the segments that the toggle's *)
(* strategies name, one strategy at a time.                                *)
(***************************************************************************)

\* Mutant: a second look-up replaces the toggle, the segments already read stay.
GetToggleAgain(e) ==
  /\ ~Locked
  /\ evaluation' = [evaluation EXCEPT ![e].step = "resolving", ![e].toggle = features]
  /\ UNCHANGED <<serverVars, poller, memory, backoff, disk, run>>

\* getToggle, under the read lock.
GetToggle(e) ==
  /\ evaluation[e].step = "idle"
  /\ ~Locked
  /\ evaluation' = [evaluation EXCEPT ![e] =
                      [step |-> "resolving", toggle |-> features, segments |-> {}]]
  /\ UNCHANGED <<serverVars, poller, memory, backoff, disk, run>>

\* resolveSegmentConstraints of one strategy, under no lock.
ResolveSegments(e) ==
  /\ evaluation[e].step = "resolving"
  /\ ~NoToggles(evaluation[e].toggle)
  /\ evaluation' = [evaluation EXCEPT ![e].segments = @ \cup {segments}]
  /\ UNCHANGED <<serverVars, poller, memory, backoff, disk, run>>

Return(e) ==
  /\ evaluation[e].step = "resolving"
  /\ evaluation' = [evaluation EXCEPT ![e] = Idle]
  /\ UNCHANGED <<serverVars, poller, memory, backoff, disk, run>>

-----------------------------------------------------------------------------
\* newRepository on the first start: no backup file yet.
Init ==
  /\ published = 1
  /\ answer = NoAnswer
  /\ poller = "fetching"
  /\ etag = 0
  /\ segments = 0
  /\ features = StorageInit(0)
  /\ isReady = FALSE
  /\ backoff = Steady
  /\ backup = 0 /\ unsaved = FALSE
  /\ closing = FALSE
  /\ quiet = 0
  /\ restarts = 0
  /\ evaluation = [e \in Evaluators |-> Idle]

\* What the poller does by itself, without waiting for the network or Close.
PollerStep ==
  \/ NotModified \/ Refuse \/ DecodeFails \/ InstallSegments \/ ResetToggles
  \/ CreateBackup \/ WriteBackup \/ PersistFails \/ FinishFetch \/ Announce
  \/ Poll \/ SkipTick

Next ==
  \/ Publish
  \/ \E status \in Statuses : Answer(status)
  \/ FetchFails
  \/ PollerStep
  \/ TakeClose
  \/ Close
  \/ Restart
  \/ \E e \in Evaluators : GetToggle(e) \/ ResolveSegments(e) \/ Return(e)

Spec == Init /\ [][Next]_vars

(***************************************************************************)
(* The ticker keeps firing and the goroutine keeps running; a cancelled    *)
(* request returns; Go's select takes a ready close channel sooner or      *)
(* later; a server that is asked again and again sometimes answers with a  *)
(* document the client can decode, if the request does not name the        *)
(* revision the server has.  A request that is not cancelled may never     *)
(* return: http.DefaultClient has no timeout.                              *)
(***************************************************************************)
AnswerFresh ==
  /\ ~closing /\ etag # published
  /\ \E status \in Statuses : Ok(status) /\ Answer(status)

Fairness ==
  /\ WF_vars(PollerStep)
  /\ WF_vars(closing /\ FetchFails)
  /\ SF_vars(TakeClose)
  /\ SF_vars(AnswerFresh)
  /\ SF_vars(InstallSegments)

FairSpec == Spec /\ Fairness

-----------------------------------------------------------------------------
(***************************************************************************)
(* Correctness.                                                            *)
(***************************************************************************)

MidInstall == poller = "resetting"

\* The ETag sent with the next request never names another revision than the
\* toggles in memory: with a wrong one the server would answer 304 for ever
\* (repository.go 137-150, 162-164).
EtagMatchesToggles == ~MidInstall => etag \in {0, features}

\* From the first fetch on, and outside the two assignments of the write
\* lock, toggles and segments in memory come from one response.
ReadyServesOneSnapshot == isReady /\ ~MidInstall => segments = features /\ features # 0

\* A repository that is ready has its toggles in the backup file, and so has
\* one that was closed, unless it is writing the file right now or the last
\* attempt at it failed; a later success makes up for a failure.
BackupTracksMemory ==
  /\ ~unsaved
  /\ isReady \/ poller = "closed"
  /\ poller \notin {"persisting", "writing", "finishing"}
  => backup = features

\* The toggles in memory go back to an older revision only when the process
\* starts again, and only for one of three causes: it crashed between
\* storage.Reset and the end of a write of the backup file; the last write, or
\* the read at the start, failed; or the last document had no toggles, which a
\* start takes for nothing loaded (bootstrap_storage.go:17).
RollbackHasCause ==
  [][features' < features
       => /\ restarts' > restarts
          /\ \/ poller \in {"persisting", "writing", "finishing"}
             \/ unsaved \/ unsaved'
             \/ NoToggles(features) /\ features' = Bootstrap]_vars

\* The unlocked read of the segments never finds older ones than the toggle
\* they are resolved for; it may find none after a start from storage.
SegmentsNotOlder ==
  \A e \in Evaluators : \A s \in evaluation[e].segments : s = 0 \/ s >= evaluation[e].toggle

\* However the refusals and successes follow one another, the poller never
\* lets more than maxSkips ticks pass without a request.
PollGapBounded == quiet + backoff.skips <= MaxSkips

\* Once the server stops publishing, the client serves the last revision,
\* whatever failed on the way, unless it is closed.
EventuallyFresh == published = MaxRevision ~> features = MaxRevision \/ closing

\* Close returns: the poller reaches close(r.closed), unless the process dies
\* first (only a restart takes `closing` back).
CloseTerminates == closing ~> poller = "closed" \/ ~closing

\* "It is safe to call this method from multiple goroutines concurrently"
\* (client.go:250): an evaluation sees one revision of the server's data.
EvaluationUsesOneSnapshot ==
  \A e \in Evaluators : evaluation[e].segments \subseteq {evaluation[e].toggle}

-----------------------------------------------------------------------------
\* What the repository promises its users; see FeatureCache.
Cache == INSTANCE FeatureCache WITH
  served <- features,
  ready  <- isReady,
  loaded <- isReady \/ (segments # 0 /\ ~MidInstall)

CacheSpec == Cache!Spec
==============================================================================
