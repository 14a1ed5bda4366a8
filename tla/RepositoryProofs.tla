--------------------------- MODULE RepositoryProofs --------------------------
(***************************************************************************)
(* The safety properties of Repository, for every number of evaluators,    *)
(* revisions, restarts and skipped ticks, every set of status codes and of *)
(* documents without toggles, with and without a bootstrap document and a  *)
(* failing disk.                                                           *)
(***************************************************************************)
EXTENDS Repository, TLAPS

-----------------------------------------------------------------------------
(***************************************************************************)
(* Back-off: the operations keep both counters in 0 .. MaxSkips.           *)
(***************************************************************************)

\* backoff, configurationError, successfulFetch and decrementSkips return a
\* state whose counters are in range.
LEMMA BackoffTyping ==
  ASSUME NEW b \in BackoffState, NEW status
  PROVE  /\ AfterRefusal(b, status) \in BackoffState
         /\ Success(b) \in BackoffState
         /\ DecrementSkips(b) \in BackoffState
BY MaxSkipsAssumption
   DEF BackoffState, AfterRefusal, Success, DecrementSkips,
       ConfigurationError, BackOff, SkipEqually

\* A repository starts without back-off.
LEMMA SteadyTyping == Steady \in BackoffState
BY MaxSkipsAssumption DEF Steady, BackoffState, SkipEqually

\* A tick takes exactly one off a pause that is not over.
LEMMA DecrementBySkip ==
  ASSUME NEW b \in BackoffState, b.skips > 0
  PROVE  DecrementSkips(b).skips = b.skips - 1
BY MaxSkipsAssumption DEF BackoffState, DecrementSkips

\* storage.Init yields a revision the file or the bootstrap document held.
LEMMA StorageInitTyping ==
  ASSUME NEW n \in Nat, 1 <= n, NEW file \in (0 .. n) \cup {Torn}
  PROVE  /\ StorageInit(file) \in 0 .. n
         /\ StorageInit(0) \in 0 .. n
BY RepositoryAssumption DEF StorageInit, Loaded, NoToggles

-----------------------------------------------------------------------------
(***************************************************************************)
(* Types.                                                                  *)
(***************************************************************************)

\* The records the actions build.
LEMMA RecordTyping ==
  /\ NoAnswer \in Answers
  /\ Idle \in Evaluation
  /\ \A status \in Statuses, r, tag \in Revision :
       [status |-> status, revision |-> r, etag |-> tag] \in Answers
  /\ \A r \in Revision, S \in SUBSET Revision :
       [step |-> "resolving", toggle |-> r, segments |-> S] \in Evaluation
BY RepositoryAssumption DEF NoAnswer, Answers, Idle, Evaluation, Revision

LEMMA InitTypeOK == Init => TypeOK
<1> SUFFICES ASSUME Init PROVE TypeOK
  OBVIOUS
<1> USE RepositoryAssumption
<1>1. features \in Revision
  BY StorageInitTyping DEF Init, Revision
<1>2. answer \in Answers /\ backoff \in BackoffState
  BY RecordTyping, SteadyTyping DEF Init
<1>3. evaluation \in [Evaluators -> Evaluation]
  BY RecordTyping DEF Init
<1>4. isReady \in BOOLEAN /\ closing \in BOOLEAN /\ unsaved \in BOOLEAN
  BY DEF Init
<1> QED
  BY <1>1, <1>2, <1>3, <1>4 DEF Init, TypeOK, Revision, Steps

LEMMA NextTypeOK == TypeOK /\ [Next]_vars => TypeOK'
<1> SUFFICES ASSUME TypeOK, [Next]_vars PROVE TypeOK'
  OBVIOUS
<1> USE RepositoryAssumption DEF TypeOK, Revision, Steps, serverVars, memory, disk, run
<1>1. CASE Publish
  BY <1>1 DEF Publish
<1>2. ASSUME NEW status \in Statuses, Answer(status) PROVE TypeOK'
  BY <1>2, RecordTyping DEF Answer
<1>3. CASE FetchFails
  BY <1>3, RecordTyping DEF FetchFails, Leave
<1>4. CASE NotModified
  BY <1>4, RecordTyping DEF NotModified, Leave
<1>5. CASE Refuse
  BY <1>5, BackoffTyping, RecordTyping DEF Refuse, Refused, Leave
<1>6. CASE DecodeFails
  BY <1>6, RecordTyping DEF DecodeFails, Leave
<1>7. CASE InstallSegments
  BY <1>7 DEF InstallSegments, Installed, Answers
<1>8. CASE ResetToggles
  BY <1>8 DEF ResetToggles, ResetTo, Answers
<1>9. CASE CreateBackup \/ WriteBackup \/ PersistFails
  BY <1>9 DEF CreateBackup, WriteBackup, PersistFails, Persist
<1>10. CASE FinishFetch
  BY <1>10, BackoffTyping, RecordTyping DEF FinishFetch, Leave
<1>11. CASE Announce
  BY <1>11 DEF Announce
<1>12. CASE Poll
  BY <1>12 DEF Poll
<1>13. CASE SkipTick
  BY <1>13, BackoffTyping DEF SkipTick
<1>14. CASE TakeClose
  BY <1>14 DEF TakeClose, CloseTaken
<1>15. CASE Close
  BY <1>15 DEF Close
<1>16. CASE Restart
  <2>1. features' \in Revision
    BY <1>16, StorageInitTyping, MaxRevision \in Nat DEF Restart, StartStorage
  <2>2. evaluation' \in [Evaluators -> Evaluation]
    BY <1>16, RecordTyping DEF Restart
  <2>3. isReady' \in BOOLEAN /\ closing' \in BOOLEAN /\ unsaved' \in BOOLEAN
    BY <1>16 DEF Restart, StartStorage
  <2> QED
    BY <1>16, <2>1, <2>2, <2>3, SteadyTyping, RecordTyping DEF Restart
<1>17. ASSUME NEW e \in Evaluators, GetToggle(e) PROVE TypeOK'
  BY <1>17, RecordTyping DEF GetToggle
<1>18. ASSUME NEW e \in Evaluators, ResolveSegments(e) PROVE TypeOK'
  BY <1>18 DEF ResolveSegments, Evaluation
<1>19. ASSUME NEW e \in Evaluators, Return(e) PROVE TypeOK'
  BY <1>19, RecordTyping DEF Return
<1>20. CASE UNCHANGED vars
  BY <1>20 DEF vars
<1> QED
  BY <1>1, <1>2, <1>3, <1>4, <1>5, <1>6, <1>7, <1>8, <1>9, <1>10, <1>11, <1>12,
     <1>13, <1>14, <1>15, <1>16, <1>17, <1>18, <1>19, <1>20
     DEF Next, PollerStep

\* The state stays in the types of repository.go and storage.go.
THEOREM TypeCorrect == Spec => []TypeOK
BY InitTypeOK, NextTypeOK, PTL DEF Spec

-----------------------------------------------------------------------------
(***************************************************************************)
(* The inductive invariant, in four parts.                                 *)
(***************************************************************************)

\* The poller is processing a response.
InFlight == poller \in {"answered", "resetting", "persisting", "writing", "persisted"}

\* How the answer, the ETag and the two halves of the data relate.
DataInv ==
  /\ features <= published
  /\ features = 0 => Bootstrap = 0
  /\ InFlight => /\ answer.revision \in 1 .. published
                 /\ features <= answer.revision
                 /\ answer.etag \in {0, answer.revision}
  /\ poller = "answered" /\ answer.status = NotModifiedStatus => etag # 0
  /\ MidInstall => segments = answer.revision /\ etag = answer.etag
  /\ poller \in {"persisting", "writing", "persisted"} => features = answer.revision
  /\ poller \in {"persisting", "writing", "persisted", "fetched"} => segments # 0
  /\ ~MidInstall => etag \in {0, features}
  /\ ~MidInstall /\ segments # 0 => segments = features
  /\ etag # 0 => segments # 0
  /\ isReady => segments # 0
  /\ segments # 0 /\ poller \in {"fetching", "answered", "selecting"} => isReady

\* An evaluation's toggle is not newer than the one in memory.
ReadInv == \A e \in Evaluators :
  /\ evaluation[e].toggle <= features
  /\ \A s \in evaluation[e].segments : s = 0 \/ s >= evaluation[e].toggle

\* A request is sent without a pause before it.
PaceInv ==
  /\ quiet + backoff.skips <= MaxSkips
  /\ InFlight \/ poller = "fetching" => quiet = 0

\* The backup file holds what is in memory, or memory is what a start made of
\* the file, except during a write and after one that failed.
Writing == poller \in {"persisting", "writing", "finishing"}

BackupInv ==
  /\ backup # Torn => backup <= published
  /\ ~unsaved => /\ ~Writing => features \in {Loaded(backup), StorageInit(backup)}
                 /\ isReady /\ ~Writing => backup = features
                 /\ poller \in {"persisted", "fetched", "closed"} => backup = features

Inv == DataInv /\ ReadInv /\ PaceInv /\ BackupInv

LEMMA InitInv == Init => Inv
<1> SUFFICES ASSUME Init PROVE Inv
  OBVIOUS
<1> USE RepositoryAssumption, MaxSkipsAssumption
<1>1. DataInv
  BY DEF Init, DataInv, InFlight, MidInstall, StorageInit, Loaded, NoToggles
<1>2. ReadInv
  BY StorageInitTyping DEF Init, ReadInv, Idle
<1>3. PaceInv
  BY DEF Init, PaceInv, Steady, SkipEqually
<1>4. BackupInv
  BY DEF Init, BackupInv, Writing
<1> QED
  BY <1>1, <1>2, <1>3, <1>4 DEF Inv

LEMMA NextDataInv == TypeOK /\ DataInv /\ BackupInv /\ [Next]_vars => DataInv'
<1> SUFFICES ASSUME TypeOK, DataInv, BackupInv, [Next]_vars PROVE DataInv'
  OBVIOUS
<1> USE RepositoryAssumption DEF TypeOK, Revision, DataInv, InFlight, MidInstall, serverVars, memory, disk, run
<1>1. CASE Publish
  BY <1>1 DEF Publish
<1>2. CASE FetchFails
  BY <1>2 DEF FetchFails, Leave, NoAnswer
<1>3. CASE NotModified
  BY <1>3 DEF NotModified, Leave, NoAnswer
<1>4. CASE Refuse
  BY <1>4 DEF Refuse, Refused, Leave, NoAnswer
<1>5. CASE DecodeFails
  BY <1>5 DEF DecodeFails, Leave, NoAnswer
<1>6. CASE InstallSegments
  BY <1>6 DEF InstallSegments, Installed
<1>7. CASE ResetToggles
  BY <1>7 DEF ResetToggles, ResetTo
<1>8. CASE CreateBackup
  BY <1>8 DEF CreateBackup, Persist
<1>9. CASE WriteBackup
  BY <1>9 DEF WriteBackup, Persist
<1>10. CASE PersistFails
  BY <1>10 DEF PersistFails, Persist
<1>11. CASE FinishFetch
  BY <1>11 DEF FinishFetch, Leave, NoAnswer
<1>12. CASE Announce
  BY <1>12 DEF Announce
<1>13. CASE Poll
  BY <1>13 DEF Poll
<1>14. CASE SkipTick
  BY <1>14 DEF SkipTick
<1>15. CASE TakeClose
  BY <1>15 DEF TakeClose, CloseTaken
<1>16. CASE Close
  BY <1>16 DEF Close
<1>17. CASE Restart
  <2>1. features' \in 0 .. published
    BY <1>17, StorageInitTyping DEF Restart, StartStorage, BackupInv
  <2>2. features' = 0 => Bootstrap = 0
    BY <1>17 DEF Restart, StartStorage, StorageInit, Loaded, NoToggles
  <2> QED
    BY <1>17, <2>1, <2>2 DEF Restart, NoAnswer
<1>18. CASE UNCHANGED vars
  BY <1>18 DEF vars
<1>19. ASSUME NEW status \in Statuses, Answer(status) PROVE DataInv'
  BY <1>19 DEF Answer
<1>20. ASSUME NEW e \in Evaluators, GetToggle(e) PROVE DataInv'
  BY <1>20 DEF GetToggle
<1>21. ASSUME NEW e \in Evaluators, ResolveSegments(e) PROVE DataInv'
  BY <1>21 DEF ResolveSegments
<1>22. ASSUME NEW e \in Evaluators, Return(e) PROVE DataInv'
  BY <1>22 DEF Return, Idle
<1> QED
  BY <1>1, <1>2, <1>3, <1>4, <1>5, <1>6, <1>7, <1>8, <1>9, <1>10, <1>11,
     <1>12, <1>13, <1>14, <1>15, <1>16, <1>17, <1>18, <1>19, <1>20,
     <1>21, <1>22
     DEF Next, PollerStep

LEMMA NextReadInv == TypeOK /\ DataInv /\ ReadInv /\ [Next]_vars => ReadInv'
<1> SUFFICES ASSUME TypeOK, DataInv, ReadInv, [Next]_vars PROVE ReadInv'
  OBVIOUS
<1> USE RepositoryAssumption DEF TypeOK, Revision, Evaluation, ReadInv, serverVars, memory, disk, run
<1>1. CASE Publish
  BY <1>1 DEF Publish
<1>2. CASE FetchFails
  BY <1>2 DEF FetchFails, Leave, NoAnswer
<1>3. CASE NotModified
  BY <1>3 DEF NotModified, Leave, NoAnswer
<1>4. CASE Refuse
  BY <1>4 DEF Refuse, Refused, Leave, NoAnswer
<1>5. CASE DecodeFails
  BY <1>5 DEF DecodeFails, Leave, NoAnswer
<1>6. CASE InstallSegments
  BY <1>6 DEF InstallSegments, Installed
<1>7. CASE ResetToggles
  BY <1>7 DEF ResetToggles, ResetTo, DataInv, InFlight
<1>8. CASE CreateBackup
  BY <1>8 DEF CreateBackup, Persist
<1>9. CASE WriteBackup
  BY <1>9 DEF WriteBackup, Persist
<1>10. CASE PersistFails
  BY <1>10 DEF PersistFails, Persist
<1>11. CASE FinishFetch
  BY <1>11 DEF FinishFetch, Leave, NoAnswer
<1>12. CASE Announce
  BY <1>12 DEF Announce
<1>13. CASE Poll
  BY <1>13 DEF Poll
<1>14. CASE SkipTick
  BY <1>14 DEF SkipTick
<1>15. CASE TakeClose
  BY <1>15 DEF TakeClose, CloseTaken
<1>16. CASE Close
  BY <1>16 DEF Close
<1>17. CASE Restart
  <2>1. features' \in Revision
    BY <1>17, NextTypeOK
  <2> QED
    BY <1>17, <2>1 DEF Restart, Idle
<1>18. CASE UNCHANGED vars
  BY <1>18 DEF vars
<1>19. ASSUME NEW status \in Statuses, Answer(status) PROVE ReadInv'
  BY <1>19 DEF Answer
<1>20. ASSUME NEW e \in Evaluators, GetToggle(e) PROVE ReadInv'
  BY <1>20 DEF GetToggle
<1>21. ASSUME NEW e \in Evaluators, ResolveSegments(e) PROVE ReadInv'
  BY <1>21 DEF ResolveSegments, DataInv, InFlight, MidInstall, Answers
<1>22. ASSUME NEW e \in Evaluators, Return(e) PROVE ReadInv'
  BY <1>22 DEF Return, Idle
<1> QED
  BY <1>1, <1>2, <1>3, <1>4, <1>5, <1>6, <1>7, <1>8, <1>9, <1>10, <1>11,
     <1>12, <1>13, <1>14, <1>15, <1>16, <1>17, <1>18, <1>19, <1>20,
     <1>21, <1>22
     DEF Next, PollerStep

LEMMA NextPaceInv == TypeOK /\ PaceInv /\ [Next]_vars => PaceInv'
<1> SUFFICES ASSUME TypeOK, PaceInv, [Next]_vars PROVE PaceInv'
  OBVIOUS
<1> USE MaxSkipsAssumption DEF TypeOK, BackoffState, PaceInv, InFlight, serverVars, memory, disk, run
<1>1. CASE Publish
  BY <1>1 DEF Publish
<1>2. CASE FetchFails
  BY <1>2 DEF FetchFails, Leave, NoAnswer
<1>3. CASE NotModified
  BY <1>3 DEF NotModified, Leave, NoAnswer
<1>4. CASE Refuse
  <2>1. AfterRefusal(backoff, answer.status) \in BackoffState
    BY BackoffTyping
  <2> QED
    BY <1>4, <2>1 DEF Refuse, Refused, Leave
<1>5. CASE DecodeFails
  BY <1>5 DEF DecodeFails, Leave, NoAnswer
<1>6. CASE InstallSegments
  BY <1>6 DEF InstallSegments, Installed
<1>7. CASE ResetToggles
  BY <1>7 DEF ResetToggles, ResetTo
<1>8. CASE CreateBackup
  BY <1>8 DEF CreateBackup, Persist
<1>9. CASE WriteBackup
  BY <1>9 DEF WriteBackup, Persist
<1>10. CASE PersistFails
  BY <1>10 DEF PersistFails, Persist
<1>11. CASE FinishFetch
  <2>1. Success(backoff) \in BackoffState
    BY BackoffTyping
  <2> QED
    BY <1>11, <2>1 DEF FinishFetch, Leave
<1>12. CASE Announce
  BY <1>12 DEF Announce
<1>13. CASE Poll
  BY <1>13 DEF Poll
<1>14. CASE SkipTick
  BY <1>14, DecrementBySkip DEF SkipTick
<1>15. CASE TakeClose
  BY <1>15 DEF TakeClose, CloseTaken
<1>16. CASE Close
  BY <1>16 DEF Close
<1>17. CASE Restart
  BY <1>17 DEF Restart, Steady, SkipEqually
<1>18. CASE UNCHANGED vars
  BY <1>18 DEF vars
<1>19. ASSUME NEW status \in Statuses, Answer(status) PROVE PaceInv'
  BY <1>19 DEF Answer
<1>20. ASSUME NEW e \in Evaluators, GetToggle(e) PROVE PaceInv'
  BY <1>20 DEF GetToggle
<1>21. ASSUME NEW e \in Evaluators, ResolveSegments(e) PROVE PaceInv'
  BY <1>21 DEF ResolveSegments
<1>22. ASSUME NEW e \in Evaluators, Return(e) PROVE PaceInv'
  BY <1>22 DEF Return, Idle
<1> QED
  BY <1>1, <1>2, <1>3, <1>4, <1>5, <1>6, <1>7, <1>8, <1>9, <1>10, <1>11,
     <1>12, <1>13, <1>14, <1>15, <1>16, <1>17, <1>18, <1>19, <1>20,
     <1>21, <1>22
     DEF Next, PollerStep

LEMMA NextBackupInv == TypeOK /\ DataInv /\ BackupInv /\ [Next]_vars => BackupInv'
<1> SUFFICES ASSUME TypeOK, DataInv, BackupInv, [Next]_vars PROVE BackupInv'
  OBVIOUS
<1> USE RepositoryAssumption DEF TypeOK, Revision, BackupInv, Writing, serverVars, memory, disk, run
<1>1. CASE Publish
  BY <1>1 DEF Publish
<1>2. CASE FetchFails
  BY <1>2 DEF FetchFails, Leave, NoAnswer
<1>3. CASE NotModified
  BY <1>3 DEF NotModified, Leave, NoAnswer, DataInv
<1>4. CASE Refuse
  BY <1>4 DEF Refuse, Refused, Leave, NoAnswer
<1>5. CASE DecodeFails
  BY <1>5 DEF DecodeFails, Leave, NoAnswer
<1>6. CASE InstallSegments
  BY <1>6 DEF InstallSegments, Installed
<1>7. CASE ResetToggles
  BY <1>7 DEF ResetToggles, ResetTo
<1>8. CASE CreateBackup
  BY <1>8 DEF CreateBackup, Persist
<1>9. CASE WriteBackup
  BY <1>9 DEF WriteBackup, Persist, DataInv, Loaded
<1>10. CASE PersistFails
  BY <1>10 DEF PersistFails, Persist
<1>11. CASE FinishFetch
  BY <1>11 DEF FinishFetch, Leave, NoAnswer
<1>12. CASE Announce
  BY <1>12 DEF Announce
<1>13. CASE Poll
  BY <1>13 DEF Poll
<1>14. CASE SkipTick
  BY <1>14 DEF SkipTick
<1>15. CASE TakeClose
  BY <1>15 DEF TakeClose, CloseTaken
<1>16. CASE Close
  BY <1>16 DEF Close
<1>17. CASE Restart
  BY <1>17 DEF Restart, StartStorage
<1>18. CASE UNCHANGED vars
  BY <1>18 DEF vars
<1>19. ASSUME NEW status \in Statuses, Answer(status) PROVE BackupInv'
  BY <1>19 DEF Answer
<1>20. ASSUME NEW e \in Evaluators, GetToggle(e) PROVE BackupInv'
  BY <1>20 DEF GetToggle
<1>21. ASSUME NEW e \in Evaluators, ResolveSegments(e) PROVE BackupInv'
  BY <1>21 DEF ResolveSegments
<1>22. ASSUME NEW e \in Evaluators, Return(e) PROVE BackupInv'
  BY <1>22 DEF Return, Idle
<1> QED
  BY <1>1, <1>2, <1>3, <1>4, <1>5, <1>6, <1>7, <1>8, <1>9, <1>10, <1>11,
     <1>12, <1>13, <1>14, <1>15, <1>16, <1>17, <1>18, <1>19, <1>20,
     <1>21, <1>22
     DEF Next, PollerStep

\* The invariant holds throughout.
THEOREM Invariance == Spec => [](TypeOK /\ Inv)
<1>1. Init => TypeOK /\ Inv
  BY InitTypeOK, InitInv
<1>2. TypeOK /\ Inv /\ [Next]_vars => (TypeOK /\ Inv)'
  BY NextTypeOK, NextDataInv, NextReadInv, NextPaceInv, NextBackupInv DEF Inv
<1> QED
  BY <1>1, <1>2, PTL DEF Spec

-----------------------------------------------------------------------------
(***************************************************************************)
(* The safety properties.                                                  *)
(***************************************************************************)

\* The ETag of the next request names the toggles in memory (fetch).
THEOREM EtagSafety == Spec => []EtagMatchesToggles
<1>1. Inv => EtagMatchesToggles
  BY DEF Inv, DataInv, EtagMatchesToggles
<1> QED
  BY <1>1, Invariance, PTL

\* A ready repository holds the toggles and segments of one response.
THEOREM SnapshotSafety == Spec => []ReadyServesOneSnapshot
<1>1. Inv => ReadyServesOneSnapshot
  BY DEF Inv, DataInv, ReadyServesOneSnapshot
<1> QED
  BY <1>1, Invariance, PTL

\* resolveSegmentConstraints, without the lock, never reads segments that are
\* older than the toggle getToggle returned.
THEOREM SegmentSafety == Spec => []SegmentsNotOlder
<1>1. Inv => SegmentsNotOlder
  BY DEF Inv, ReadInv, SegmentsNotOlder
<1> QED
  BY <1>1, Invariance, PTL

\* At most maxSkips ticks pass between two requests of sync.
THEOREM PollGapSafety == Spec => []PollGapBounded
<1>1. Inv => PollGapBounded
  BY DEF Inv, PaceInv, PollGapBounded
<1> QED
  BY <1>1, Invariance, PTL

\* A ready or closed repository has its toggles in the backup file.
THEOREM BackupSafety == Spec => []BackupTracksMemory
<1>1. Inv => BackupTracksMemory
  BY DEF Inv, BackupInv, Writing, BackupTracksMemory
<1> QED
  BY <1>1, Invariance, PTL

\* What a step does to the toggles in memory, to readiness and to the server.
LEMMA StepOfToggles ==
  TypeOK /\ Inv /\ [Next]_vars
    => \/ Restart
       \/ features <= features' /\ restarts' = restarts
<1> SUFFICES ASSUME TypeOK, Inv, [Next]_vars, ~Restart
             PROVE  features <= features' /\ restarts' = restarts
  OBVIOUS
<1> USE DEF TypeOK, Revision, serverVars, memory, disk, run
<1>1. CASE ResetToggles
  BY <1>1 DEF ResetToggles, ResetTo, Inv, DataInv, InFlight
<1>2. CASE UNCHANGED <<features, restarts>>
  BY <1>2
<1> QED
  BY <1>1, <1>2
     DEF Next, PollerStep, vars, Publish, Answer, FetchFails, NotModified, Refuse,
         Refused, DecodeFails, InstallSegments, Installed, CreateBackup, WriteBackup,
         PersistFails, Persist, FinishFetch, Announce, Poll, SkipTick, TakeClose,
         CloseTaken, Close, GetToggle, ResolveSegments, Return, Leave

\* Toggles are rolled back by nothing but a restart, after a crash during a
\* write of the backup file, after the file could not be written or read, or
\* after a document without toggles (Persist and Load of storage.go, Load of
\* bootstrap_storage.go).
THEOREM RollbackSafety == Spec => RollbackHasCause
<1>1. TypeOK /\ Inv /\ [Next]_vars =>
        [features' < features
           => /\ restarts' > restarts
              /\ \/ poller \in {"persisting", "writing", "finishing"}
                 \/ unsaved \/ unsaved'
                 \/ NoToggles(features) /\ features' = Bootstrap]_vars
  <2> SUFFICES ASSUME TypeOK, Inv, [Next]_vars, features' < features
               PROVE  /\ restarts' > restarts
                      /\ \/ Writing
                         \/ unsaved \/ unsaved'
                         \/ NoToggles(features) /\ features' = Bootstrap
    BY DEF Writing
  <2>1. Restart
    BY StepOfToggles, NextTypeOK DEF TypeOK, Revision
  <2>2. restarts' > restarts
    BY <2>1, RepositoryAssumption DEF Restart, TypeOK
  <2>3. ASSUME ~Writing, ~unsaved, ~unsaved'
        PROVE  NoToggles(features) /\ features' = Bootstrap
    <3>1. features' = StorageInit(backup)
      BY <2>1, <2>3 DEF Restart, StartStorage
    <3>2. features \in {Loaded(backup), StorageInit(backup)}
      BY <2>3 DEF Inv, BackupInv
    <3>3. features = Loaded(backup) /\ features' # features
      BY <3>1, <3>2 DEF TypeOK, Revision
    <3> QED
      BY <3>1, <3>3 DEF StorageInit
  <2> QED
    BY <2>2, <2>3
<1> QED
  BY <1>1, Invariance, PTL DEF Spec, RollbackHasCause

-----------------------------------------------------------------------------
(***************************************************************************)
(* Repository implements FeatureCache.                                     *)
(***************************************************************************)

\* newRepository starts the cache with what is stored, and not ready.
LEMMA InitImplementsCache == Init => Cache!Init
<1> SUFFICES ASSUME Init PROVE Cache!Init
  OBVIOUS
<1>1. features \in 0 .. 1
  BY StorageInitTyping DEF Init
<1> QED
  BY <1>1 DEF Init, Cache!Init, MidInstall

\* Every step of the repository is a step of the cache or none: storage.Reset
\* under the lock is its Refresh.
LEMMA NextImplementsCache == TypeOK /\ Inv /\ [Next]_vars => [Cache!Next]_(Cache!cacheVars)
<1> SUFFICES ASSUME TypeOK, Inv, [Next]_vars PROVE [Cache!Next]_(Cache!cacheVars)
  OBVIOUS
<1> USE DEF TypeOK, Revision, Cache!Next, Cache!cacheVars, MidInstall, serverVars, memory, disk, run
<1>1. CASE Publish
  BY <1>1 DEF Publish, Cache!Publish
<1>2. CASE FetchFails
  BY <1>2 DEF FetchFails, Leave
<1>3. CASE NotModified
  BY <1>3 DEF NotModified, Leave
<1>4. CASE Refuse
  BY <1>4 DEF Refuse, Refused, Leave
<1>5. CASE DecodeFails
  BY <1>5 DEF DecodeFails, Leave
<1>6. CASE InstallSegments
  BY <1>6 DEF InstallSegments, Installed, Inv, DataInv
<1>7. CASE ResetToggles
  BY <1>7 DEF ResetToggles, ResetTo, Inv, DataInv, InFlight, Cache!Refresh
<1>8. CASE CreateBackup \/ WriteBackup \/ PersistFails
  BY <1>8 DEF CreateBackup, WriteBackup, PersistFails, Persist
<1>9. CASE FinishFetch
  BY <1>9 DEF FinishFetch, Leave
<1>10. CASE Announce
  BY <1>10 DEF Announce, Cache!Announce, Inv, DataInv
<1>11. CASE Poll
  BY <1>11 DEF Poll
<1>12. CASE SkipTick
  BY <1>12 DEF SkipTick
<1>13. CASE TakeClose
  BY <1>13 DEF TakeClose, CloseTaken
<1>14. CASE Close
  BY <1>14 DEF Close, Cache!Stop
<1>15. CASE Restart
  <2>1. features' \in 0 .. published
    BY <1>15, StorageInitTyping DEF Restart, StartStorage, Inv, BackupInv
  <2> QED
    BY <1>15, <2>1 DEF Restart, Cache!Restart
<1>16. CASE UNCHANGED vars
  BY <1>16 DEF vars
<1>17. ASSUME NEW status \in Statuses, Answer(status) PROVE [Cache!Next]_(Cache!cacheVars)
  BY <1>17 DEF Answer
<1>18. ASSUME NEW e \in Evaluators, GetToggle(e) \/ ResolveSegments(e) \/ Return(e)
       PROVE  [Cache!Next]_(Cache!cacheVars)
  BY <1>18 DEF GetToggle, ResolveSegments, Return
<1> QED
  BY <1>1, <1>2, <1>3, <1>4, <1>5, <1>6, <1>7, <1>8, <1>9, <1>10, <1>11, <1>12,
     <1>13, <1>14, <1>15, <1>16, <1>17, <1>18 DEF Next, PollerStep

\* The repository is a cache that moves forward within a run and is announced
\* only with data of the server (repository.go, storage.go).
THEOREM Implementation == Spec => CacheSpec
<1> QED
  BY InitImplementsCache, NextImplementsCache, Invariance, PTL
     DEF Spec, CacheSpec, Cache!Spec
==============================================================================
