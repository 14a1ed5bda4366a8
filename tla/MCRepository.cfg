\* An evaluator, a bootstrap document, a document without toggles, restarts at any point, a disk that may fail.
SPECIFICATION FairSpec
CONSTANTS
  MaxSkips = 2
  Evaluators = {e1}
  Statuses = {200, 304, 404, 503}
  Torn = Torn
  Bootstrap = 1
  Toggleless = {2}
  DiskFails = TRUE
  MaxRevision = 3
  MaxRestarts = 2
INVARIANTS
  TypeOK
  EtagMatchesToggles
  ReadyServesOneSnapshot
  BackupTracksMemory
  SegmentsNotOlder
  PollGapBounded
PROPERTIES
  RollbackHasCause
  CacheSpec
  EventuallyFresh
  CloseTerminates
