\* Two callers; posts are accepted, rejected or unanswered.
SPECIFICATION FairSpec
CONSTANTS
  MaxSkips = 1
  Callers = {c1, c2}
  Toggles = {t1}
  Variants = {v1}
  NoVariant = NoVariant
  Statuses = {200, 300, 404, 503}
  NetworkFails = TRUE
  MaxCalls = 3
INVARIANTS
  TypeOK
  NeverOverreported
  AnswersConserved
  WindowCoversCounts
PROPERTIES
  CountsKept
  LedgerSpec
  EventuallyReported
  CloseTerminates
\* After Close and the last counted call nothing is left to do.
CHECK_DEADLOCK FALSE
