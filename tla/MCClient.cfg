\* Two callers, the channels of NewClient, an application that also reads them.
SPECIFICATION Spec
CONSTANTS
  Callers = {c1, c2}
  Capacity = 3
  RegisterErrs = TRUE
  EvaluationErrs = TRUE
  CallsDuringClose = TRUE
  UserDrains = TRUE
  OldUrl = TRUE
  BadOptions = TRUE
  MetricsOptional = TRUE
SYMMETRY Symmetry
INVARIANTS
  TypeOK
  AnnouncedOnce
  LoopStopsLast
  FailureLeavesOnlyLoop
PROPERTY
  ServiceSpec
\* A client whose NewClient hangs, or that was closed, stops.
CHECK_DEADLOCK FALSE
