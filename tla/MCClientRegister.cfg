\* NewClient while the server cannot be reached.
SPECIFICATION FairSpec
CONSTANTS
  Callers = {}
  Capacity = 3
  RegisterErrs = TRUE
  EvaluationErrs = FALSE
  CallsDuringClose = FALSE
  UserDrains = FALSE
  OldUrl = FALSE
  BadOptions = FALSE
  MetricsOptional = FALSE
PROPERTIES
  NewClientReturns
\* A client whose NewClient hangs, or that was closed, stops.
CHECK_DEADLOCK FALSE
