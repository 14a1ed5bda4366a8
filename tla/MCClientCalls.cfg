\* An evaluation while the client is closed.
SPECIFICATION FairSpec
CONSTANTS
  Callers = {c1}
  Capacity = 1
  RegisterErrs = FALSE
  EvaluationErrs = FALSE
  CallsDuringClose = TRUE
  UserDrains = FALSE
  OldUrl = FALSE
  BadOptions = FALSE
  MetricsOptional = FALSE
PROPERTIES
  CallsReturn
\* The client stops.
CHECK_DEADLOCK FALSE
