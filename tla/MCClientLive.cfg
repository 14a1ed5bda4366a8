\* Liveness of the start, of a caller and of Close: buffers of one block most.
SPECIFICATION FairSpec
CONSTANTS
  Callers = {c1}
  Capacity = 1
  RegisterErrs = FALSE
  EvaluationErrs = TRUE
  CallsDuringClose = FALSE
  UserDrains = FALSE
  OldUrl = FALSE
  BadOptions = TRUE
  MetricsOptional = TRUE
PROPERTIES
  NewClientReturns
  CallsReturn
  ReadyDelivered
  CloseReturns
\* After Close nothing is left to do.
CHECK_DEADLOCK FALSE
