\* client.go:250 against the unlocked read of the segments: no restart, no bootstrap.
SPECIFICATION Spec
CONSTANTS
  MaxSkips = 2
  Evaluators = {e1, e2}
  Statuses = {200, 304}
  Torn = Torn
  Bootstrap = 0
  Toggleless = {}
  DiskFails = FALSE
  MaxRevision = 2
  MaxRestarts = 0
SYMMETRY Symmetry
INVARIANTS
  EvaluationUsesOneSnapshot
