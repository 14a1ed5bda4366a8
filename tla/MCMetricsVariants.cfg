\* metrics.go:197 against the loop that adds a rejected bucket back.
SPECIFICATION Spec
CONSTANTS
  MaxSkips = 1
  Callers = {c1, c2}
  Toggles = {t1}
  Variants = {v1}
  NoVariant = NoVariant
  Statuses = {200, 400}
  NetworkFails = FALSE
  MaxCalls = 2
SYMMETRY Symmetry
INVARIANTS
  RejectedPostKeepsVariants
\* After Close and the last counted call nothing is left to do.
CHECK_DEADLOCK FALSE
