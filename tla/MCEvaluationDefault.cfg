\* api/variant.go:88 after an evaluation of variants that weigh nothing.
SPECIFICATION Spec
CONSTANTS
  Callers = {c1}
  Names = {"a", "b", "c"}
  VariantNames = {"x", "y"}
  SegmentIds = {1}
  Nil = Nil
  MaxInstalls = 0
  Documents <- Weightless
  Updates <- NoUpdates
INVARIANTS
  DefaultVariantIsOff
