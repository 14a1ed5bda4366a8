\* api/feature.go:60 against client.go:371: dependencies on variants.
SPECIFICATION Spec
CONSTANTS
  Callers = {c1}
  Names = {"a", "b", "c"}
  VariantNames = {"x", "y"}
  SegmentIds = {1}
  Nil = Nil
  MaxInstalls = 0
  Documents <- Related
  Updates <- NoUpdates
INVARIANTS
  DependencyVariantsRespected
