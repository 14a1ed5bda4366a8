\* Every document of three families; those of one replace each other meanwhile.
SPECIFICATION FairSpec
CONSTANTS
  Callers = {c1}
  Names = {"a", "b", "c"}
  VariantNames = {"x", "y"}
  SegmentIds = {1}
  Nil = Nil
  MaxInstalls = 2
  Documents <- AllDocuments
  Updates <- UpdatesOfSuccessive
INVARIANTS
  TypeOK
  AnswerOfOneDocument
  StackBounded
  EnabledHasWitness
PROPERTIES
  EvaluationAdvances
  EvaluationReturns
