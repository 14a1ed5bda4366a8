\* Constraints, rollouts, lists and variants of every sort, asked twice.
SPECIFICATION Spec
CONSTANTS
  Values <- ValuesMC
  Empty = ""
  PropertyNames = {"plan", "version"}
  Nil = Nil
  Lower <- LowerMC
  StrRelation <- StrRelationMC
  Order <- OrderMC
  Missing = Missing
  Malformed = Malformed
  Trim <- TrimMC
  Addresses = {"10.0.0.1"}
  Covers <- CoversMC
  Hostname = "u1"
  RandomIds = {"r1", "r2"}
  Groups = {"", "g", "h"}
  Seeds = {"rollout", "variant"}
  RolloutSeed = "rollout"
  VariantSeed = "variant"
  Hash <- HashMC
  Width = 16
  Scale = 4
  StaticContexts <- StaticMC
  Given <- GivenMC
  VariantNames = {"x", "y", "z"}
  Disabled = Disabled
  NoVariant = NoVariant
  NoAnswer = NoAnswer
  Families <- FamiliesMC
  MaxClock = 1
  MaxCalls = 2
INVARIANTS
  TypeOK
  ConstraintsRespected
  RolloutEdges
  RaisingKeepsOn
  ExactShares
  ReweighingKeepsOthers
  OnlyImproperPanics
\* After the last call nothing is left to do.
CHECK_DEADLOCK FALSE
