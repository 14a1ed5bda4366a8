----------------------------- MODULE Strategies ------------------------------
(***************************************************************************)
(* The built-in strategies (internal/strategies): whether one is enabled   *)
(* for a context, given its parameters.  Where a strategy draws a random   *)
(* number its answer is one of several, so each is the set of its possible *)
(* answers: "yes", "no", or "panic" when a type assertion fails.           *)
(*                                                                         *)
(* The hash (murmur3) is a constant function: nothing depends on which one *)
(* it is.  A comma-separated list is the set of its items, untrimmed, the  *)
(* empty set for the empty string; what net knows of addresses is constant *)
(* as well.                                                                *)
(***************************************************************************)
EXTENDS Constraints

CONSTANTS
  Missing,    \* a parameter that the document leaves out
  Malformed,  \* one of another type, or a string that is no number
  Trim,       \* strings.TrimSpace
  Addresses,  \* strings that net.ParseIP accepts
  Covers,     \* <<item, address>>: the item is the address, or a net it is in
  Hostname,   \* resolveHostname, in lower case
  RandomIds,  \* what rng.string and the fallback of getSeed may draw
  Groups,     \* group ids
  Seeds, RolloutSeed, VariantSeed,  \* 0 and VariantNormalizationSeed
  Hash,       \* murmur3 of <<seed, group, id>>
  Width,      \* 2^32, the width of the hash
  Scale       \* 100: rollouts are in percent

Percentages == 0 .. Scale

\* The parameters that the strategies read: rollout or percentage, groupId,
\* stickiness, and the list of ids, addresses or host names if there is one.
Parameters ==
  [rollout : Percentages \cup {Missing, Malformed}, groupId : Groups \cup {Missing, Malformed},
   stickiness : FieldNames \cup {Empty, "default", "random", Missing, Malformed},
   hasList : BOOLEAN, list : SUBSET Values]

StrategyNames ==
  {"default", "userWithId", "gradualRolloutUserId", "gradualRolloutSessionId",
   "gradualRolloutRandom", "flexibleRollout", "applicationHostname", "remoteAddress"}

ASSUME StrategiesAssumption ==
  /\ Missing # Malformed
  /\ \A none \in {Missing, Malformed} :
       none \notin Percentages /\ none \notin Groups
         /\ none \notin FieldNames \cup {Empty, "default", "random"}
  /\ Trim \in [Values -> Values]
  /\ Addresses \subseteq Values \ {Empty} /\ Hostname # Empty
  /\ Covers \subseteq Values \X Addresses
  /\ RandomIds \subseteq Values \ {Empty} /\ RandomIds # {}
  /\ Empty \in Groups
  /\ RolloutSeed \in Seeds /\ VariantSeed \in Seeds
  /\ Width \in Nat \ {0}
  /\ Scale \in Nat \ {0} /\ Scale < Width
  /\ Hash \in [Seeds \X Groups \X Values -> 0 .. Width - 1]

-----------------------------------------------------------------------------
(***************************************************************************)
(* Helpers.                                                                *)
(***************************************************************************)

\* parameterAsFloat64, whose second result says whether it is a number.
IsNumber(parameter) == parameter \in Percentages

\* From 1 to the normalizer, which is taken as an uint32.
NormalizedVariantValue(id, group, normalizer, seed) ==
  (Hash[<<seed, group, id>>] % (normalizer % Width)) + 1

NormalizedRolloutValue(id, group) == NormalizedVariantValue(id, group, Scale, RolloutSeed)

Answer(b) == IF b THEN "yes" ELSE "no"

\* Mutant: the comparison excludes the percentage itself.
BelowRollout(id, group, percentage) == NormalizedRolloutValue(id, group) < percentage

\* The test that the gradual strategies share.
WithinRollout(id, group, percentage) ==
  percentage > 0 /\ NormalizedRolloutValue(id, group) <= percentage

-----------------------------------------------------------------------------
(***************************************************************************)
(* The strategies.                                                         *)
(***************************************************************************)

\* Mutant: a random id for every context without a user.
ResolveStickinessByUser(sticky, ctx) ==
  IF sticky \in {"default", Empty}
  THEN IF ctx.userId # Empty THEN {ctx.userId} ELSE RandomIds
  ELSE IF sticky = "random" THEN RandomIds ELSE {Field(ctx, sticky)}

\* The candidates for the id that is hashed.
ResolveStickiness(sticky, ctx) ==
  CASE sticky \in {"default", Empty} -> IF ctx.userId # Empty THEN {ctx.userId}
                                        ELSE IF ctx.sessionId # Empty THEN {ctx.sessionId}
                                        ELSE RandomIds
    [] sticky = "random"             -> RandomIds
    [] OTHER                         -> {Field(ctx, sticky)}

FlexibleRollout(p, ctx) ==
  LET group == IF p.groupId = Missing THEN Empty ELSE p.groupId
  IN  IF p.groupId = Malformed THEN {"panic"}
      ELSE IF ~IsNumber(p.rollout) THEN {"no"}
      ELSE IF p.stickiness \in {Missing, Malformed} THEN {"panic"}
      ELSE {Answer(id # Empty /\ WithinRollout(id, group, p.rollout)) :
              id \in ResolveStickiness(p.stickiness, ctx)}

\* gradualRolloutUserId and gradualRolloutSessionId.
GradualRollout(p, id) ==
  Answer(/\ id # Empty
         /\ IsNumber(p.rollout)
         /\ p.groupId \in Groups
         /\ WithinRollout(id, p.groupId, p.rollout))

GradualRolloutRandom(p) ==
  {Answer(IsNumber(p.rollout) /\ p.rollout >= drawn) : drawn \in 1 .. Scale}

\* The empty string matches nobody, but an empty item matches a context
\* without user.
UserWithId(p, ctx) ==
  Answer(p.hasList /\ \E u \in p.list : Trim[u] = ctx.userId)

RemoteAddress(p, ctx) ==
  LET address == Trim[ctx.remoteAddress]
  IN  Answer(/\ p.hasList
             /\ address \in Addresses
             /\ \E ip \in p.list : <<Trim[ip], address>> \in Covers)

\* The items are not trimmed here.
ApplicationHostname(p) ==
  Answer(p.hasList /\ \E h \in p.list : Lower[h] = Hostname)

\* The answers that IsEnabled of a strategy may give.
StrategyAnswers(name, p, ctx) ==
  CASE name = "default"                 -> {"yes"}
    [] name = "userWithId"              -> {UserWithId(p, ctx)}
    [] name = "gradualRolloutUserId"    -> {GradualRollout(p, ctx.userId)}
    [] name = "gradualRolloutSessionId" -> {GradualRollout(p, ctx.sessionId)}
    [] name = "gradualRolloutRandom"    -> GradualRolloutRandom(p)
    [] name = "flexibleRollout"         -> FlexibleRollout(p, ctx)
    [] name = "applicationHostname"     -> {ApplicationHostname(p)}
    [] name = "remoteAddress"           -> {RemoteAddress(p, ctx)}
==============================================================================
