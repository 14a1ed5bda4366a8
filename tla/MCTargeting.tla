----------------------------- MODULE MCTargeting -----------------------------
EXTENDS Targeting, TLC

Strings ==
  <<"", "u1", "U1", " u1", "s1", "10.0.0.1", "10.0.0.0/8", "prod", "dev",
    "1", "2", "1.2.0", "1.10.0", "d1", "r1", "r2">>

ValuesMC == {Strings[i] : i \in DOMAIN Strings}

LowerMC == [v \in ValuesMC |-> IF v = "U1" THEN "u1" ELSE v]
TrimMC  == [v \in ValuesMC |-> IF v = " u1" THEN "u1" ELSE v]

\* Which of these strings contain, start with and end with which.
Always      == {<<v, v>> : v \in ValuesMC} \cup {<<v, "">> : v \in ValuesMC}
StartWithOne == {"10.0.0.1", "10.0.0.0/8", "1.2.0", "1.10.0"}
EndWithOne   == {"u1", "U1", " u1", "s1", "10.0.0.1", "d1", "r1"}
Starts   == {<<v, "1">> : v \in StartWithOne}
EndsIn   == {<<v, "1">> : v \in EndWithOne} \cup {<<" u1", "u1">>, <<"r2", "2">>}
Includes == Starts \cup EndsIn \cup {<<"1.2.0", "2">>}

StrRelationMC ==
  [STR_CONTAINS |-> Always \cup Includes, STR_STARTS_WITH |-> Always \cup Starts,
   STR_ENDS_WITH |-> Always \cup EndsIn]

\* 1.2.0 is before 1.10.0, which is not the order of the strings.
OrderMC ==
  [num |-> ("1" :> 1) @@ ("2" :> 2), date |-> "d1" :> 0,
   semver |-> ("1.2.0" :> 1) @@ ("1.10.0" :> 2)]

CoversMC == {<<"10.0.0.1", "10.0.0.1">>, <<"10.0.0.0/8", "10.0.0.1">>}

\* The shares of rollouts and of variants differ.
Ordinal(v) == CHOOSE i \in DOMAIN Strings : Strings[i] = v
HashMC ==
  [key \in {"rollout", "variant"} \X {"", "g", "h"} \X ValuesMC |->
     (Ordinal(key[3]) * (IF key[1] = "rollout" THEN 5 ELSE 3)
        + (IF key[2] = "h" THEN 1 ELSE 0) + 1) % 16]

-----------------------------------------------------------------------------
Blank ==
  [userId |-> "", sessionId |-> "", remoteAddress |-> "", environment |-> "", appName |-> "",
   currentTime |-> "", properties |-> Nil]

StaticMC == {[Blank EXCEPT !.environment = "prod"]}

GivenMC ==
  {Blank,
   [Blank EXCEPT !.userId = "u1", !.sessionId = "s1", !.remoteAddress = "10.0.0.1"],
   [Blank EXCEPT !.sessionId = "s1", !.currentTime = "d1"],
   [Blank EXCEPT !.remoteAddress = "10.0.0.1", !.environment = "dev"],
   [Blank EXCEPT !.userId = "U1", !.properties = [plan |-> "2", version |-> "1.10.0"]]}

NoParameters ==
  [rollout |-> Missing, groupId |-> Missing, stickiness |-> Missing,
   hasList |-> FALSE, list |-> {}]

Apply(strategy, parameters, constraints, variants) ==
  [strategy |-> strategy, parameters |-> parameters, constraints |-> constraints,
   variants |-> variants]

-----------------------------------------------------------------------------
\* Up to two constraints of every sort, of a strategy that is always on.
Is(field, operator, values, value) ==
  [contextName |-> field, operator |-> operator, values |-> values, value |-> value,
   caseInsensitive |-> FALSE, inverted |-> FALSE]

PlainConstraints ==
  {Is("environment", "IN", {"prod"}, ""), Is("userId", "NOT_IN", {"u1", ""}, ""),
   Is("plan", "NUM_GTE", {}, "2"), Is("plan", "NUM_LT", {}, "prod"),
   Is("currentTime", "DATE_AFTER", {}, "d1"), Is("version", "SEMVER_GT", {}, "1.2.0"),
   Is("sessionId", "UNKNOWN", {"s1"}, "s1"),
   [Is("userId", "STR_ENDS_WITH", {"u1"}, "") EXCEPT !.caseInsensitive = TRUE]}

ConstraintSorts == PlainConstraints \cup {[c EXCEPT !.inverted = TRUE] : c \in PlainConstraints}

Constrained ==
  {{Apply("default", NoParameters, list, <<>>)} :
     list \in UNION {[1 .. n -> ConstraintSorts] : n \in 1 .. 2}}

\* Every rollout of the gradual strategies.
Rollouts(strategy, group, sticky, constraints) ==
  {Apply(strategy, [NoParameters EXCEPT !.rollout = rollout, !.groupId = group,
                                        !.stickiness = sticky], constraints, <<>>) :
     rollout \in Percentages \cup {Missing, Malformed}}

RolledOut ==
  {Rollouts("flexibleRollout", group, sticky, <<>>) :
     group \in {"g", Missing, Malformed},
     sticky \in {"", "default", "random", "sessionId", "plan", Missing}}
  \cup {Rollouts(strategy, group, Missing, <<Is("userId", "NOT_IN", {"U1"}, "")>>) :
          strategy \in {"gradualRolloutUserId", "gradualRolloutSessionId", "gradualRolloutRandom"},
          group \in {"g", "h", Missing}}

\* Lists of users, addresses and hosts.
Listed ==
  {{Apply(strategy, [NoParameters EXCEPT !.hasList = TRUE, !.list = list], <<>>, <<>>) :
      list \in {{}, {""}, {" u1", "s1"}, {"10.0.0.0/8", ""}, {"U1"}}}
   \cup {Apply(strategy, NoParameters, <<>>, <<>>)} :
     strategy \in {"userWithId", "remoteAddress", "applicationHostname"}}

\* Weights that are moved about, with and without overrides.
Weigh(name, weight, sticky, overrides) ==
  [name |-> name, weight |-> weight, stickiness |-> sticky, overrides |-> overrides]

For(field, values) == <<[contextName |-> field, values |-> values]>>

Weights ==
  {<<1, 2, 1>>, <<2, 1, 1>>, <<0, 3, 1>>, <<1, 0, 3>>, <<0, 0, 0>>, <<8, 8, 0>>, <<9, 9, 0>>,
   <<-1, 2, 3>>, <<3, -2, 7>>}

Weighed(sticky, group, overrides) ==
  {Apply("default", [NoParameters EXCEPT !.groupId = group], <<>>,
         <<Weigh("x", w[1], sticky, overrides), Weigh("y", w[2], "userId", <<>>),
           Weigh("z", w[3], "", For("sessionId", {"none", "1"} \cap ValuesMC))>>) : w \in Weights}

Varied ==
  {Weighed(sticky, "g", <<>>) : sticky \in {"", "default", "random", "sessionId", "environment"}}
  \cup {Weighed("default", group, For("plan", {"2"})) : group \in {"h", Missing, Malformed}}

\* A gradual rollout of two variants.
RolledOutVariants ==
  {{Apply(strategy, [NoParameters EXCEPT !.rollout = rollout, !.groupId = "g",
                                         !.stickiness = "default"], <<>>,
          <<Weigh("x", weight, sticky, <<>>), Weigh("y", 4 - weight, "", <<>>)>>) :
      rollout \in 1 .. Scale, weight \in {1, 3, 4}} :
     strategy \in {"flexibleRollout", "gradualRolloutUserId"}, sticky \in {"default", "userId"}}

FamiliesMC == Constrained \cup RolledOut \cup Listed \cup Varied \cup RolledOutVariants
==============================================================================
