----------------------------- MODULE Constraints -----------------------------
(***************************************************************************)
(* The context of a call (context/context.go) and the constraints of a     *)
(* strategy or segment (internal/constraints, api/constraint.go), up to    *)
(* one constraint; the loop over a list of them is in Targeting.           *)
(*                                                                         *)
(* A string is a member of Values.  What the standard library and the      *)
(* semver package say about strings is constant: which one contains,       *)
(* starts or ends with which, what it is in lower case, and where it       *)
(* stands among the numbers, dates and versions that can be parsed.        *)
(***************************************************************************)
EXTENDS Integers, Sequences

CONSTANTS
  Values,         \* the strings
  Empty,          \* ""
  PropertyNames,  \* keys of Context.Properties
  Nil,            \* no map of properties
  Lower,          \* strings.ToLower
  StrRelation,    \* strings.Contains, HasPrefix and HasSuffix, by operator
  Order           \* by parser: the strings it accepts, in their order

TypedFields == {"userId", "sessionId", "remoteAddress", "environment", "appName", "currentTime"}
FieldNames  == TypedFields \cup PropertyNames

Parsers       == {"num", "date", "semver"}
ListOperators == {"IN", "NOT_IN"}
StrOperators  == {"STR_CONTAINS", "STR_STARTS_WITH", "STR_ENDS_WITH"}

\* The signs of a comparison, context with constraint, that an operator accepts.
Signs ==
  [NUM_EQ |-> {0}, NUM_LT |-> {-1}, NUM_LTE |-> {-1, 0}, NUM_GT |-> {1}, NUM_GTE |-> {0, 1},
   DATE_BEFORE |-> {-1}, DATE_AFTER |-> {1},
   SEMVER_EQ |-> {0}, SEMVER_LT |-> {-1}, SEMVER_GT |-> {1}]

ParserOf ==
  [NUM_EQ |-> "num", NUM_LT |-> "num", NUM_LTE |-> "num", NUM_GT |-> "num", NUM_GTE |-> "num",
   DATE_BEFORE |-> "date", DATE_AFTER |-> "date",
   SEMVER_EQ |-> "semver", SEMVER_LT |-> "semver", SEMVER_GT |-> "semver"]

OrderOperators == DOMAIN ParserOf
Operators      == ListOperators \cup StrOperators \cup OrderOperators

\* An operator that is none of the Operators is "unknown constraint operator".
Constraint ==
  [contextName : FieldNames, operator : Operators \cup {"UNKNOWN"}, values : SUBSET Values,
   value : Values, caseInsensitive : BOOLEAN, inverted : BOOLEAN]

Properties == {Nil} \cup [PropertyNames -> Values]

Context ==
  [userId : Values, sessionId : Values, remoteAddress : Values, environment : Values,
   appName : Values, currentTime : Values, properties : Properties]

ASSUME ConstraintsAssumption ==
  /\ Empty \in Values
  /\ Nil \notin [PropertyNames -> Values]
  /\ Lower \in [Values -> Values]
  /\ StrRelation \in [StrOperators -> SUBSET (Values \X Values)]
  /\ DOMAIN Order = Parsers
  /\ \A p \in Parsers :
       /\ DOMAIN Order[p] \subseteq Values \ {Empty}
       /\ \A v \in DOMAIN Order[p] : Order[p][v] \in Int

-----------------------------------------------------------------------------
(***************************************************************************)
(* The context.                                                            *)
(***************************************************************************)

\* Non-empty values replace; the properties replace as one map.
Override(ctx, src) ==
  LET over(field) == IF src[field] = Empty THEN ctx[field] ELSE src[field]
  IN  [userId        |-> over("userId"),
       sessionId     |-> over("sessionId"),
       remoteAddress |-> over("remoteAddress"),
       environment   |-> over("environment"),
       appName       |-> over("appName"),
       currentTime   |-> over("currentTime"),
       properties    |-> IF src.properties = Nil THEN ctx.properties ELSE src.properties]

\* The properties of the context under a name: "" when there are none.
Property(ctx, name) ==
  IF ctx.properties = Nil \/ name \notin PropertyNames THEN Empty ELSE ctx.properties[name]

Field(ctx, name) == IF name \in TypedFields THEN ctx[name] ELSE Property(ctx, name)

-----------------------------------------------------------------------------
(***************************************************************************)
(* One constraint: whether it is fulfilled, and whether there is an error. *)
(***************************************************************************)
Met           == [ok |-> TRUE, err |-> FALSE]
Unmet         == [ok |-> FALSE, err |-> FALSE]
Failed        == [ok |-> FALSE, err |-> TRUE]
Fulfilled(ok) == IF ok THEN Met ELSE Unmet

OperatorIn(ctx, c) == Field(ctx, c.contextName) \in c.values

ToLowerIfCaseInsensitive(c, value) == IF c.caseInsensitive THEN Lower[value] ELSE value

OperatorStr(ctx, c) ==
  \E v \in c.values :
    <<ToLowerIfCaseInsensitive(c, Field(ctx, c.contextName)),
      ToLowerIfCaseInsensitive(c, v)>> \in StrRelation[c.operator]

Compare(a, b) == IF a < b THEN -1 ELSE IF a = b THEN 0 ELSE 1

\* operatorNum, operatorDate and operatorSemver: an error unless both sides can
\* be parsed.  A date that the context leaves out is the time of the check.
OperatorOrder(ctx, c, now) ==
  LET parser == ParserOf[c.operator]
      value  == Field(ctx, c.contextName)
      isNow  == parser = "date" /\ value = Empty
  IN  IF (~isNow /\ value \notin DOMAIN Order[parser]) \/ c.value \notin DOMAIN Order[parser]
      THEN Failed
      ELSE Fulfilled(Compare(IF isNow THEN now ELSE Order[parser][value],
                             Order[parser][c.value]) \in Signs[c.operator])

CheckConstraint(ctx, c, now) ==
  CASE c.operator = "IN"             -> Fulfilled(OperatorIn(ctx, c))
    [] c.operator = "NOT_IN"         -> Fulfilled(~OperatorIn(ctx, c))
    [] c.operator \in StrOperators   -> Fulfilled(OperatorStr(ctx, c))
    [] c.operator \in OrderOperators -> OperatorOrder(ctx, c, now)
    [] OTHER                         -> Failed

\* Inverting an error makes it (TRUE, err): the caller has to look at both.
CheckConstraintInvertible(ctx, c, now) ==
  LET result == CheckConstraint(ctx, c, now)
  IN  IF c.inverted THEN [ok |-> ~result.ok, err |-> result.err] ELSE result

-----------------------------------------------------------------------------
(***************************************************************************)
(* The reference: what a constraint says of a context at a time.           *)
(***************************************************************************)

\* The constraint has a meaning for the context.
Evaluable(ctx, c) ==
  /\ c.operator \in Operators
  /\ c.operator \in OrderOperators =>
       LET accepted == DOMAIN Order[ParserOf[c.operator]]
       IN  /\ c.value \in accepted
           /\ \/ Field(ctx, c.contextName) \in accepted
              \/ ParserOf[c.operator] = "date" /\ Field(ctx, c.contextName) = Empty

\* Its meaning does not change with the time.
Timeless(ctx, c) ==
  c.operator \in {"DATE_BEFORE", "DATE_AFTER"} => Field(ctx, c.contextName) # Empty
==============================================================================
