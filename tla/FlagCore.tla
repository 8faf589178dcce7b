------------------------------ MODULE FlagCore ------------------------------
(***************************************************************************)
(* The evaluation engine, package core: values, targeting conditions and   *)
(* rules, bucketing and Evaluate. It keeps no state; everything here is a  *)
(* function of a resolved flag and an evaluation context.                  *)
(*                                                                         *)
(* A value is [type, val]; a condition [attr, op, values, negate]; a rule  *)
(* [id, conditions, combiner, value]; a rollout [bp, ns, by, on, off]; a   *)
(* context [user, tenant, attrs], attrs a function on the names given.     *)
(***************************************************************************)
EXTENDS Semver

CONSTANTS
    Null,         \* a nil pointer: no rollout
    BucketSpace,  \* core.BucketSpace
    Substrings,   \* the pairs <<s, sub>> with strings.Contains(s, sub)
    Bytes         \* the ASCII codes of every string a version operator may meet

ASSUME BucketSpaceAssumption == BucketSpace \in Nat \ {0}
ASSUME BytesAssumption == \A s \in DOMAIN Bytes : Bytes[s] \in Seq(Int)

-----------------------------------------------------------------------------
(* value.go, evalctx.go                                                    *)

IsList(s) == s \in Seq(ToSet(s))

\* The zero Value.
NoValue == [type |-> "unknown", val |-> 0]

IsUnknown(v) == v.type = "unknown"

StringValue(s) == [type |-> "string", val |-> s]

\* A nil pointer is no value.
ASSUME NullAssumption == \A s \in DOMAIN Bytes : StringValue(s) # Null

\* Value.String: decimal for an int, true or false for a bool.
Render(v) ==
    CASE v.type = "string" -> v.val
      [] v.type = "int"    -> ToString(v.val)
      [] v.type = "bool"   -> IF v.val THEN "true" ELSE "false"
      [] OTHER             -> "<unset>"

\* EvalContext.Attribute, Null when not present: a present JSON null is NoValue.
\* An explicit entry wins over the shorthand.
Attribute(ctx, name) ==
    IF name \in DOMAIN ctx.attrs THEN ctx.attrs[name]
    ELSE IF name = "user_id" /\ ctx.user # "" THEN StringValue(ctx.user)
    ELSE IF name = "tenant_id" /\ ctx.tenant # "" THEN StringValue(ctx.tenant)
    ELSE Null

-----------------------------------------------------------------------------
(* matcher.go. Outcomes: "true" and "false" are decided; "absent",         *)
(* "bad_type", "bad_value" and "bad_op" are not.                           *)

triOf(b) == IF b THEN "true" ELSE "false"

Ordered == {"gt", "gte", "lt", "lte"}
Versioned == {"semver_eq", "semver_gt", "semver_lt"}
Operators == {"eq", "in", "contains", "exists"} \cup Ordered \cup Versioned

Compare(op, a, b) ==
    CASE op \in {"gt", "semver_gt"} -> a > b
      [] op \in {"lt", "semver_lt"} -> a < b
      [] op = "gte"                 -> a >= b
      [] op = "lte"                 -> a <= b
      [] op = "semver_eq"           -> a = b

\* What each string parses to.
Version == [s \in DOMAIN Bytes |-> parseSemver(Bytes[s])]

matchIn(v, values) ==
    LET comparable == {w \in ToSet(values) : w.type = v.type}
    IN  IF values = <<>> THEN "false"
        ELSE IF comparable = {} THEN "bad_type"
        ELSE triOf(v \in comparable)

\* eq, contains, the ordered and the semver operators, on their one operand.
matchOperand(op, v, want) ==
    CASE op = "eq" ->
           IF v.type # want.type THEN "bad_type" ELSE triOf(v.val = want.val)
      [] op = "contains" ->
           IF v.type # "string" \/ want.type # "string" THEN "bad_type"
           ELSE triOf(<<v.val, want.val>> \in Substrings)
      [] op \in Ordered ->
           IF v.type # "int" \/ want.type # "int" THEN "bad_type"
           ELSE triOf(Compare(op, v.val, want.val))
      [] op \in Versioned ->
           IF v.type # "string" \/ want.type # "string" THEN "bad_type"
           ELSE IF Malformed \in {Version[v.val], Version[want.val]} THEN "bad_value"
           ELSE triOf(Compare(op, compareSemver(Version[v.val], Version[want.val]), 0))
      [] OTHER -> "bad_op"

\* exists is the only operator defined on an absent attribute.
decideCondition(c, ctx) ==
    LET v == Attribute(ctx, c.attr)
    IN  IF c.op = "exists" THEN triOf(v # Null)
        ELSE IF v = Null THEN "absent"
        ELSE IF c.op = "in" THEN matchIn(v, c.values)
        ELSE IF c.op \notin Operators \/ c.values = <<>> THEN "bad_op"
        ELSE matchOperand(c.op, v, c.values[1])

\* (Mutation) Negation applied to the collapsed answer.
MatchCondition_NegatesUnknown(c, ctx) ==
    (decideCondition(c, ctx) = "true") # c.negate

\* Negate flips a decided answer; an undecided one never matches.
MatchCondition(c, ctx) ==
    decideCondition(c, ctx) = (IF c.negate THEN "false" ELSE "true")

\* All of nothing is true, any of nothing is false.
MatchRule(r, ctx) ==
    IF r.combiner = "or"
      THEN \E c \in ToSet(r.conditions) : MatchCondition(c, ctx)
      ELSE \A c \in ToSet(r.conditions) : MatchCondition(c, ctx)

-----------------------------------------------------------------------------
(* bucket.go                                                               *)

\* NamespaceStrategy.Key. The length prefix makes the composed string as good as
\* the pair; Null when there is no subject to bucket.
BucketKey(flag, ctx) ==
    LET ns      == IF flag.rollout.ns # "" THEN flag.rollout.ns ELSE flag.key
        by      == IF flag.rollout.by # "" THEN flag.rollout.by ELSE "user_id"
        subject == Attribute(ctx, by)
    IN  IF subject = Null \/ IsUnknown(subject) \/ Render(subject) = "" THEN Null
        ELSE <<ns, Render(subject)>>

-----------------------------------------------------------------------------
(* evaluator.go. hash stands for Hasher.Bucket.                            *)

NoBucket == -1

Answer(value, reason) == [value |-> value, reason |-> reason, rule |-> "", bucket |-> NoBucket]

\* The reasons that come with the caller's default (reason.go, IsFallback).
IsFallback(reason) ==
    reason \in {"FLAG_NOT_FOUND", "TYPE_MISMATCH", "MISSING_SUBJECT", "ERROR"}

\* Stage S9: the resolved value must have the flag's type.
finish(flag, res, callerDefault) ==
    IF res.value.type = flag.type THEN res
    ELSE [value |-> callerDefault, reason |-> "TYPE_MISMATCH", rule |-> "", bucket |-> res.bucket]

\* (Mutation) At or below the rollout size instead of strictly below.
EvaluateRollout_OffByOne(flag, ctx, callerDefault, hash) ==
    LET key == BucketKey(flag, ctx)
    IN  IF key = Null THEN Answer(callerDefault, "MISSING_SUBJECT")
        ELSE [value  |-> IF hash[key] <= flag.rollout.bp THEN flag.rollout.on ELSE flag.rollout.off,
              reason |-> IF hash[key] <= flag.rollout.bp THEN "ROLLOUT_IN" ELSE "ROLLOUT_OUT",
              rule   |-> "",
              bucket |-> hash[key]]

\* Stage S6b. A rollout of zero basis points is a rollout that includes nobody.
EvaluateRollout(flag, ctx, callerDefault, hash) ==
    LET key == BucketKey(flag, ctx)
        enrolled == hash[key] < flag.rollout.bp
    IN  IF key = Null THEN Answer(callerDefault, "MISSING_SUBJECT")
        ELSE IF hash[key] \notin 0..(BucketSpace - 1) THEN Answer(callerDefault, "ERROR")
        ELSE finish(flag,
                    [value  |-> IF enrolled THEN flag.rollout.on ELSE flag.rollout.off,
                     reason |-> IF enrolled THEN "ROLLOUT_IN" ELSE "ROLLOUT_OUT",
                     rule   |-> "",
                     bucket |-> hash[key]],
                    callerDefault)

\* (Mutation) Targeting is consulted before the enabled check.
EvaluateFlag_RulesBeforeEnabled(flag, ctx, want, callerDefault, hash) ==
    LET hits == {i \in DOMAIN flag.rules : MatchRule(flag.rules[i], ctx)}
    IN  IF hits # {} THEN finish(flag, Answer(flag.rules[Min(hits)].value, "RULE_MATCH"), callerDefault)
        ELSE IF ~flag.enabled THEN finish(flag, Answer(flag.off, "DISABLED"), callerDefault)
        ELSE finish(flag, Answer(flag.default, "FALLTHROUGH"), callerDefault)

\* The stages S4 to S6 on a flag that was found. The first rule that matches wins.
EvaluateFlag(flag, ctx, want, callerDefault, hash) ==
    LET hits == {i \in DOMAIN flag.rules : MatchRule(flag.rules[i], ctx)}
    IN  IF want # "unknown" /\ want # flag.type THEN Answer(callerDefault, "TYPE_MISMATCH")
        ELSE IF ~flag.enabled THEN finish(flag, Answer(flag.off, "DISABLED"), callerDefault)
        ELSE IF hits # {}
          THEN finish(flag, [Answer(flag.rules[Min(hits)].value, "RULE_MATCH")
                               EXCEPT !.rule = flag.rules[Min(hits)].id], callerDefault)
        ELSE IF flag.rollout # Null THEN EvaluateRollout(flag, ctx, callerDefault, hash)
        ELSE finish(flag, Answer(flag.default, "FALLTHROUGH"), callerDefault)

\* A core.Snapshot: its flags by key, or nil.
SnapshotOf(flags) == [nil |-> FALSE, flags |-> flags]
NilSnapshot == [nil |-> TRUE, flags |-> <<>>]

Evaluate(snap, key, ctx, want, callerDefault, hash) ==
    IF snap.nil THEN Answer(callerDefault, "ERROR")
    ELSE IF key \notin DOMAIN snap.flags THEN Answer(callerDefault, "FLAG_NOT_FOUND")
    ELSE EvaluateFlag(snap.flags[key], ctx, want, callerDefault, hash)
=============================================================================
