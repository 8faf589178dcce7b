----------------------------- MODULE FlagProofs -----------------------------
(***************************************************************************)
(* What holds of any flag whatsoever: from the second validation pass to   *)
(* the answer of Evaluate, at a version gate, and through the L2 file,     *)
(* where what JSONCodec drops is what the reader supplies. The store and   *)
(* the pipeline both rely on it.                                           *)
(***************************************************************************)
EXTENDS FlagMerge, FlagCodec, SemverProofs

\* Findings add up: none of the whole is none of any part.
LEMMA EmptyUnion == ASSUME NEW S, UNION S = {}, NEW x \in S PROVE x = {}
OBVIOUS

LEMMA FindingsOfOne ==
    ASSUME NEW b, ValidateBase(<<b>>) = {}
    PROVE  BaseFindings(<<b>>, 1) = {}
<1> DEFINE flags == <<b>>
<1>1. 1 \in DOMAIN flags
  OBVIOUS
<1> HIDE DEF flags
<1>2. ValidateBase(flags) = {} => BaseFindings(flags, 1) = {}
  BY <1>1, EmptyUnion DEF ValidateBase
<1> QED
  BY <1>2 DEF flags

\* A merged flag the second pass accepts is one Evaluate can serve.
LEMMA AcceptedIsServable ==
    ASSUME NEW f, NEW b, NEW o, NEW p, validateResolved(f, b, o, p) = {}
    PROVE  Servable(f)
<1>1. f.default.type = f.type /\ f.off.type = f.type
  BY DEF validateResolved, When
<1>2. /\ \A i \in DOMAIN f.rules : f.rules[i].value.type = f.type
      /\ \A i, j \in DOMAIN f.rules : f.rules[i].id = f.rules[j].id => i = j
  BY DEF validateResolved, When
<1>3. f.rollout # Null =>
        /\ InRange(f.rollout.bp)
        /\ f.rollout.on.type = f.type /\ f.rollout.off.type = f.type
        /\ f.rules # <<>> => f.order # ""
  BY DEF validateResolved, When, IsUnknown
<1> QED
  BY <1>1, <1>2, <1>3 DEF Servable

\* Merging lists of rules gives a list of rules.
LEMMA MergedRules ==
    ASSUME NEW b, NEW o, NEW p, IsList(b.rules), IsValue(o.rules) => IsList(o.rules)
    PROVE  DOMAIN mergeFlag(b, o, p).rules \subseteq Nat
<1>1. IsList(<<>>)
  BY DEF IsList
<1>2. ASSUME NEW s, IsList(s) PROVE DOMAIN s \subseteq Nat
  BY <1>2 DEF IsList
<1>3. ASSUME NEW s, NEW t, IsList(s), IsList(t) PROVE DOMAIN (s \o t) \subseteq Nat
  <2>1. s \in Seq(ToSet(s) \cup ToSet(t)) /\ t \in Seq(ToSet(s) \cup ToSet(t))
    BY <1>3 DEF IsList
  <2> QED
    BY <2>1
<1>4. mergeFlag(b, o, p).rules = MergeRules(b, o)
  BY DEF mergeFlag
<1>5. CASE IsValue(o.rules)
  BY <1>2, <1>3, <1>4, <1>5 DEF MergeRules, OrElse, IsValue
<1>6. CASE ~IsValue(o.rules)
  <2>1. OrElse(o.rules, <<>>) = <<>>
    BY <1>6 DEF OrElse
  <2> QED
    BY <1>1, <1>2, <1>3, <1>4, <2>1 DEF MergeRules
<1> QED
  BY <1>5, <1>6

-----------------------------------------------------------------------------
(* Evaluate.                                                               *)

\* Stage S9 on a value of the flag's own type changes nothing.
LEMMA FinishKeeps ==
    ASSUME NEW f, NEW res, NEW dflt, res.value.type = f.type
    PROVE  finish(f, res, dflt) = res
BY DEF finish

\* A configured value of the flag's type, served for a reason that is no fallback.
LEMMA Configured ==
    ASSUME NEW f, NEW res, NEW dflt, res.value.type = f.type,
           res.reason \in {"DISABLED", "RULE_MATCH", "ROLLOUT_IN", "ROLLOUT_OUT", "FALLTHROUGH"}
    PROVE  AnswersAsConfigured(f, finish(f, res, dflt), dflt)
BY FinishKeeps DEF AnswersAsConfigured, IsFallback

\* The rollout stage, when the hasher answers with a bucket.
LEMMA RolloutAnswers ==
    ASSUME NEW f, NEW ctx, NEW dflt, NEW hash,
           f.rollout.on.type = f.type, f.rollout.off.type = f.type,
           BucketKey(f, ctx) # Null => hash[BucketKey(f, ctx)] \in 0..(BucketSpace - 1)
    PROVE  AnswersAsConfigured(f, EvaluateRollout(f, ctx, dflt, hash), dflt)
<1>1. CASE BucketKey(f, ctx) = Null
  BY <1>1 DEF EvaluateRollout, Answer, AnswersAsConfigured
<1>2. CASE BucketKey(f, ctx) # Null
  <2> DEFINE enrolled == hash[BucketKey(f, ctx)] < f.rollout.bp
             res == [value  |-> IF enrolled THEN f.rollout.on ELSE f.rollout.off,
                     reason |-> IF enrolled THEN "ROLLOUT_IN" ELSE "ROLLOUT_OUT",
                     rule   |-> "",
                     bucket |-> hash[BucketKey(f, ctx)]]
  <2>1. EvaluateRollout(f, ctx, dflt, hash) = finish(f, res, dflt)
    BY <1>2 DEF EvaluateRollout
  <2>2. res.value.type = f.type /\ res.reason \in {"ROLLOUT_IN", "ROLLOUT_OUT"}
    OBVIOUS
  <2> HIDE DEF res
  <2> QED
    BY <2>1, <2>2, Configured
<1> QED
  BY <1>1, <1>2

\* A servable flag asked for its own type answers everybody as configured.
LEMMA ServableAnswers ==
    ASSUME NEW f, NEW ctx, NEW dflt, NEW hash, Servable(f), DOMAIN f.rules \subseteq Nat,
           f.rollout # Null /\ BucketKey(f, ctx) # Null =>
             hash[BucketKey(f, ctx)] \in 0..(BucketSpace - 1)
    PROVE  AnswersAsConfigured(f, EvaluateFlag(f, ctx, f.type, dflt, hash), dflt)
<1> DEFINE hits  == {i \in DOMAIN f.rules : MatchRule(f.rules[i], ctx)}
           first == f.rules[Min(hits)]
           match == [Answer(first.value, "RULE_MATCH") EXCEPT !.rule = first.id]
           ans   == EvaluateFlag(f, ctx, f.type, dflt, hash)
<1>1. ASSUME NEW v, NEW reason \in {"DISABLED", "FALLTHROUGH"}, v.type = f.type
      PROVE  AnswersAsConfigured(f, finish(f, Answer(v, reason), dflt), dflt)
  <2>1. Answer(v, reason).value = v /\ Answer(v, reason).reason = reason
    BY DEF Answer
  <2> QED
    BY <1>1, <2>1, Configured
<1>2. CASE ~f.enabled
  <2>1. ans = finish(f, Answer(f.off, "DISABLED"), dflt)
    BY <1>2 DEF EvaluateFlag
  <2> QED
    BY <1>1, <2>1 DEF Servable
<1>3. CASE f.enabled /\ hits # {}
  <2>1. ans = finish(f, match, dflt)
    BY <1>3 DEF EvaluateFlag
  <2>2. Min(hits) \in DOMAIN f.rules
    BY <1>3, FirstPlace
  <2>3. match.value = first.value /\ match.reason = "RULE_MATCH"
    BY DEF Answer
  <2>4. match.value.type = f.type
    BY <2>2, <2>3 DEF Servable
  <2> HIDE DEF match
  <2> QED
    BY <2>1, <2>3, <2>4, Configured
<1>4. CASE f.enabled /\ hits = {} /\ f.rollout # Null
  <2>1. ans = EvaluateRollout(f, ctx, dflt, hash)
    BY <1>4 DEF EvaluateFlag
  <2> QED
    BY <1>4, <2>1, RolloutAnswers DEF Servable
<1>5. CASE f.enabled /\ hits = {} /\ f.rollout = Null
  <2>1. ans = finish(f, Answer(f.default, "FALLTHROUGH"), dflt)
    BY <1>5 DEF EvaluateFlag
  <2> QED
    BY <1>1, <2>1 DEF Servable
<1> QED
  BY <1>2, <1>3, <1>4, <1>5

-----------------------------------------------------------------------------
(* Version gates.                                                          *)

\* A semver operator on two versions is decided by their order, and on anything else it
\* is not decided at all.
LEMMA VersionOperand ==
    ASSUME NEW a \in DOMAIN Bytes, NEW b \in DOMAIN Bytes, NEW op \in Versioned
    PROVE  matchOperand(op, StringValue(a), StringValue(b)) =
             IF Malformed \in {Version[a], Version[b]} THEN "bad_value"
             ELSE triOf(Compare(op, compareSemver(Version[a], Version[b]), 0))
<1>1. /\ StringValue(a).type = "string" /\ StringValue(a).val = a
      /\ StringValue(b).type = "string" /\ StringValue(b).val = b
  BY DEF StringValue
<1> QED
  BY <1>1 DEF matchOperand, Versioned, Ordered

\* What the three operators say of an order.
LEMMA GateSays ==
    ASSUME NEW c \in {-1, 0, 1}
    PROVE  /\ triOf(Compare("semver_eq", c, 0)) = IF c = 0 THEN "true" ELSE "false"
           /\ triOf(Compare("semver_gt", c, 0)) = IF c = 1 THEN "true" ELSE "false"
           /\ triOf(Compare("semver_lt", c, 0)) = IF c = -1 THEN "true" ELSE "false"
BY DEF Compare, triOf

\* A string that parses is a version, and its order with another one is a sign.
LEMMA VersionOrder ==
    ASSUME NEW a \in DOMAIN Bytes, NEW b \in DOMAIN Bytes,
           Version[a] # Malformed, Version[b] # Malformed
    PROVE  /\ Version[a] \in ParsedVersions /\ Version[b] \in ParsedVersions
           /\ compareSemver(Version[a], Version[b]) = byPrecedence[<<Version[a], Version[b]>>]
           /\ compareSemver(Version[a], Version[b]) \in {-1, 0, 1}
<1>1. \A s \in DOMAIN Bytes : Version[s] = parseSemver(Bytes[s]) /\ Bytes[s] \in Seq(Int)
  BY BytesAssumption DEF Version
<1>2. Version[a] \in ParsedVersions /\ Version[b] \in ParsedVersions
  BY <1>1, ParserYieldsVersions
<1>3. compareSemver(Version[a], Version[b]) = byPrecedence[<<Version[a], Version[b]>>]
  BY <1>2 DEF byPrecedence
<1> QED
  BY <1>2, <1>3, PrecedenceIsOrder DEF IsOrder

\* Whatever two strings a condition compares, either one of them is no version and none
\* of the three semver operators decides, negated or not; or exactly one is true and the
\* other two are false: no pair falls between gt, lt and eq, and none is let through by
\* two. It is eq exactly for the same text up to build metadata (matcher.go, the semver
\* operators; semver.go, parseSemver and compareSemver).
THEOREM VersionGatesPartition ==
    ASSUME NEW a \in DOMAIN Bytes, NEW b \in DOMAIN Bytes
    PROVE  LET says(op) == matchOperand(op, StringValue(a), StringValue(b))
           IN  IF Malformed \in {Version[a], Version[b]}
                 THEN \A op \in Versioned : says(op) = "bad_value"
                 ELSE /\ \E op \in Versioned :
                            /\ says(op) = "true"
                            /\ \A other \in Versioned \ {op} : says(other) = "false"
                      /\ says("semver_eq") = "true" <=> Plain(Bytes[a]) = Plain(Bytes[b])
<1>1. CASE Malformed \in {Version[a], Version[b]}
  BY <1>1, VersionOperand
<1>2. CASE Malformed \notin {Version[a], Version[b]}
  <2>1. PICK c \in {-1, 0, 1} : c = compareSemver(Version[a], Version[b])
    BY <1>2, VersionOrder
  <2>2. /\ matchOperand("semver_eq", StringValue(a), StringValue(b)) =
             IF c = 0 THEN "true" ELSE "false"
        /\ matchOperand("semver_gt", StringValue(a), StringValue(b)) =
             IF c = 1 THEN "true" ELSE "false"
        /\ matchOperand("semver_lt", StringValue(a), StringValue(b)) =
             IF c = -1 THEN "true" ELSE "false"
    <3>1. \A op \in Versioned :
            matchOperand(op, StringValue(a), StringValue(b)) = triOf(Compare(op, c, 0))
      BY <1>2, <2>1, VersionOperand
    <3>2. {"semver_eq", "semver_gt", "semver_lt"} \subseteq Versioned
      BY DEF Versioned
    <3> QED
      BY <3>1, <3>2, GateSays
  <2>3. c = 0 <=> Plain(Bytes[a]) = Plain(Bytes[b])
    <3>1. /\ Version[a] = parseSemver(Bytes[a]) /\ Bytes[a] \in Seq(Int)
          /\ Version[b] = parseSemver(Bytes[b]) /\ Bytes[b] \in Seq(Int)
      BY BytesAssumption DEF Version
    <3> QED
      BY <1>2, <2>1, <3>1, EqualVersionsAreOneText
  <2>4. c = 0 \/ c = 1 \/ c = -1
    OBVIOUS
  <2> QED
    BY <1>2, <2>2, <2>3, <2>4 DEF Versioned
<1> QED
  BY <1>1, <1>2

-----------------------------------------------------------------------------
(* The L2 file.                                                            *)

\* A key that is written is read back.
LEMMA KeyKept ==
    ASSUME NEW object, NEW empty, NEW name \in DOMAIN object, name \notin empty
    PROVE  /\ name \in DOMAIN OmitEmpty(object, empty)
           /\ OmitEmpty(object, empty)[name] = object[name]
BY DEF OmitEmpty, Restrict

\* A key that is dropped only when it holds the reader's zero value is read back.
LEMMA FieldKept ==
    ASSUME NEW object, NEW empty, NEW name \in DOMAIN object, NEW zero,
           name \in empty => object[name] = zero
    PROVE  Field(OmitEmpty(object, empty), name, zero) = object[name]
BY DEF Field, OmitEmpty, Restrict

\* The type a scalar is read back with is the one it was written with.
LEMMA ValueRoundTrip ==
    ASSUME NEW v, Typed(v)
    PROVE  UnmarshalValue(MarshalValue(v)) = v
<1>1. v.type \in DOMAIN Kinds /\ v = [type |-> v.type, val |-> v.val]
  BY DEF Typed
<1>2. \A s, t \in DOMAIN Kinds : Kinds[s] = Kinds[t] => s = t
  BY DEF Kinds
<1>3. (CHOOSE t \in DOMAIN Kinds : Kinds[t] = Kinds[v.type]) = v.type
  <2> HIDE DEF Kinds
  <2> QED
    BY <1>1, <1>2
<1> HIDE DEF Kinds
<1> QED
  BY <1>1, <1>3 DEF UnmarshalValue, MarshalValue

\* A list of values comes back whole.
LEMMA ValuesRoundTrip ==
    ASSUME NEW s, IsList(s), \A i \in DOMAIN s : Typed(s[i])
    PROVE  Mapped(Mapped(s, MarshalValue), UnmarshalValue) = s
<1>1. s = [i \in DOMAIN s |-> s[i]]
  BY DEF IsList
<1>2. \A i \in DOMAIN s : UnmarshalValue(MarshalValue(s[i])) = s[i]
  BY ValueRoundTrip
<1> QED
  BY <1>1, <1>2 DEF Mapped

\* A condition comes back with all its parts.
LEMMA CondRoundTrip ==
    ASSUME NEW c, TypedCond(c)
    PROVE  LET d == decodeCond(encodeCond(c))
           IN  d.attr = c.attr /\ d.op = c.op /\ d.values = c.values /\ d.negate = c.negate
<1> DEFINE object == [attribute |-> c.attr, op |-> c.op,
                      values |-> Mapped(c.values, MarshalValue), negate |-> c.negate]
           empty == EmptyKey("negate", ~c.negate)
<1>1. encodeCond(c) = OmitEmpty(object, empty)
  BY DEF encodeCond
<1>2. empty \subseteq {"negate"} /\ ("negate" \in empty => ~c.negate)
  BY DEF EmptyKey
<1>3. \A name \in {"attribute", "op", "values"} : encodeCond(c)[name] = object[name]
  BY <1>1, <1>2, KeyKept
<1>4. Field(encodeCond(c), "negate", FALSE) = c.negate
  <2>1. "negate" \in DOMAIN object /\ object["negate"] = c.negate
    OBVIOUS
  <2>2. c.negate = TRUE \/ c.negate = FALSE
    BY DEF TypedCond
  <2>3. "negate" \in empty => object["negate"] = FALSE
    BY <1>2, <2>1, <2>2
  <2> HIDE DEF object, empty
  <2>4. Field(OmitEmpty(object, empty), "negate", FALSE) = object["negate"]
    BY <2>1, <2>3, FieldKept
  <2> QED
    BY <1>1, <2>1, <2>4
<1>5. Mapped(encodeCond(c).values, UnmarshalValue) = c.values
  BY <1>3, ValuesRoundTrip DEF TypedCond
<1> QED
  BY <1>3, <1>4, <1>5 DEF decodeCond

\* A rule comes back with its name and value, and targets whom it targeted.
LEMMA RuleRoundTrip ==
    ASSUME NEW r, IsList(r.conditions), Typed(r.value),
           \A i \in DOMAIN r.conditions : TypedCond(r.conditions[i])
    PROVE  LET d == decodeRule(encodeRule(r))
           IN  /\ d.id = r.id /\ d.value = r.value
               /\ ToSet(d.conditions) = {decodeCond(encodeCond(c)) : c \in ToSet(r.conditions)}
               /\ \A ctx : MatchRule(d, ctx) <=> MatchRule(r, ctx)
<1> DEFINE d == decodeRule(encodeRule(r))
<1>1. d.id = r.id /\ d.value = r.value
  BY ValueRoundTrip DEF decodeRule, encodeRule
<1>2. d.combiner = "or" <=> r.combiner = "or"
  BY DEF decodeRule, encodeRule
<1>3. d.conditions = [i \in DOMAIN r.conditions |-> decodeCond(encodeCond(r.conditions[i]))]
  BY DEF decodeRule, encodeRule, Mapped
<1>4. ToSet(d.conditions) = {decodeCond(encodeCond(c)) : c \in ToSet(r.conditions)}
  BY <1>3 DEF ToSet
<1>5. ASSUME NEW ctx, NEW c \in ToSet(r.conditions)
      PROVE  MatchCondition(decodeCond(encodeCond(c)), ctx) <=> MatchCondition(c, ctx)
  <2> DEFINE e == decodeCond(encodeCond(c))
  <2>1. TypedCond(c)
    BY DEF ToSet
  <2>2. e.attr = c.attr /\ e.op = c.op /\ e.values = c.values /\ e.negate = c.negate
    BY <2>1, CondRoundTrip
  <2> HIDE DEF e
  <2>3. decideCondition(e, ctx) = decideCondition(c, ctx)
    BY <2>2 DEF decideCondition
  <2>4. MatchCondition(e, ctx) <=> MatchCondition(c, ctx)
    BY <2>2, <2>3 DEF MatchCondition
  <2> QED
    BY <2>4 DEF e
<1> HIDE DEF d
<1>6. ASSUME NEW ctx PROVE MatchRule(d, ctx) <=> MatchRule(r, ctx)
  BY <1>2, <1>4, <1>5 DEF MatchRule
<1> QED
  BY <1>1, <1>4, <1>6 DEF d

\* A rollout comes back with all its parts.
LEMMA RollRoundTrip ==
    ASSUME NEW r, r # Null, TypedRoll(r)
    PROVE  decodeRoll(encodeRoll(r)) = r
<1> DEFINE object == [basis_points |-> r.bp, bucket_namespace |-> r.ns, bucket_by |-> r.by,
                      on_value |-> MarshalValue(r.on), off_value |-> MarshalValue(r.off)]
           empty == EmptyKey("bucket_namespace", r.ns = "") \cup EmptyKey("bucket_by", r.by = "")
<1>1. encodeRoll(r) = OmitEmpty(object, empty)
  BY DEF encodeRoll
<1>2. /\ empty \subseteq {"bucket_namespace", "bucket_by"}
      /\ "bucket_namespace" \in empty => r.ns = ""
      /\ "bucket_by" \in empty => r.by = ""
  BY DEF EmptyKey
<1>3. /\ DOMAIN object = {"basis_points", "bucket_namespace", "bucket_by", "on_value", "off_value"}
      /\ object["basis_points"] = r.bp
      /\ object["bucket_namespace"] = r.ns /\ object["bucket_by"] = r.by
      /\ object["on_value"] = MarshalValue(r.on) /\ object["off_value"] = MarshalValue(r.off)
  OBVIOUS
<1> HIDE DEF object, empty
<1>4. ASSUME NEW name \in {"basis_points", "on_value", "off_value"}
      PROVE  OmitEmpty(object, empty)[name] = object[name]
  <2>1. name \in DOMAIN object /\ name \notin empty
    BY <1>2, <1>3
  <2> QED
    BY <2>1, KeyKept
<1>5. ASSUME NEW name \in {"bucket_namespace", "bucket_by"}
      PROVE  Field(OmitEmpty(object, empty), name, "") = object[name]
  <2>1. name \in DOMAIN object /\ (name \in empty => object[name] = "")
    BY <1>2, <1>3
  <2> QED
    BY <2>1, FieldKept
<1>6. decodeRoll(encodeRoll(r)) = [bp |-> r.bp, ns |-> r.ns, by |-> r.by, on |-> r.on, off |-> r.off]
  BY <1>1, <1>3, <1>4, <1>5, ValueRoundTrip DEF decodeRoll, TypedRoll
<1> QED
  BY <1>6 DEF TypedRoll

-----------------------------------------------------------------------------
\* A flag of Go's types, whose names the reader knows.
TypedFlag(f) ==
    /\ Typed(f.default) /\ Typed(f.off) /\ TypedRules(f.rules)
    /\ f.rollout # Null => TypedRoll(f.rollout)
    /\ f.type \in DOMAIN Kinds \ {"unknown"}
    /\ f.order \in {"", "rules_first"}
    /\ \A i \in DOMAIN f.rules : \A c \in ToSet(f.rules[i].conditions) : c.op \in Operators

\* The optional parts of a flag, as the reader finds them.
LEMMA OptionalKeys ==
    ASSUME NEW f, TypedFlag(f)
    PROVE  LET j == encodeFlag(f)
           IN  /\ \A name \in {"key", "type", "enabled", "default_value", "off_value"} :
                     j[name] = everyKey(f)[name]
               /\ Field(j, "rules", <<>>) = Mapped(f.rules, encodeRule)
               /\ Field(j, "evaluation_order", "") = f.order
               /\ "rollout" \in DOMAIN j <=> f.rollout # Null
               /\ f.rollout # Null => j.rollout = encodeRoll(f.rollout)
<1> DEFINE object == everyKey(f)
           empty == EmptyKey("rollout", f.rollout = Null) \cup EmptyKey("rules", f.rules = <<>>)
                      \cup EmptyKey("evaluation_order", f.order = "")
<1>1. encodeFlag(f) = OmitEmpty(object, empty)
  BY DEF encodeFlag
<1>2. /\ empty \subseteq {"rollout", "rules", "evaluation_order"}
      /\ "rollout" \in empty <=> f.rollout = Null
      /\ "rules" \in empty => f.rules = <<>>
      /\ "evaluation_order" \in empty => f.order = ""
  BY DEF EmptyKey
<1>3. /\ DOMAIN object = {"key", "type", "enabled", "default_value", "off_value",
                          "rules", "rollout", "evaluation_order"}
      /\ object["rules"] = Mapped(f.rules, encodeRule)
      /\ object["rollout"] = encodeRoll(f.rollout)
      /\ object["evaluation_order"] = f.order
  BY DEF everyKey
<1> HIDE DEF object, empty
<1>4. ASSUME NEW name \in {"key", "type", "enabled", "default_value", "off_value"}
      PROVE  OmitEmpty(object, empty)[name] = object[name]
  <2>1. name \in DOMAIN object /\ name \notin empty
    BY <1>2, <1>3
  <2> QED
    BY <2>1, KeyKept
<1>5. Field(OmitEmpty(object, empty), "rules", <<>>) = Mapped(f.rules, encodeRule)
  <2>1. f.rules = <<>> => Mapped(f.rules, encodeRule) = <<>>
    BY DEF Mapped
  <2>2. "rules" \in DOMAIN object /\ ("rules" \in empty => object["rules"] = <<>>)
    BY <1>2, <1>3, <2>1
  <2>3. Field(OmitEmpty(object, empty), "rules", <<>>) = object["rules"]
    BY <2>2, FieldKept
  <2> QED
    BY <1>3, <2>3
<1>6. Field(OmitEmpty(object, empty), "evaluation_order", "") = f.order
  <2>1. /\ "evaluation_order" \in DOMAIN object
        /\ "evaluation_order" \in empty => object["evaluation_order"] = ""
    BY <1>2, <1>3
  <2>2. Field(OmitEmpty(object, empty), "evaluation_order", "") = object["evaluation_order"]
    BY <2>1, FieldKept
  <2> QED
    BY <1>3, <2>2
<1>7. "rollout" \in DOMAIN OmitEmpty(object, empty) <=> f.rollout # Null
  BY <1>2, <1>3 DEF OmitEmpty, Restrict
<1>8. f.rollout # Null => OmitEmpty(object, empty).rollout = encodeRoll(f.rollout)
  <2>1. "rollout" \in DOMAIN object /\ (f.rollout # Null => "rollout" \notin empty)
    BY <1>2, <1>3
  <2>2. f.rollout # Null => OmitEmpty(object, empty)["rollout"] = object["rollout"]
    BY <2>1, KeyKept
  <2> QED
    BY <1>3, <2>2
<1>9. everyKey(f) = object
  BY DEF object
<1> QED
  BY <1>1, <1>4, <1>5, <1>6, <1>7, <1>8, <1>9

\* The parts of the flag read back.
LEMMA FlagRoundTrip ==
    ASSUME NEW f, TypedFlag(f)
    PROVE  LET d == decodeFlag(encodeFlag(f))
           IN  /\ d.key = f.key /\ d.type = f.type /\ d.enabled = f.enabled
               /\ d.default = f.default /\ d.off = f.off /\ d.order = f.order
               /\ d.rollout = f.rollout
               /\ d.rules = [i \in DOMAIN f.rules |-> decodeRule(encodeRule(f.rules[i]))]
<1> DEFINE j == encodeFlag(f)
<1>1. /\ j.key = f.key /\ j.type = f.type /\ j.enabled = f.enabled
      /\ j.default_value = MarshalValue(f.default) /\ j.off_value = MarshalValue(f.off)
  BY OptionalKeys DEF everyKey
<1>2. /\ Field(j, "rules", <<>>) = Mapped(f.rules, encodeRule)
      /\ Field(j, "evaluation_order", "") = f.order
      /\ "rollout" \in DOMAIN j <=> f.rollout # Null
      /\ f.rollout # Null => j.rollout = encodeRoll(f.rollout)
  BY OptionalKeys
<1> HIDE DEF j
<1> DEFINE d == decodeFlag(j)
<1>3. d.key = f.key /\ d.type = f.type /\ d.enabled = f.enabled
  BY <1>1 DEF decodeFlag
<1>4. d.default = f.default /\ d.off = f.off
  BY <1>1, ValueRoundTrip DEF decodeFlag, TypedFlag
<1>5. d.order = f.order
  BY <1>2 DEF decodeFlag, TypedFlag
<1>6. d.rollout = f.rollout
  <2>1. d.rollout = IF f.rollout # Null THEN decodeRoll(encodeRoll(f.rollout)) ELSE Null
    BY <1>2 DEF decodeFlag
  <2> QED
    BY <2>1, RollRoundTrip DEF TypedFlag
<1>7. d.rules = [i \in DOMAIN f.rules |-> decodeRule(encodeRule(f.rules[i]))]
  <2>1. d.rules = Mapped(Mapped(f.rules, encodeRule), decodeRule)
    BY <1>2 DEF decodeFlag
  <2> QED
    BY <2>1 DEF Mapped
<1> HIDE DEF d
<1> QED
  BY <1>3, <1>4, <1>5, <1>6, <1>7 DEF d, j

\* The reader knows every name the writer uses.
LEMMA WrittenIsReadable ==
    ASSUME NEW f, TypedFlag(f)
    PROVE  Readable(encodeFlag(f))
<1> DEFINE j == encodeFlag(f)
<1>1. /\ j.type = f.type
      /\ Field(j, "rules", <<>>) = Mapped(f.rules, encodeRule)
      /\ Field(j, "evaluation_order", "") = f.order
  BY OptionalKeys DEF everyKey
<1> HIDE DEF j
<1>2. ASSUME NEW i \in DOMAIN f.rules, NEW e \in ToSet(encodeRule(f.rules[i]).conditions)
      PROVE  e.op \in Operators
  <2> DEFINE conditions == f.rules[i].conditions
  <2>1. encodeRule(f.rules[i]).conditions = [n \in DOMAIN conditions |-> encodeCond(conditions[n])]
    BY DEF encodeRule, Mapped
  <2>2. PICK n \in DOMAIN conditions : e = encodeCond(conditions[n])
    BY <2>1 DEF ToSet
  <2>3. conditions[n] \in ToSet(conditions) /\ TypedCond(conditions[n])
    BY DEF TypedFlag, TypedRules, ToSet
  <2>4. decodeCond(e).op = conditions[n].op
    BY <2>2, <2>3, CondRoundTrip
  <2>5. decodeCond(e).op = e.op
    BY DEF decodeCond
  <2> QED
    BY <2>3, <2>4, <2>5 DEF TypedFlag
<1>3. ToSet(Mapped(f.rules, encodeRule)) = {encodeRule(f.rules[i]) : i \in DOMAIN f.rules}
  BY DEF ToSet, Mapped
<1>4. \A r \in ToSet(Field(j, "rules", <<>>)) : \A e \in ToSet(r.conditions) : e.op \in Operators
  BY <1>1, <1>2, <1>3
<1>5. Readable(j)
  BY <1>1, <1>4 DEF Readable, TypedFlag
<1> QED
  BY <1>5 DEF j

\* The flag read back answers everybody as the flag written.
LEMMA AnswersRoundTrip ==
    ASSUME NEW f, TypedFlag(f), NEW ctx, NEW want, NEW dflt, NEW hash
    PROVE  EvaluateFlag(decodeFlag(encodeFlag(f)), ctx, want, dflt, hash)
             = EvaluateFlag(f, ctx, want, dflt, hash)
<1> DEFINE d == decodeFlag(encodeFlag(f))
           hits(g) == {i \in DOMAIN g.rules : MatchRule(g.rules[i], ctx)}
<1>1. /\ d.key = f.key /\ d.type = f.type /\ d.enabled = f.enabled
      /\ d.default = f.default /\ d.off = f.off /\ d.rollout = f.rollout
      /\ d.rules = [i \in DOMAIN f.rules |-> decodeRule(encodeRule(f.rules[i]))]
  BY FlagRoundTrip
<1> HIDE DEF d
<1>2. ASSUME NEW i \in DOMAIN f.rules
      PROVE  /\ d.rules[i].id = f.rules[i].id /\ d.rules[i].value = f.rules[i].value
             /\ MatchRule(d.rules[i], ctx) <=> MatchRule(f.rules[i], ctx)
  <2>1. /\ IsList(f.rules[i].conditions) /\ Typed(f.rules[i].value)
        /\ \A n \in DOMAIN f.rules[i].conditions : TypedCond(f.rules[i].conditions[n])
    BY DEF TypedFlag, TypedRules
  <2>2. d.rules[i] = decodeRule(encodeRule(f.rules[i]))
    BY <1>1
  <2> QED
    BY <2>1, <2>2, RuleRoundTrip
<1>3. hits(d) = hits(f)
  BY <1>1, <1>2
<1>4. hits(f) # {} => Min(hits(f)) \in DOMAIN f.rules
  <2>1. hits(f) \subseteq Nat
    <3>1. IsList(f.rules)
      BY DEF TypedFlag, TypedRules
    <3>2. DOMAIN f.rules \subseteq Nat
      BY <3>1 DEF IsList
    <3> QED
      BY <3>2
  <2> QED
    BY <2>1, FirstPlace
<1>5. \A res : finish(d, res, dflt) = finish(f, res, dflt)
  BY <1>1 DEF finish
<1>6. EvaluateRollout(d, ctx, dflt, hash) = EvaluateRollout(f, ctx, dflt, hash)
  <2>1. BucketKey(d, ctx) = BucketKey(f, ctx)
    BY <1>1 DEF BucketKey
  <2> QED
    BY <1>1, <1>5, <2>1 DEF EvaluateRollout
<1>7. hits(f) # {} => /\ d.rules[Min(hits(d))].value = f.rules[Min(hits(f))].value
                      /\ d.rules[Min(hits(d))].id = f.rules[Min(hits(f))].id
  BY <1>2, <1>3, <1>4
<1>8. EvaluateFlag(d, ctx, want, dflt, hash) = EvaluateFlag(f, ctx, want, dflt, hash)
  BY <1>1, <1>3, <1>5, <1>6, <1>7 DEF EvaluateFlag
<1> QED
  BY <1>8 DEF d

\* Of the whole file: a snapshot whose flags are under their own keys comes back with
\* the same keys, and Evaluate tells it from the one written in nothing, whoever asks,
\* for whatever key and of whatever type (cache.go, JSONCodec).
THEOREM SnapshotRoundTrip ==
    ASSUME NEW flags, \A k \in DOMAIN flags : flags[k].key = k /\ TypedFlag(flags[k])
    PROVE  /\ ~Decode(Encode(flags)).nil
           /\ \A key, ctx, want, dflt, hash :
                 Evaluate(Decode(Encode(flags)), key, ctx, want, dflt, hash)
                   = Evaluate(SnapshotOf(flags), key, ctx, want, dflt, hash)
<1> DEFINE file == Encode(flags)
<1>1. file.format = l2FormatVersion /\ file.flags = {encodeFlag(flags[k]) : k \in DOMAIN flags}
  BY DEF Encode
<1> HIDE DEF file
<1>2. ASSUME NEW k \in DOMAIN flags PROVE Readable(encodeFlag(flags[k])) /\ encodeFlag(flags[k]).key = k
  <2>1. encodeFlag(flags[k]).key = flags[k].key
    BY OptionalKeys DEF everyKey
  <2> QED
    BY <2>1, WrittenIsReadable
<1>3. {j.key : j \in file.flags} = DOMAIN flags
  BY <1>1, <1>2
<1>4. ASSUME NEW k \in DOMAIN flags
      PROVE  (CHOOSE j \in file.flags : j.key = k) = encodeFlag(flags[k])
  <2>1. \A j \in file.flags : j.key = k <=> j = encodeFlag(flags[k])
    BY <1>1, <1>2
  <2>2. encodeFlag(flags[k]) \in file.flags
    BY <1>1
  <2> QED
    BY <2>1, <2>2
<1>5. /\ ~Decode(file).nil /\ DOMAIN Decode(file).flags = DOMAIN flags
      /\ \A k \in DOMAIN flags :
            Decode(file).flags[k] = decodeFlag(CHOOSE j \in file.flags : j.key = k)
  <2>1. Decode(file) = SnapshotOf([k \in {j.key : j \in file.flags} |->
                                    decodeFlag(CHOOSE j \in file.flags : j.key = k)])
    BY <1>1, <1>2 DEF Decode
  <2> QED
    BY <1>3, <2>1 DEF SnapshotOf
<1>6. ASSUME NEW key, NEW ctx, NEW want, NEW dflt, NEW hash
      PROVE  Evaluate(Decode(file), key, ctx, want, dflt, hash)
               = Evaluate(SnapshotOf(flags), key, ctx, want, dflt, hash)
  <2>1. CASE key \notin DOMAIN flags
    BY <1>5, <2>1 DEF Evaluate, SnapshotOf
  <2>2. CASE key \in DOMAIN flags
    <3>1. Decode(file).flags[key] = decodeFlag(encodeFlag(flags[key]))
      BY <1>4, <1>5, <2>2
    <3>2. EvaluateFlag(Decode(file).flags[key], ctx, want, dflt, hash)
            = EvaluateFlag(flags[key], ctx, want, dflt, hash)
      BY <2>2, <3>1, AnswersRoundTrip
    <3> QED
      BY <1>5, <2>2, <3>2 DEF Evaluate, SnapshotOf
  <2> QED
    BY <2>1, <2>2
<1> QED
  BY <1>5, <1>6 DEF file
=============================================================================
