------------------------- MODULE FlagPipelineProofs -------------------------
(***************************************************************************)
(* What holds of every flag that two validation passes accept, whatever    *)
(* the layers, the contexts and the hash: proofs about FlagPipeline.       *)
(***************************************************************************)
EXTENDS FlagPipeline, FlagProofs

\* What the one step leaves behind: the merged flag, and no finding unless it is one
\* of the two passes'.
Resolution ==
    /\ base \in BaseFlags /\ ov \in Patches
    /\ stage = "resolved" =>
        /\ flag = mergeFlag(base, ov, ops)
        /\ findings = {} => /\ ValidateBase(<<base>>) = {}
                            /\ ValidateOverlay(<<ov>>, base.key) = {}
                            /\ validateResolved(flag, base, ov, ops) = {}

\* The flag a state holds is the merge of the layers it holds.
LEMMA ResolutionHolds == Spec => []Resolution
<1>1. Init => Resolution
  BY DEF Init, Resolution
<1>2. Resolution /\ [Next]_vars => Resolution'
  <2> SUFFICES ASSUME Resolution, [Next]_vars PROVE Resolution'
    OBVIOUS
  <2>1. CASE Resolve
    BY <2>1 DEF Resolve, Resolution
  <2>2. CASE UNCHANGED vars
    BY <2>2 DEF vars, Resolution
  <2> QED
    BY <2>1, <2>2 DEF Next
<1> QED
  BY <1>1, <1>2, PTL DEF Spec

\* Stage S9 keeps the reason or makes it TYPE_MISMATCH.
LEMMA FinishReason ==
    ASSUME NEW f, NEW res, NEW dflt
    PROVE  finish(f, res, dflt).reason \in {res.reason, "TYPE_MISMATCH"}
BY DEF finish

\* A merged flag under an override that disables it is disabled.
LEMMA KillDisables ==
    ASSUME NEW b, NEW o, NEW p, p.enabled = FALSE
    PROVE  mergeFlag(b, o, p).enabled = FALSE
BY OptAssumption DEF mergeFlag, OrElse, IsValue

\* A flag the second pass accepts has default and off values of its type.
LEMMA AcceptedTypes ==
    ASSUME NEW f, NEW b, NEW o, NEW p, validateResolved(f, b, o, p) = {}
    PROVE  f.default.type = f.type /\ f.off.type = f.type
BY DEF validateResolved, When

\* An accepted kill serves the off value to every subject.
THEOREM KillsReachEverybody == Spec => []KillReachesEverybody
<1>1. Resolution => KillReachesEverybody
  <2> SUFFICES ASSUME Resolution, Accepted, ops.enabled = FALSE,
                      NEW ctx \in Contexts, NEW hash \in Hashes
               PROVE  Ask(flag, ctx, hash) = Answer(flag.off, "DISABLED")
    BY DEF KillReachesEverybody
  <2>1. flag = mergeFlag(base, ov, ops) /\ validateResolved(flag, base, ov, ops) = {}
    BY DEF Resolution, Accepted
  <2>2. flag.enabled = FALSE
    BY <2>1, KillDisables
  <2>3. Answer(flag.off, "DISABLED").value.type = flag.type
    BY <2>1, AcceptedTypes DEF Answer
  <2>4. finish(flag, Answer(flag.off, "DISABLED"), CallerDefault) = Answer(flag.off, "DISABLED")
    BY <2>3, FinishKeeps
  <2> QED
    BY <2>2, <2>4 DEF Ask, EvaluateFlag
<1> QED
  BY <1>1, ResolutionHolds, PTL

-----------------------------------------------------------------------------
\* Only the rollout stage answers with a rollout reason.
LEMMA RolloutReasons ==
    ASSUME NEW f, NEW ctx, NEW want, NEW dflt, NEW hash,
           EvaluateFlag(f, ctx, want, dflt, hash).reason \in {"ROLLOUT_IN", "ROLLOUT_OUT"}
    PROVE  EvaluateFlag(f, ctx, want, dflt, hash) = EvaluateRollout(f, ctx, dflt, hash)
<1> DEFINE first == f.rules[Min({i \in DOMAIN f.rules : MatchRule(f.rules[i], ctx)})]
           matched == finish(f, [Answer(first.value, "RULE_MATCH") EXCEPT !.rule = first.id], dflt)
<1>1. Answer(dflt, "TYPE_MISMATCH").reason = "TYPE_MISMATCH"
  BY DEF Answer
<1>2. finish(f, Answer(f.off, "DISABLED"), dflt).reason \in {"DISABLED", "TYPE_MISMATCH"}
  BY DEF finish, Answer
<1>3. matched.reason \in {"RULE_MATCH", "TYPE_MISMATCH"}
  BY DEF finish, Answer
<1>4. finish(f, Answer(f.default, "FALLTHROUGH"), dflt).reason \in {"FALLTHROUGH", "TYPE_MISMATCH"}
  BY DEF finish, Answer
<1> QED
  BY <1>1, <1>2, <1>3, <1>4 DEF EvaluateFlag

\* A rollout reason tells on which side of the rollout's size the bucket is.
LEMMA RolloutSides ==
    ASSUME NEW f, NEW ctx, NEW dflt, NEW hash
    PROVE  LET res == EvaluateRollout(f, ctx, dflt, hash)
               b   == hash[BucketKey(f, ctx)]
           IN  /\ res.reason = "ROLLOUT_IN" =>
                     /\ BucketKey(f, ctx) # Null
                     /\ b \in 0..(BucketSpace - 1) /\ b < f.rollout.bp
                     /\ res.bucket = b
               /\ res.reason = "ROLLOUT_OUT" => b \in 0..(BucketSpace - 1) /\ ~(b < f.rollout.bp)
BY DEF EvaluateRollout, finish, Answer

\* Nobody is enrolled at zero and nobody is left out at the full size.
THEOREM RampsEnd == Spec => []RampEnds
<1>1. RampEnds
  <2> SUFFICES ASSUME Accepted, flag.rollout # Null, NEW ctx \in Contexts, NEW hash \in Hashes
               PROVE  /\ flag.rollout.bp = 0 => Ask(flag, ctx, hash).reason # "ROLLOUT_IN"
                      /\ flag.rollout.bp = BucketSpace => Ask(flag, ctx, hash).reason # "ROLLOUT_OUT"
    BY DEF RampEnds
  <2> DEFINE res == EvaluateRollout(flag, ctx, CallerDefault, hash)
  <2>1. Ask(flag, ctx, hash).reason \in {"ROLLOUT_IN", "ROLLOUT_OUT"} => Ask(flag, ctx, hash) = res
    BY RolloutReasons DEF Ask
  <2>2. flag.rollout.bp = 0 => res.reason # "ROLLOUT_IN"
    BY RolloutSides, BucketSpaceAssumption
  <2>3. flag.rollout.bp = BucketSpace => res.reason # "ROLLOUT_OUT"
    BY RolloutSides, BucketSpaceAssumption
  <2> QED
    BY <2>1, <2>2, <2>3
<1> QED
  BY <1>1, PTL

-----------------------------------------------------------------------------
\* Without one of its attributes a context keeps every other one.
LEMMA OthersKept ==
    ASSUME NEW ctx \in Contexts, NEW a \in DOMAIN ctx.attrs, NEW name, name # a
    PROVE  Attribute(Without(ctx, a), name) = Attribute(ctx, name)
<1>1. /\ Without(ctx, a).user = ctx.user
      /\ Without(ctx, a).tenant = ctx.tenant
      /\ Without(ctx, a).attrs = [x \in DOMAIN ctx.attrs \ {a} |-> ctx.attrs[x]]
  BY ContextsAssumption DEF Without
<1> QED
  BY <1>1 DEF Attribute

\* An undecided condition does not match, negated or not.
LEMMA AbsentNeverMatches ==
    ASSUME NEW c, NEW ctx, c.op # "exists", Attribute(ctx, c.attr) = Null
    PROVE  ~MatchCondition(c, ctx)
<1>1. decideCondition(c, ctx) = "absent"
  BY DEF decideCondition
<1> QED
  BY <1>1 DEF MatchCondition

\* A condition that does not ask for absence never gains from a lost attribute.
LEMMA LossNeverMatches ==
    ASSUME NEW ctx \in Contexts, NEW a \in DOMAIN ctx.attrs,
           Attribute(Without(ctx, a), a) = Null,
           NEW c, c.op # "exists", MatchCondition(c, Without(ctx, a))
    PROVE  MatchCondition(c, ctx)
<1>1. c.attr # a
  BY AbsentNeverMatches
<1>2. Attribute(Without(ctx, a), c.attr) = Attribute(ctx, c.attr)
  BY <1>1, OthersKept
<1>3. decideCondition(c, Without(ctx, a)) = decideCondition(c, ctx)
  BY <1>2 DEF decideCondition
<1> QED
  BY <1>3 DEF MatchCondition

\* No rule, under either combiner, targets anybody because of a lost attribute.
THEOREM LosingContextIsSafe == Spec => []LosingContextTargetsNobody
<1>1. LosingContextTargetsNobody
  <2> SUFFICES ASSUME NEW r \in ToSet(flag.rules), NEW ctx \in Contexts,
                      \A c \in ToSet(r.conditions) : c.op # "exists",
                      NEW a \in DOMAIN ctx.attrs,
                      Attribute(Without(ctx, a), a) = Null,
                      MatchRule(r, Without(ctx, a))
               PROVE  MatchRule(r, ctx)
    BY DEF LosingContextTargetsNobody
  <2>1. \A c \in ToSet(r.conditions) :
           MatchCondition(c, Without(ctx, a)) => MatchCondition(c, ctx)
    BY LossNeverMatches
  <2> QED
    BY <2>1 DEF MatchRule
<1> QED
  BY <1>1, PTL

-----------------------------------------------------------------------------
\* What the overlay of a ramp-up does to the rollout.
LEMMA RampUpMerges ==
    ASSUME NEW b \in BaseFlags, NEW o \in Patches, NEW p,
           p.bp = Absent, b.rollout # Null, IsValue(o.rollout),
           \A f \in DOMAIN EmptyRollout \ {"bp"} : o.rollout[f] = Absent,
           IsValue(o.rollout.bp)
    PROVE  LET ro == mergeFlag(b, o, p).rollout
           IN  /\ ro # Null
               /\ ro.ns = b.rollout.ns /\ ro.by = b.rollout.by
               /\ ro.bp = o.rollout.bp
<1>1. DOMAIN EmptyRollout = {"bp", "ns", "by", "on", "off"}
  BY DEF EmptyRollout
<1>2. OrElse(b.rollout, EmptyRollout) = b.rollout
  BY RolloutAssumption DEF OrElse, IsValue
<1>3. MergeRollout(b, o) = [f \in DOMAIN EmptyRollout |-> OrElse(o.rollout[f], b.rollout[f])]
  BY <1>2 DEF MergeRollout, IsValue
<1>4. mergeFlag(b, o, p).rollout = MergeRollout(b, o)
  BY DEF mergeFlag, IsValue
<1>5. MergeRollout(b, o).bp = o.rollout.bp
  BY <1>1, <1>3 DEF OrElse
<1>6. MergeRollout(b, o).ns = b.rollout.ns /\ MergeRollout(b, o).by = b.rollout.by
  BY <1>1, <1>3 DEF OrElse, IsValue
<1>7. MergeRollout(b, o) # Null
  BY RolloutAssumption
<1> QED
  BY <1>4, <1>5, <1>6, <1>7

\* What the second pass says of an accepted rollout.
LEMMA AcceptedRollout ==
    ASSUME NEW f, NEW b, NEW o, NEW p, validateResolved(f, b, o, p) = {}, f.rollout # Null
    PROVE  /\ f.rollout.bp \in 0..BucketSpace
           /\ f.rollout.on.type = f.type
<1>1. InRange(f.rollout.bp)
  BY DEF validateResolved, When
<1>2. f.rollout.on.type = f.type
  BY DEF validateResolved, When, IsUnknown
<1> QED
  BY <1>1, <1>2 DEF InRange

\* What the first pass says of the base's rollout.
LEMMA AcceptedBaseRollout ==
    ASSUME NEW b, ValidateBase(<<b>>) = {}, b.rollout # Null
    PROVE  b.rollout.bp \in 0..BucketSpace
<1>1. BaseFindings(<<b>>, 1) = {}
  BY FindingsOfOne
<1> QED
  BY <1>1 DEF BaseFindings, When, InRange

\* Raising the percentage keeps the enrolled enrolled.
THEOREM RampUpsKeepEnrolled == Spec => []RampUpKeepsEnrolled
<1>1. Resolution => RampUpKeepsEnrolled
  <2> DEFINE plain == mergeFlag(base, NoPatch, NoOverride)
  <2> SUFFICES ASSUME Resolution, Accepted, flag.enabled, ops.bp = Absent, IsRampUp(ov),
                      NEW ctx \in Contexts, NEW hash \in Hashes,
                      BaseAnswer(ctx, hash).reason = "ROLLOUT_IN",
                      \A r \in ToSet(flag.rules) : ~MatchRule(r, ctx)
               PROVE  /\ Ask(flag, ctx, hash).reason = "ROLLOUT_IN"
                      /\ Ask(flag, ctx, hash).bucket = BaseAnswer(ctx, hash).bucket
    BY DEF RampUpKeepsEnrolled
  <2> DEFINE bucket == hash[BucketKey(plain, ctx)]
  <2>1. flag = mergeFlag(base, ov, ops) /\ validateResolved(flag, base, ov, ops) = {}
        /\ ValidateBase(<<base>>) = {} /\ base \in BaseFlags /\ ov \in Patches
    BY DEF Resolution, Accepted
  <2>2. plain.rollout = base.rollout /\ plain.key = base.key
    BY DEF mergeFlag, MergeRollout, NoPatch, NoOverride, IsValue
  <2>3. BaseAnswer(ctx, hash) = EvaluateRollout(plain, ctx, CallerDefault, hash)
    BY RolloutReasons DEF BaseAnswer, Ask
  <2>4. /\ BucketKey(plain, ctx) # Null
        /\ bucket \in 0..(BucketSpace - 1) /\ bucket < base.rollout.bp
        /\ BaseAnswer(ctx, hash).bucket = bucket
    BY <2>2, <2>3, RolloutSides
  <2>5. /\ flag.rollout # Null
        /\ flag.rollout.ns = base.rollout.ns /\ flag.rollout.by = base.rollout.by
        /\ flag.rollout.bp = ov.rollout.bp
    BY <2>1, RampUpMerges DEF IsRampUp
  <2>6. flag.key = base.key
    BY <2>1 DEF mergeFlag
  <2>7. BucketKey(flag, ctx) = BucketKey(plain, ctx)
    BY <2>2, <2>5, <2>6 DEF BucketKey
  <2>8. bucket < flag.rollout.bp
    <3>1. base.rollout.bp \in 0..BucketSpace
      BY <2>1, AcceptedBaseRollout DEF IsRampUp
    <3>2. flag.rollout.bp \in 0..BucketSpace
      BY <2>1, <2>5, AcceptedRollout
    <3>3. flag.rollout.bp >= base.rollout.bp
      BY <2>5 DEF IsRampUp
    <3> QED
      BY <2>4, <3>1, <3>2, <3>3, BucketSpaceAssumption
  <2>9. /\ EvaluateRollout(flag, ctx, CallerDefault, hash).reason = "ROLLOUT_IN"
        /\ EvaluateRollout(flag, ctx, CallerDefault, hash).bucket = bucket
    <3>1. flag.rollout.on.type = flag.type
      BY <2>1, <2>5, AcceptedRollout
    <3> QED
      BY <2>4, <2>7, <2>8, <3>1 DEF EvaluateRollout, finish
  <2>10. Ask(flag, ctx, hash) = EvaluateRollout(flag, ctx, CallerDefault, hash)
    <3>1. {i \in DOMAIN flag.rules : MatchRule(flag.rules[i], ctx)} = {}
      BY DEF ToSet
    <3> QED
      BY <2>5, <3>1 DEF Ask, EvaluateFlag
  <2> QED
    BY <2>4, <2>9, <2>10
<1> QED
  BY <1>1, ResolutionHolds, PTL

-----------------------------------------------------------------------------
\* The ops layer moves the size of a rollout, never the key it buckets by.
LEMMA OverridesKeepBuckets ==
    ASSUME NEW b \in BaseFlags, NEW o \in Patches, NEW p, NEW ctx,
           mergeFlag(b, o, p).rollout # Null
    PROVE  /\ mergeFlag(b, o, NoOverride).rollout # Null
           /\ BucketKey(mergeFlag(b, o, p), ctx) = BucketKey(mergeFlag(b, o, NoOverride), ctx)
<1> DEFINE ro == MergeRollout(b, o)
           f  == mergeFlag(b, o, p)
           g  == mergeFlag(b, o, NoOverride)
<1>1. f.rollout = (IF ro # Null /\ IsValue(p.bp) THEN [ro EXCEPT !.bp = p.bp] ELSE ro)
  BY DEF mergeFlag
<1>2. g.rollout = ro
  BY DEF mergeFlag, NoOverride, IsValue
<1>3. f.key = g.key
  BY DEF mergeFlag
<1>4. ro # Null
  BY <1>1
<1>5. {"ns", "by"} \subseteq DOMAIN ro
  <2>1. {"ns", "by"} \subseteq DOMAIN EmptyRollout
    BY DEF EmptyRollout
  <2>2. TypedRoll(b.rollout) => {"ns", "by"} \subseteq DOMAIN b.rollout
    BY DEF TypedRoll
  <2> QED
    BY <1>4, <2>1, <2>2, RolloutAssumption DEF MergeRollout
<1>6. f.rollout.ns = ro.ns /\ f.rollout.by = ro.by
  <2> HIDE DEF ro, f
  <2> QED
    BY <1>1, <1>5
<1> QED
  BY <1>2, <1>3, <1>4, <1>6 DEF BucketKey

\* An accepted flag answers every subject with a configured value of its own type.
THEOREM AcceptedFlagsAnswer == Spec => []AcceptedFlagsServe
<1>1. Resolution => AcceptedFlagsServe
  <2> SUFFICES ASSUME Resolution, Accepted, NEW ctx \in Contexts, NEW hash \in Hashes
               PROVE  AnswersAsConfigured(flag, Ask(flag, ctx, hash), CallerDefault)
    BY DEF AcceptedFlagsServe
  <2>1. /\ flag = mergeFlag(base, ov, ops) /\ validateResolved(flag, base, ov, ops) = {}
        /\ base \in BaseFlags /\ ov \in Patches
    BY DEF Resolution, Accepted
  <2>2. Servable(flag)
    BY <2>1, AcceptedIsServable
  <2>3. DOMAIN flag.rules \subseteq Nat
    BY <2>1, MergedRules, TypesAssumption DEF TypedRules
  <2>4. flag.rollout # Null /\ BucketKey(flag, ctx) # Null =>
          hash[BucketKey(flag, ctx)] \in 0..(BucketSpace - 1)
    BY <2>1, OverridesKeepBuckets, HashesAssumption
  <2> QED
    BY <2>2, <2>3, <2>4, ServableAnswers DEF Ask
<1> QED
  BY <1>1, ResolutionHolds, PTL

-----------------------------------------------------------------------------
(* The L2 file.                                                            *)

\* A rollout the layers merge to is of Go's type.
LEMMA MergedRollIsTyped ==
    ASSUME NEW b \in BaseFlags, NEW o \in Patches, NEW p, mergeFlag(b, o, p).rollout # Null
    PROVE  TypedRoll(mergeFlag(b, o, p).rollout)
<1> DEFINE ro == MergeRollout(b, o)
           under == OrElse(b.rollout, EmptyRollout)
           f == mergeFlag(b, o, p)
<1>1. f.rollout = IF ro # Null /\ IsValue(p.bp) THEN [ro EXCEPT !.bp = p.bp] ELSE ro
  BY DEF mergeFlag
<1>2. TypedRoll(EmptyRollout)
  BY DEF TypedRoll, EmptyRollout, Typed, NoValue, Kinds
<1>3. TypedRoll(under)
  <2>1. under = b.rollout \/ b.rollout = Null
    BY RolloutAssumption DEF OrElse, IsValue
  <2>2. b.rollout = Null => under = EmptyRollout
    BY DEF OrElse, IsValue
  <2>3. b.rollout # Null => TypedRoll(b.rollout)
    BY RolloutAssumption
  <2> QED
    BY <1>2, <2>1, <2>2, <2>3
<1>4. TypedRoll(ro)
  <2>1. CASE o.rollout = Absent
    BY <1>1, <2>1, RolloutAssumption DEF MergeRollout
  <2>2. CASE IsValue(o.rollout)
    <3>1. DOMAIN EmptyRollout = {"bp", "ns", "by", "on", "off"}
      BY DEF EmptyRollout
    <3>2. ro = [x \in DOMAIN EmptyRollout |-> OrElse(o.rollout[x], under[x])]
      BY <2>2 DEF MergeRollout, IsValue
    <3>3. Typed(OrElse(o.rollout.on, under.on)) /\ Typed(OrElse(o.rollout.off, under.off))
      BY <1>3, <2>2, TypesAssumption DEF OrElse, TypedRoll
    <3> HIDE DEF under
    <3> QED
      BY <3>1, <3>2, <3>3 DEF TypedRoll
  <2> QED
    BY <1>1, <2>1, <2>2 DEF MergeRollout, IsValue
<1>5. TypedRoll([ro EXCEPT !.bp = p.bp])
  BY <1>4 DEF TypedRoll
<1> QED
  BY <1>1, <1>4, <1>5

\* A list of two lists' rules has the rules of both.
LEMMA RulesOfBoth ==
    ASSUME NEW s, NEW t, IsList(s), IsList(t), NEW i \in DOMAIN (s \o t)
    PROVE  (\E j \in DOMAIN s : (s \o t)[i] = s[j]) \/ (\E j \in DOMAIN t : (s \o t)[i] = t[j])
<1>1. s \in Seq(ToSet(s) \cup ToSet(t)) /\ t \in Seq(ToSet(s) \cup ToSet(t))
  BY DEF IsList
<1>2. CASE i <= Len(s)
  BY <1>1, <1>2
<1>3. CASE ~(i <= Len(s))
  <2>1. (s \o t)[i] = t[i - Len(s)] /\ i - Len(s) \in DOMAIN t
    BY <1>1, <1>3
  <2> QED
    BY <2>1
<1> QED
  BY <1>2, <1>3

\* Every rule of a merged flag is the base's or the overlay's, and they are a list.
LEMMA MergedRulesAre ==
    ASSUME NEW b \in BaseFlags, NEW o \in Patches, NEW p
    PROVE  LET rules == mergeFlag(b, o, p).rules
           IN  /\ IsList(rules)
               /\ \A i \in DOMAIN rules :
                    \/ \E j \in DOMAIN b.rules : rules[i] = b.rules[j]
                    \/ IsValue(o.rules) /\ \E j \in DOMAIN o.rules : rules[i] = o.rules[j]
<1> DEFINE rules == MergeRules(b, o)
           more  == OrElse(o.rules, <<>>)
<1>1. mergeFlag(b, o, p).rules = rules
  BY DEF mergeFlag
<1>2. IsList(b.rules) /\ IsList(more) /\ (~IsValue(o.rules) => more = <<>>)
  <2>1. IsList(<<>>)
    BY DEF IsList
  <2> QED
    BY <2>1, TypesAssumption DEF OrElse, TypedRules
<1>3. IsValue(o.rules) => more = o.rules
  BY DEF OrElse
<1>4. rules = b.rules \/ rules = more \/ rules = b.rules \o more
  BY DEF MergeRules
<1> HIDE DEF rules, more
<1>5. \A i \in DOMAIN more : IsValue(o.rules) /\ \E j \in DOMAIN o.rules : more[i] = o.rules[j]
  BY <1>2, <1>3
<1>6. IsList(b.rules \o more)
  <2>1. \A i \in DOMAIN (b.rules \o more) : (b.rules \o more)[i] \in ToSet(b.rules \o more)
    BY DEF ToSet
  <2>2. /\ b.rules \in Seq(ToSet(b.rules) \cup ToSet(more))
        /\ more \in Seq(ToSet(b.rules) \cup ToSet(more))
    BY <1>2 DEF IsList
  <2>3. b.rules \o more \in Seq(ToSet(b.rules) \cup ToSet(more))
    BY <2>2
  <2> HIDE DEF IsList
  <2> DEFINE all == b.rules \o more
  <2>4. Len(all) \in Nat /\ DOMAIN all = 1..Len(all) /\ all = [i \in 1..Len(all) |-> all[i]]
    BY <2>3
  <2> HIDE DEF all
  <2>5. all \in Seq(ToSet(all))
    BY <2>4 DEF ToSet
  <2> QED
    BY <2>5 DEF IsList, all
<1>7. IsList(rules)
  BY <1>2, <1>4, <1>6
<1>8. ASSUME NEW i \in DOMAIN rules
      PROVE  \/ \E j \in DOMAIN b.rules : rules[i] = b.rules[j]
             \/ IsValue(o.rules) /\ \E j \in DOMAIN o.rules : rules[i] = o.rules[j]
  <2>1. CASE rules = b.rules
    BY <2>1
  <2>2. CASE rules = more
    BY <1>5, <2>2
  <2>3. CASE rules = b.rules \o more
    <3>1. CASE \E j \in DOMAIN b.rules : rules[i] = b.rules[j]
      BY <3>1
    <3>2. CASE \E j \in DOMAIN more : rules[i] = more[j]
      <4>1. PICK j \in DOMAIN more : rules[i] = more[j]
        BY <3>2
      <4> QED
        BY <1>5, <4>1
    <3> QED
      BY <1>2, <2>3, <3>1, <3>2, RulesOfBoth
  <2> QED
    BY <1>4, <2>1, <2>2, <2>3
<1> QED
  BY <1>1, <1>7, <1>8

\* Rules without findings use operators the engine knows.
LEMMA CleanRules ==
    ASSUME NEW rules, validateRuleList(rules) = {},
           NEW i \in DOMAIN rules, NEW c \in ToSet(rules[i].conditions)
    PROVE  c.op \in Operators
<1>1. ConditionFindings(c) = {}
  <2>1. RuleFindings(rules, i) = {}
    BY EmptyUnion DEF validateRuleList
  <2>2. UNION {ConditionFindings(d) : d \in ToSet(rules[i].conditions)} = {}
    BY <2>1 DEF RuleFindings
  <2> QED
    BY <2>2, EmptyUnion
<1>2. c.op \notin Operators => "B06" \in ConditionFindings(c)
  BY DEF ConditionFindings
<1> QED
  BY <1>1, <1>2

\* What the first pass says of the rules of either layer.
LEMMA AcceptedRules ==
    ASSUME Resolution, Accepted
    PROVE  /\ validateRuleList(base.rules) = {}
           /\ IsValue(ov.rules) => validateRuleList(ov.rules) = {}
<1>1. /\ ValidateBase(<<base>>) = {} /\ ValidateOverlay(<<ov>>, base.key) = {}
      /\ base \in BaseFlags /\ ov \in Patches
  BY DEF Resolution, Accepted
<1>2. validateRuleList(base.rules) = {}
  <2>1. BaseFindings(<<base>>, 1) = {}
    BY <1>1, FindingsOfOne
  <2> QED
    BY <2>1 DEF BaseFindings
<1>3. ASSUME IsValue(ov.rules) PROVE validateRuleList(ov.rules) = {}
  <2>1. ov # NoPatch
    <3>1. NoPatch.rules = Absent
      BY DEF NoPatch
    <3> QED
      BY <1>3, <3>1 DEF IsValue
  <2>2. 1 \in PlacesOf(<<ov>>, base.key)
    BY <1>1, <2>1, PatchesAssumption DEF PlacesOf
  <2>3. OverlayFindings(<<ov>>, 1) = {}
    BY <1>1, <2>2, EmptyUnion DEF ValidateOverlay
  <2> QED
    BY <1>3, <2>3 DEF OverlayFindings
<1> QED
  BY <1>2, <1>3

\* An accepted flag is one the codec takes.
LEMMA AcceptedIsTyped ==
    ASSUME Resolution, Accepted
    PROVE  TypedFlag(flag)
<1>1. /\ flag = mergeFlag(base, ov, ops) /\ validateResolved(flag, base, ov, ops) = {}
      /\ base \in BaseFlags /\ ov \in Patches
  BY DEF Resolution, Accepted
<1>2. Typed(flag.default) /\ Typed(flag.off)
  <2>1. /\ Typed(base.default) /\ Typed(base.off)
        /\ IsValue(ov.default) => Typed(ov.default)
        /\ IsValue(ov.off) => Typed(ov.off)
    BY <1>1, TypesAssumption
  <2> QED
    BY <1>1, <2>1 DEF mergeFlag, OrElse
<1>3. flag.type \in DOMAIN Kinds \ {"unknown"}
  <2>1. flag.type # "unknown"
    BY <1>1 DEF validateResolved
  <2>2. flag.default.type = flag.type
    BY <1>1, AcceptedTypes
  <2> QED
    BY <1>2, <2>1, <2>2 DEF Typed
<1>4. flag.order \in {"", "rules_first"}
  BY <1>1 DEF mergeFlag, ParseOrder
<1>5. flag.rollout # Null => TypedRoll(flag.rollout)
  BY <1>1, MergedRollIsTyped
<1>6. /\ IsList(flag.rules)
      /\ \A i \in DOMAIN flag.rules :
           \/ \E j \in DOMAIN base.rules : flag.rules[i] = base.rules[j]
           \/ IsValue(ov.rules) /\ \E j \in DOMAIN ov.rules : flag.rules[i] = ov.rules[j]
  BY <1>1, MergedRulesAre
<1>7. /\ TypedRules(base.rules) /\ validateRuleList(base.rules) = {}
      /\ IsValue(ov.rules) => TypedRules(ov.rules) /\ validateRuleList(ov.rules) = {}
  BY <1>1, TypesAssumption, AcceptedRules
<1> DEFINE Fine(r) ==
             /\ Typed(r.value) /\ IsList(r.conditions)
             /\ \A j \in DOMAIN r.conditions : TypedCond(r.conditions[j])
             /\ \A c \in ToSet(r.conditions) : c.op \in Operators
<1>8. ASSUME NEW rules, TypedRules(rules), validateRuleList(rules) = {}, NEW j \in DOMAIN rules
      PROVE  Fine(rules[j])
  BY <1>8, CleanRules DEF TypedRules
<1>9. ASSUME NEW i \in DOMAIN flag.rules PROVE Fine(flag.rules[i])
  <2> HIDE DEF Fine
  <2> QED
    BY <1>6, <1>7, <1>8
<1>10. /\ TypedRules(flag.rules)
       /\ \A i \in DOMAIN flag.rules : \A c \in ToSet(flag.rules[i].conditions) : c.op \in Operators
  BY <1>6, <1>9 DEF TypedRules
<1> QED
  BY <1>2, <1>3, <1>4, <1>5, <1>10 DEF TypedFlag

\* A client restarted on its L2 file answers as the one that wrote it.
THEOREM DiskKeepsAnswers == Spec => []DiskAnswersTheSame
<1>1. Resolution => DiskAnswersTheSame
  <2> DEFINE flags == [k \in {flag.key} |-> flag]
             decoded == Decode(Encode(flags))
  <2> SUFFICES ASSUME Resolution, Accepted
               PROVE  /\ ~decoded.nil
                      /\ \A ctx \in Contexts, hash \in Hashes :
                            Evaluate(decoded, flag.key, ctx, flag.type, CallerDefault, hash)
                              = Ask(flag, ctx, hash)
    BY DEF DiskAnswersTheSame
  <2>1. \A k \in DOMAIN flags : flags[k].key = k /\ TypedFlag(flags[k])
    BY AcceptedIsTyped
  <2>2. flag.key \in DOMAIN flags /\ flags[flag.key] = flag
    OBVIOUS
  <2> HIDE DEF flags
  <2>3. /\ ~decoded.nil
        /\ \A key, ctx, want, dflt, hash :
              Evaluate(decoded, key, ctx, want, dflt, hash)
                = Evaluate(SnapshotOf(flags), key, ctx, want, dflt, hash)
    BY <2>1, SnapshotRoundTrip
  <2>4. ASSUME NEW ctx, NEW hash
        PROVE  Evaluate(SnapshotOf(flags), flag.key, ctx, flag.type, CallerDefault, hash)
                 = Ask(flag, ctx, hash)
    BY <2>2 DEF Evaluate, SnapshotOf, Ask
  <2> HIDE DEF decoded
  <2> QED
    BY <2>3, <2>4
<1> QED
  BY <1>1, ResolutionHolds, PTL
-----------------------------------------------------------------------------
(* Version gates.                                                          *)

\* The tables are what they say they are: the strings of an entry are one text up to build
\* metadata, each entry is below the next one, and what is no version does not parse.
VersionTable ==
    /\ Versions \in Seq(SUBSET DOMAIN Bytes)
    /\ \A i \in DOMAIN Versions :
          /\ Versions[i] # {}
          /\ \A a, b \in Versions[i] : Version[a] # Malformed /\ Plain(Bytes[a]) = Plain(Bytes[b])
    /\ \A i \in 1..(Len(Versions) - 1) : \A a \in Versions[i], b \in Versions[i + 1] :
          compareSemver(Version[a], Version[b]) = -1
    /\ \A s \in NotVersions : s \in DOMAIN Bytes /\ Version[s] = Malformed

\* Neighbours in order put every two entries in order.
LEMMA TableAscends ==
    ASSUME VersionTable, NEW i \in DOMAIN Versions, NEW a \in Versions[i],
           NEW j \in DOMAIN Versions, i < j, NEW b \in Versions[j]
    PROVE  compareSemver(Version[a], Version[b]) = -1
<1> DEFINE Above(k) == \A d \in Versions[k] : compareSemver(Version[a], Version[d]) = -1
           S == {k \in DOMAIN Versions : i < k /\ ~Above(k)}
<1>0. DOMAIN Versions = 1..Len(Versions) /\ Len(Versions) \in Nat
  BY DEF VersionTable
<1>1. \A k \in DOMAIN Versions : \A d \in Versions[k] : d \in DOMAIN Bytes /\ Version[d] # Malformed
  BY DEF VersionTable
<1>2. ASSUME S # {} PROVE FALSE
  <2>1. PICK m \in S : \A k \in S : m <= k
    <3>1. S \subseteq Nat
      BY <1>0
    <3> HIDE DEF S
    <3> QED
      BY <1>2, <3>1, FirstPlace
  <2>2. m \in 1..Len(Versions) /\ i \in 1..Len(Versions) /\ i < m
    BY <1>0
  <2>3. CASE m = i + 1
    <3>1. i \in 1..(Len(Versions) - 1)
      BY <2>2, <2>3
    <3>2. Above(m)
      BY <2>3, <3>1 DEF VersionTable
    <3> QED
      BY <3>2
  <2>4. CASE m # i + 1
    <3>1. /\ m - 1 \in DOMAIN Versions /\ i < m - 1 /\ ~(m <= m - 1)
          /\ m - 1 \in 1..(Len(Versions) - 1) /\ (m - 1) + 1 = m
      BY <1>0, <2>2, <2>4
    <3>2. Above(m - 1)
      <4>1. m - 1 \notin S
        <5> HIDE DEF S
        <5> QED
          BY <2>1, <3>1
      <4> QED
        BY <3>1, <4>1
    <3>3. PICK d \in Versions[m - 1] : compareSemver(Version[a], Version[d]) = -1
      BY <3>1, <3>2 DEF VersionTable
    <3>4. ASSUME NEW e \in Versions[m] PROVE compareSemver(Version[a], Version[e]) = -1
      <4>1. compareSemver(Version[d], Version[e]) = -1
        BY <3>1 DEF VersionTable
      <4>2. /\ a \in DOMAIN Bytes /\ Version[a] # Malformed
            /\ d \in DOMAIN Bytes /\ Version[d] # Malformed
            /\ e \in DOMAIN Bytes /\ Version[e] # Malformed
        BY <1>1, <3>1
      <4>3. /\ Version[a] \in ParsedVersions /\ Version[d] \in ParsedVersions
            /\ Version[e] \in ParsedVersions
            /\ compareSemver(Version[a], Version[d]) = byPrecedence[<<Version[a], Version[d]>>]
            /\ compareSemver(Version[d], Version[e]) = byPrecedence[<<Version[d], Version[e]>>]
            /\ compareSemver(Version[a], Version[e]) = byPrecedence[<<Version[a], Version[e]>>]
        BY <4>2, VersionOrder
      <4> QED
        BY <3>3, <4>1, <4>3, PrecedenceIsOrder DEF IsOrder
    <3> QED
      BY <3>4
  <2> QED
    BY <2>3, <2>4
<1> QED
  BY <1>2

LEMMA TablePlaces == VersionTable => DOMAIN Versions \subseteq Nat
BY DEF VersionTable

\* The order of two strings is the order of their entries.
LEMMA TableOrder ==
    ASSUME VersionTable, NEW i \in DOMAIN Versions, NEW a \in Versions[i],
           NEW j \in DOMAIN Versions, NEW b \in Versions[j]
    PROVE  /\ i < j => compareSemver(Version[a], Version[b]) = -1
           /\ i = j => compareSemver(Version[a], Version[b]) = 0
           /\ i > j => compareSemver(Version[a], Version[b]) = 1
<1>1. /\ a \in DOMAIN Bytes /\ Version[a] # Malformed
      /\ b \in DOMAIN Bytes /\ Version[b] # Malformed
  BY DEF VersionTable
<1>2. CASE i < j
  <2>1. i \in Nat /\ j \in Nat
    BY DEF VersionTable
  <2> QED
    BY <1>2, <2>1, TableAscends
<1>3. CASE i = j
  <2>1. Plain(Bytes[a]) = Plain(Bytes[b])
    BY <1>3 DEF VersionTable
  <2>2. /\ Version[a] = parseSemver(Bytes[a]) /\ Bytes[a] \in Seq(Int)
        /\ Version[b] = parseSemver(Bytes[b]) /\ Bytes[b] \in Seq(Int)
    BY <1>1, BytesAssumption DEF Version
  <2>3. parseSemver(Bytes[a]) # Malformed /\ parseSemver(Bytes[b]) # Malformed
    BY <1>1, <2>2
  <2>4. compareSemver(parseSemver(Bytes[a]), parseSemver(Bytes[b])) = 0
    BY <2>1, <2>2, <2>3, EqualVersionsAreOneText
  <2> QED
    BY <1>3, <2>2, <2>4, TablePlaces
<1>4. CASE i > j
  <2>1. compareSemver(Version[b], Version[a]) = -1
    BY <1>4, TableAscends
  <2>2. /\ Version[a] \in ParsedVersions /\ Version[b] \in ParsedVersions
        /\ compareSemver(Version[a], Version[b]) = byPrecedence[<<Version[a], Version[b]>>]
        /\ compareSemver(Version[b], Version[a]) = byPrecedence[<<Version[b], Version[a]>>]
    BY <1>1, VersionOrder
  <2>3. compareSemver(Version[a], Version[b]) = 1
    BY <2>1, <2>2, PrecedenceIsOrder DEF IsOrder
  <2>4. i \in Nat /\ j \in Nat
    BY DEF VersionTable
  <2> QED
    BY <1>4, <2>3, <2>4
<1>5. i < j \/ i = j \/ i > j
  BY DEF VersionTable
<1> QED
  BY <1>2, <1>3, <1>4, <1>5

\* A gate on a version reads the attribute it names.
LEMMA GateDecides ==
    ASSUME NEW c, c.op \in Versioned, NEW v, v \in DOMAIN Bytes,
           NEW ctx, ctx = [user |-> "", tenant |-> "", attrs |-> [a \in {c.attr} |-> StringValue(v)]]
    PROVE  decideCondition(c, ctx) = IF c.values = <<>> THEN "bad_op"
                                     ELSE matchOperand(c.op, StringValue(v), c.values[1])
<1>1. Attribute(ctx, c.attr) = StringValue(v)
  BY DEF Attribute
<1>2. c.op # "exists" /\ c.op # "in" /\ c.op \in Operators
  BY DEF Versioned, Operators
<1> QED
  BY <1>1, <1>2, NullAssumption DEF decideCondition

\* With the tables in order, every version a gate meets is decided by its place in them,
\* and what is no version by nothing, negated or not: however many versions there are, it
\* is enough to compare neighbours.
THEOREM VersionGatesFollowTheOrder ==
    ASSUME VersionTable
    PROVE  Spec => []VersionGatesAreExact
<1> DEFINE Of(c, v) == [user |-> "", tenant |-> "", attrs |-> [a \in {c.attr} |-> StringValue(v)]]
<1>1. ASSUME NEW c, c.op \in Versioned,
             NEW i \in DOMAIN Versions, NEW j \in DOMAIN Versions,
             NEW w \in Versions[j], c.values = <<StringValue(w)>>, NEW v \in Versions[i]
      PROVE  MatchCondition(c, Of(c, v)) <=> (Compare(c.op, i, j) <=> ~c.negate)
  <2>1. /\ v \in DOMAIN Bytes /\ Version[v] # Malformed
        /\ w \in DOMAIN Bytes /\ Version[w] # Malformed
    BY DEF VersionTable
  <2>2. decideCondition(c, Of(c, v)) = matchOperand(c.op, StringValue(v), StringValue(w))
    <3>1. c.values # <<>> /\ c.values[1] = StringValue(w)
      BY <1>1
    <3>2. decideCondition(c, Of(c, v)) = IF c.values = <<>> THEN "bad_op"
                                         ELSE matchOperand(c.op, StringValue(v), c.values[1])
      BY <1>1, <2>1, GateDecides
    <3> QED
      BY <3>1, <3>2
  <2>3. PICK o : o = compareSemver(Version[v], Version[w])
    OBVIOUS
  <2>4. matchOperand(c.op, StringValue(v), StringValue(w)) = triOf(Compare(c.op, o, 0))
    BY <1>1, <2>1, <2>3, VersionOperand
  <2>5. /\ i < j => o = -1
        /\ i = j => o = 0
        /\ i > j => o = 1
        /\ i \in Nat /\ j \in Nat
    BY <2>3, TableOrder DEF VersionTable
  <2>6. Compare(c.op, o, 0) <=> Compare(c.op, i, j)
    BY <1>1, <2>5 DEF Compare, Versioned
  <2>7. triOf(Compare(c.op, o, 0)) = IF Compare(c.op, i, j) THEN "true" ELSE "false"
    BY <2>6 DEF triOf
  <2> QED
    BY <2>2, <2>4, <2>7 DEF MatchCondition
<1>2. ASSUME NEW c, c.op \in Versioned, NEW v \in NotVersions
      PROVE  ~MatchCondition(c, Of(c, v))
  <2>1. v \in DOMAIN Bytes /\ Version[v] = Malformed
    BY DEF VersionTable
  <2>2. matchOperand(c.op, StringValue(v), c.values[1]) \in {"bad_type", "bad_value"}
    BY <1>2, <2>1 DEF matchOperand, Versioned, Ordered, StringValue
  <2>3. decideCondition(c, Of(c, v)) \in {"bad_op", "bad_type", "bad_value"}
    BY <1>2, <2>1, <2>2, GateDecides
  <2> QED
    BY <2>3 DEF MatchCondition
<1>3. VersionGatesAreExact
  BY <1>1, <1>2 DEF VersionGatesAreExact
<1> QED
  BY <1>3, PTL
=============================================================================
