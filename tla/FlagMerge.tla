----------------------------- MODULE FlagMerge -----------------------------
(***************************************************************************)
(* The layered configuration of one flag: the sparse fields of opt.go, the *)
(* wire types of layer.go, the merge L1 -> L2 -> L3 of merge.go and the    *)
(* two validation passes of validate.go.                                   *)
(*                                                                         *)
(* A value is its type and an identity. A finding is the id of the rule    *)
(* that raised it; warnings, which never stop anything, are left out. Null *)
(* is both an explicit null in a sparse field and a flag without rollout.  *)
(***************************************************************************)
EXTENDS FlagCore

CONSTANTS
    Absent,       \* an Opt whose key was not in the document
    ValidKeys,    \* the keys flagKeyRE matches
    MaxOpsTTL     \* MaxOpsOverrideTTL

ASSUME OptAssumption == Absent # Null /\ FALSE \notin {Absent, Null}
ASSUME MaxOpsTTLAssumption == MaxOpsTTL \in Nat

-----------------------------------------------------------------------------
(* opt.go                                                                  *)

IsValue(o) == o # Absent /\ o # Null

OrElse(o, def) == IF IsValue(o) THEN o ELSE def

-----------------------------------------------------------------------------
(* The data.                                                               *)

\* What `rollout: {...}` over a flag without a rollout starts from.
EmptyRollout == [bp |-> 0, ns |-> "", by |-> "", on |-> NoValue, off |-> NoValue]

\* A flag the overlay, or the ops layer, does not mention.
NoPatch == [key |-> "", type |-> Absent, enabled |-> Absent, default |-> Absent,
            off |-> Absent, rules |-> Absent, mode |-> Absent,
            rollout |-> Absent, order |-> Absent]
NoOverride == [key |-> "", enabled |-> Absent, bp |-> Absent,
               expires |-> Absent, attributed |-> TRUE, whitelisted |-> TRUE]

\* parseEvaluationOrder: empty is legal and stays unspecified.
OrderKnown(o) == o \in {"", "rules_first"}
ParseOrder(o) == IF o = "rules_first" THEN o ELSE ""

InRange(bp) == bp \in 0..BucketSpace

-----------------------------------------------------------------------------
(* merge.go                                                                *)

\* (Mutation) The namespace is not inherited from the base.
MergeRollout_BlanksNamespace(base, ov) ==
    IF ov.rollout = Absent THEN base.rollout
    ELSE IF ov.rollout = Null THEN Null
    ELSE LET under == [OrElse(base.rollout, EmptyRollout) EXCEPT !.ns = ""]
         IN  [f \in DOMAIN EmptyRollout |-> OrElse(ov.rollout[f], under[f])]

\* A deep merge, field by field; an explicit null deletes the block.
MergeRollout(base, ov) ==
    IF ov.rollout = Absent THEN base.rollout
    ELSE IF ov.rollout = Null THEN Null
    ELSE LET under == OrElse(base.rollout, EmptyRollout)
         IN  [f \in DOMAIN EmptyRollout |-> OrElse(ov.rollout[f], under[f])]

\* Whole lists only: replaced, or appended to. Null is an empty list.
MergeRules(base, ov) ==
    IF ov.rules = Absent THEN base.rules
    ELSE IF OrElse(ov.mode, "replace") = "append"
           THEN base.rules \o OrElse(ov.rules, <<>>)
           ELSE OrElse(ov.rules, <<>>)

\* (Mutation) The overlay outranks the ops layer.
mergeFlag_OverlayWins(base, ov, ops) ==
    LET ro == MergeRollout(base, ov)
    IN  [key     |-> base.key,
         type    |-> base.type,
         enabled |-> OrElse(ov.enabled, OrElse(ops.enabled, base.enabled)),
         default |-> OrElse(ov.default, base.default),
         off     |-> OrElse(ov.off, IF IsUnknown(base.off) THEN base.default ELSE base.off),
         rules   |-> MergeRules(base, ov),
         rollout |-> IF ro # Null /\ IsValue(ops.bp) THEN [ro EXCEPT !.bp = ops.bp] ELSE ro,
         order   |-> ParseOrder(OrElse(ov.order, base.order))]

\* The resolved core.Flag. An off value the base omits is the base's default.
mergeFlag(base, ov, ops) ==
    LET ro == MergeRollout(base, ov)
    IN  [key     |-> base.key,
         type    |-> base.type,
         enabled |-> OrElse(ops.enabled, OrElse(ov.enabled, base.enabled)),
         default |-> OrElse(ov.default, base.default),
         off     |-> OrElse(ov.off, IF IsUnknown(base.off) THEN base.default ELSE base.off),
         rules   |-> MergeRules(base, ov),
         rollout |-> IF ro # Null /\ IsValue(ops.bp) THEN [ro EXCEPT !.bp = ops.bp] ELSE ro,
         order   |-> IF IsValue(ov.order) /\ OrderKnown(ov.order)
                       THEN ParseOrder(ov.order) ELSE ParseOrder(base.order)]

-----------------------------------------------------------------------------
(* validate.go, pass 1: one layer alone.                                   *)

When(p, id) == IF p THEN {id} ELSE {}

ConditionFindings(c) ==
    When(c.attr = "", "B07")
      \cup IF c.op \notin Operators THEN {"B06"}
           ELSE When(CASE c.op = "exists" -> c.values # <<>>
                       [] c.op = "in"     -> c.values = <<>>
                       [] OTHER           -> Len(c.values) # 1, "B07")
                  \cup When(\E i \in DOMAIN c.values : IsUnknown(c.values[i]), "B07")

RuleFindings(rules, i) ==
    LET r == rules[i]
    IN  When(r.id = "" \/ \E j \in 1..(i - 1) : rules[j].id = r.id, "B05")
          \cup When(r.combiner \notin {"", "and", "or"}, "B17")
          \cup When(r.conditions = <<>>, "B07")
          \cup UNION {ConditionFindings(c) : c \in ToSet(r.conditions)}

validateRuleList(rules) == UNION {RuleFindings(rules, i) : i \in DOMAIN rules}

\* Entry i repeats the key of an earlier entry of its layer.
Repeats(entries, i) == \E j \in 1..(i - 1) : entries[j].key = entries[i].key

BaseFindings(flags, i) ==
    LET f == flags[i]
    IN  When(f.missing # {}, "B00")
          \cup When(f.key \notin ValidKeys, "B01")
          \cup When(Repeats(flags, i), "B12")
          \cup When(f.type = "unknown", "B02")
          \cup When(f.type # "unknown" /\ f.default.type # f.type, "B03")
          \cup When(/\ f.type # "unknown"
                    /\ ~IsUnknown(f.off)
                    /\ f.off.type # f.type, "B04")
          \cup When(~OrderKnown(f.order), "B18")
          \cup validateRuleList(f.rules)
          \cup When(f.rollout # Null /\ ~InRange(f.rollout.bp), "B08")

\* Reject-global: the findings of the whole base layer.
ValidateBase(flags) == UNION {BaseFindings(flags, i) : i \in DOMAIN flags}

OverlayFindings(flags, i) ==
    LET f == flags[i]
        ro == f.rollout
    IN  When(f.key \notin ValidKeys, "O01")
          \cup When(Repeats(flags, i), "O11")
          \cup When(f.type # Absent, "O02")
          \cup When(Null \in {f.enabled, f.default, f.off, f.order, f.mode}, "O04")
          \cup When(IF f.rules = Absent THEN f.mode # Absent
                    ELSE \/ ~IsValue(f.mode)
                         \/ f.mode \notin {"replace", "append"}
                         \/ f.rules = Null /\ f.mode = "append", "O03")
          \cup (IF IsValue(f.rules) THEN validateRuleList(f.rules) ELSE {})
          \cup When(IsValue(f.order) /\ ~OrderKnown(f.order), "O12")
          \cup When(IsValue(ro) /\ \E x \in DOMAIN ro : ro[x] = Null, "O04")
          \cup When(IsValue(ro) /\ IsValue(ro.bp) /\ ~InRange(ro.bp), "O05")

OpsFindings(overrides, i, now) ==
    LET o == overrides[i]
    IN  When(o.key \notin ValidKeys, "O01")
          \cup When(Repeats(overrides, i), "O14")
          \cup When(~o.whitelisted, "O07")
          \cup When(~IsValue(o.expires) \/ ~o.attributed, "O08")
          \cup When(IsValue(o.expires) /\ o.expires - now > MaxOpsTTL, "O09")
          \cup When(IsValue(o.bp) /\ ~InRange(o.bp), "O05")

\* The places of a key in a layer.
PlacesOf(entries, key) == {i \in DOMAIN entries : entries[i].key = key}

\* Reject-flag: the findings of an overlay against one key, and those of an ops layer
\* at build time.
ValidateOverlay(flags, key) == UNION {OverlayFindings(flags, i) : i \in PlacesOf(flags, key)}
ValidateOps(overrides, key, now) ==
    UNION {OpsFindings(overrides, i, now) : i \in PlacesOf(overrides, key)}

opsExpired(o, now) == IsValue(o.expires) /\ o.expires <= now

-----------------------------------------------------------------------------
(* validate.go, pass 2: the merged flag.                                   *)

Appended(ov) == IsValue(ov.rules) /\ OrElse(ov.mode, "replace") = "append"

\* (Mutation) The rollout's values are not compared with the flag's type.
validateResolved_NoM18(f, base, ov, ops) ==
    IF f.type = "unknown" THEN {"M20"}
    ELSE When(f.default.type # f.type \/ f.off.type # f.type, "M01")
           \cup When(\E i \in DOMAIN f.rules : f.rules[i].value.type # f.type, "M06")
           \cup (IF f.rollout = Null THEN {}
                 ELSE When(IsUnknown(f.rollout.on) \/ IsUnknown(f.rollout.off), "M17"))

validateResolved(f, base, ov, ops) ==
    IF f.type = "unknown" THEN {"M20"}
    ELSE When(f.default.type # f.type \/ f.off.type # f.type, "M01")
           \cup When(/\ Appended(ov)
                     /\ \E i \in DOMAIN ov.rules, j \in DOMAIN base.rules :
                            ov.rules[i].id = base.rules[j].id, "M03")
           \cup When(\E i, j \in DOMAIN f.rules : i # j /\ f.rules[i].id = f.rules[j].id, "M04")
           \cup When(\E i \in DOMAIN f.rules : f.rules[i].value.type # f.type, "M06")
           \cup (IF f.rollout = Null
                   THEN When(IsValue(ops.bp), "M19")
                   ELSE LET r == f.rollout
                        IN  When(~InRange(r.bp), "M05")
                              \cup When(IsUnknown(r.on) \/ IsUnknown(r.off), "M17")
                              \cup When(~IsUnknown(r.on) /\ r.on.type # f.type, "M18")
                              \cup When(~IsUnknown(r.off) /\ r.off.type # f.type, "M18"))
           \cup When(f.rules # <<>> /\ f.rollout # Null /\ f.order = "", "M09")

-----------------------------------------------------------------------------
(* Properties.                                                             *)

\* What Evaluate needs of a flag to serve it at all.
Servable(f) ==
    /\ f.default.type = f.type /\ f.off.type = f.type
    /\ \A i \in DOMAIN f.rules : f.rules[i].value.type = f.type
    /\ \A i, j \in DOMAIN f.rules : f.rules[i].id = f.rules[j].id => i = j
    /\ f.rollout # Null =>
         /\ InRange(f.rollout.bp)
         /\ f.rollout.on.type = f.type /\ f.rollout.off.type = f.type
         /\ f.rules # <<>> => f.order # ""

\* An answer for a flag that was found: a configured value of the flag's type, and the
\* caller's default only for a subject that cannot be bucketed.
AnswersAsConfigured(f, res, callerDefault) ==
    IF res.reason = "MISSING_SUBJECT" THEN res.value = callerDefault
    ELSE ~IsFallback(res.reason) /\ res.value.type = f.type
=============================================================================
