------------------------------ MODULE FlagCodec ------------------------------
(***************************************************************************)
(* JSONCodec of cache.go: what a snapshot becomes in the L2 file and what  *)
(* a later process reads back. A JSON object is a function on the keys     *)
(* written, so omitempty shows; a scalar keeps the JSON kind only, and the *)
(* reader infers the type from it.                                         *)
(***************************************************************************)
EXTENDS FlagCore

l2FormatVersion == 1

\* The object as written, without the keys whose values omitempty takes for empty.
OmitEmpty(object, empty) == Restrict(object, DOMAIN object \ empty)

\* A key under omitempty, when its value is empty.
EmptyKey(name, isEmpty) == IF isEmpty THEN {name} ELSE {}

\* A key the reader may not find has the zero value.
Field(object, name, zero) == IF name \in DOMAIN object THEN object[name] ELSE zero

\* Value.MarshalJSON and UnmarshalJSON: the bare scalar, null for the zero Value.
Kinds == [unknown |-> "null", bool |-> "boolean", string |-> "string", int |-> "number"]
MarshalValue(v) == [kind |-> Kinds[v.type], val |-> v.val]
UnmarshalValue(j) == [type |-> CHOOSE t \in DOMAIN Kinds : Kinds[t] = j.kind, val |-> j.val]

\* What Go's types say of the data: a value has a type of core's, a list is one.
Typed(v) == v = [type |-> v.type, val |-> v.val] /\ v.type \in DOMAIN Kinds
TypedCond(c) ==
    c.negate \in BOOLEAN /\ IsList(c.values) /\ \A i \in DOMAIN c.values : Typed(c.values[i])
TypedRules(rules) ==
    /\ IsList(rules)
    /\ \A i \in DOMAIN rules :
         /\ Typed(rules[i].value) /\ IsList(rules[i].conditions)
         /\ \A j \in DOMAIN rules[i].conditions : TypedCond(rules[i].conditions[j])
TypedRoll(r) ==
    /\ r = [bp |-> r.bp, ns |-> r.ns, by |-> r.by, on |-> r.on, off |-> r.off]
    /\ Typed(r.on) /\ Typed(r.off)

Mapped(s, f(_)) == [i \in DOMAIN s |-> f(s[i])]

-----------------------------------------------------------------------------
encodeCond(c) ==
    OmitEmpty([attribute |-> c.attr, op |-> c.op, values |-> Mapped(c.values, MarshalValue),
               negate |-> c.negate],
              EmptyKey("negate", ~c.negate))

\* LogicOp.String has two answers.
encodeRule(r) ==
    [id |-> r.id, combiner |-> IF r.combiner = "or" THEN "or" ELSE "and",
     conditions |-> Mapped(r.conditions, encodeCond), value |-> MarshalValue(r.value)]

encodeRoll(r) ==
    IF r = Null THEN Null
    ELSE OmitEmpty([basis_points |-> r.bp, bucket_namespace |-> r.ns, bucket_by |-> r.by,
                    on_value |-> MarshalValue(r.on), off_value |-> MarshalValue(r.off)],
                   EmptyKey("bucket_namespace", r.ns = "") \cup EmptyKey("bucket_by", r.by = ""))

\* Every key of a flag, the optional ones included.
everyKey(f) ==
    [key |-> f.key, type |-> f.type, enabled |-> f.enabled,
     default_value |-> MarshalValue(f.default), off_value |-> MarshalValue(f.off),
     rules |-> Mapped(f.rules, encodeRule), rollout |-> encodeRoll(f.rollout),
     evaluation_order |-> f.order]

\* (Mutation) A rollout whose size is zero counts as empty.
encodeFlag_OmitsZero(f) ==
    OmitEmpty(everyKey(f), EmptyKey("rollout", f.rollout = Null \/ f.rollout.bp = 0)
                             \cup EmptyKey("rules", f.rules = <<>>)
                             \cup EmptyKey("evaluation_order", f.order = ""))

encodeFlag(f) ==
    OmitEmpty(everyKey(f), EmptyKey("rollout", f.rollout = Null)
                             \cup EmptyKey("rules", f.rules = <<>>)
                             \cup EmptyKey("evaluation_order", f.order = ""))

Encode(flags) == [format |-> l2FormatVersion, flags |-> {encodeFlag(flags[k]) : k \in DOMAIN flags}]

-----------------------------------------------------------------------------
decodeCond(j) ==
    [attr |-> j.attribute, op |-> j.op, values |-> Mapped(j.values, UnmarshalValue),
     negate |-> Field(j, "negate", FALSE)]

decodeRule(j) ==
    [id |-> j.id, combiner |-> IF j.combiner = "or" THEN "or" ELSE "and",
     conditions |-> Mapped(j.conditions, decodeCond), value |-> UnmarshalValue(j.value)]

decodeRoll(j) ==
    [bp |-> j.basis_points, ns |-> Field(j, "bucket_namespace", ""),
     by |-> Field(j, "bucket_by", ""),
     on |-> UnmarshalValue(j.on_value), off |-> UnmarshalValue(j.off_value)]

decodeFlag(j) ==
    [key |-> j.key, type |-> j.type, enabled |-> j.enabled,
     default |-> UnmarshalValue(j.default_value), off |-> UnmarshalValue(j.off_value),
     rules |-> Mapped(Field(j, "rules", <<>>), decodeRule),
     rollout |-> IF "rollout" \in DOMAIN j THEN decodeRoll(j.rollout) ELSE Null,
     order |-> IF Field(j, "evaluation_order", "") = "rules_first" THEN "rules_first" ELSE ""]

\* An unknown enum name is an error, and an error loses every flag of the file.
Readable(j) ==
    /\ j.type \in DOMAIN Kinds \ {"unknown"}
    /\ Field(j, "evaluation_order", "") \in {"", "unspecified", "rules_first"}
    /\ \A r \in ToSet(Field(j, "rules", <<>>)) : \A c \in ToSet(r.conditions) : c.op \in Operators

Decode(file) ==
    IF file.format # l2FormatVersion \/ \E j \in file.flags : ~Readable(j) THEN NilSnapshot
    ELSE SnapshotOf([k \in {j.key : j \in file.flags} |->
                       decodeFlag(CHOOSE j \in file.flags : j.key = k)])
=============================================================================
