--------------------------- MODULE MCFlagPipeline ---------------------------
(***************************************************************************)
(* FlagPipeline for TLC: one bool flag, targeting on a country, an age, a  *)
(* version and an e-mail address, two bucketing namespaces. The inputs mix *)
(* well-formed entries with entries each validation rule must stop.        *)
(***************************************************************************)
EXTENDS FlagPipeline, TLC

T == [type |-> "bool", val |-> TRUE]
F == [type |-> "bool", val |-> FALSE]
S == [type |-> "string", val |-> "s"]
Str(s) == [type |-> "string", val |-> s]
Num(n) == [type |-> "int", val |-> n]

Cond(attr, op, values, negate) ==
    [attr |-> attr, op |-> op, values |-> values, negate |-> negate]
Rule(id, combiner, conditions, value) ==
    [id |-> id, combiner |-> combiner, conditions |-> conditions, value |-> value]

NotIN == Rule("a", "", <<Cond("country", "eq", <<Str("IN")>>, TRUE)>>, T)
Adult == Rule("b", "or", <<Cond("age", "gte", <<Num(18)>>, FALSE),
                           Cond("country", "in", <<Str("IN"), Str("US")>>, TRUE)>>, F)
OldApp == Rule("c", "and", <<Cond("version", "semver_lt", <<Str("1.10.0")>>, TRUE),
                             Cond("email", "contains", <<Str("@x")>>, FALSE)>>, T)
Gated == Rule("h", "and", <<Cond("version", "semver_gt", <<Str("1.0.0-beta.2")>>, FALSE),
                            Cond("version", "semver_eq", <<Str("1.0.0-rc.1+b7")>>, TRUE),
                            Cond("version", "semver_lt", <<Str("1.0.0-10")>>, TRUE)>>, T)
NoUser == Rule("d", "and", <<Cond("user_id", "exists", <<>>, TRUE)>>, F)
Mistyped == [NotIN EXCEPT !.id = "e", !.value = S]
Empty == Rule("f", "and", <<>>, T)
BadOp == Rule("g", "and", <<Cond("country", "regex", <<Str("IN")>>, FALSE)>>, T)

Ramp(bp, ns) == [bp |-> bp, ns |-> ns, by |-> "", on |-> T, off |-> F]

MCBaseFlags ==
    [key : {"k"}, type : {"bool"}, enabled : BOOLEAN, default : {F},
     off : {NoValue, T}, rules : {<<>>, <<NotIN>>, <<NotIN, Adult>>, <<OldApp>>},
     rollout : {Null, Ramp(1, "ns"), Ramp(2, "")}, order : {"rules_first"}, missing : {{}}]
    \cup
    [key : {"k"}, type : {"bool"}, enabled : {TRUE}, default : {F, S},
     off : {NoValue, S}, rules : {<<NotIN>>, <<Mistyped>>, <<Empty>>},
     rollout : {Null, Ramp(1, "")}, order : {""}, missing : {{}}]

NoFields == [f \in DOMAIN EmptyRollout |-> Absent]

RolloutEdits ==
    {Absent, Null, [NoFields EXCEPT !.bp = 2], [NoFields EXCEPT !.bp = 3],
     [NoFields EXCEPT !.on = S], [NoFields EXCEPT !.on = T, !.off = F]}

MCPatches ==
    {[NoPatch EXCEPT !.key = "k", !.enabled = e, !.default = d, !.rules = r[1],
                     !.mode = r[2], !.rollout = ro, !.order = o] :
        e \in {Absent, TRUE}, d \in {Absent, T},
        r \in {<<Absent, Absent>>, <<Null, "replace">>, <<<<Adult>>, "append">>,
               <<<<NoUser>>, "append">>, <<<<Gated>>, "replace">>, <<<<BadOp>>, "replace">>, <<<<NotIN>>, Absent>>},
        ro \in RolloutEdits, o \in {Absent, ""}}
    \cup {[NoPatch EXCEPT !.key = "k", !.default = S, !.rollout = ro] : ro \in RolloutEdits}

MCOverrides ==
    {NoOverride} \cup
    {[NoOverride EXCEPT !.key = "k", !.enabled = e, !.bp = b, !.expires = 1] :
        e \in {Absent, FALSE}, b \in {Absent, 0, 3}}

MCContexts ==
    {[user |-> u, tenant |-> "", attrs |-> a] :
        u \in {"", "u1"},
        a \in {[country |-> Str("US"), age |-> Num(20)],
               [country |-> Str("IN"), version |-> Str("1.9.0"), email |-> Str("a@x")],
               [country |-> Num(1), version |-> Str("2"), email |-> Str("a@x")],
               [version |-> Str("1.10.0"), email |-> Str("a@x")],
               [user_id |-> Str("")]}}

MCSubstrings == {<<"a@x", "@x">>}
\* The order of semver_test.go, with the edges of the parser added: build metadata
\* with a leading zero or a dash, the largest uint64, an identifier above it.
MCVersions ==
    <<{"0.0.1"}, {"1.0.0-9"}, {"1.0.0-10", "1.0.0-10+a-b"}, {"1.0.0-18446744073709551616"},
      {"1.0.0-alpha"}, {"1.0.0-alpha.1"}, {"1.0.0-alpha.beta"}, {"1.0.0-alpha-1"},
      {"1.0.0-beta.2"}, {"1.0.0-beta.11"}, {"1.0.0-rc.1", "1.0.0-rc.1+b7"},
      {"1.0.0", "1.0.0+007"}, {"1.9.0"}, {"1.10.0"}, {"18446744073709551615.0.0"}>>
MCNotVersions ==
    {"", "2", "1.2", "1.2.3.4", "v1.0.0", "01.0.0", "1.0.0-", "1.0.0-a..b", "1.0.0-01",
     "1.0.0+", "1..0", "18446744073709551616.0.0", "1.0.0-a,b"}

\* The runs of ASCII these strings use, from 43 and from 97 on.
Low == "+,-./0123456789"
High == "abcdefghijklmnopqrstuvwxyz"
At(run, c) == {i \in 1..Len(run) : SubSeq(run, i, i) = c}
Code(c) == CHOOSE n \in {42 + i : i \in At(Low, c)} \cup {96 + i : i \in At(High, c)} : TRUE
MCBytes ==
    [s \in UNION ToSet(MCVersions) \cup MCNotVersions |->
        [i \in 1..Len(s) |-> Code(SubSeq(s, i, i))]]

\* Each user lands in any bucket, independently per namespace.
MCHashes == [{<<"k", "u1">>, <<"ns", "u1">>} -> 0..2]
=============================================================================
