--------------------------- MODULE MCConfigStore ---------------------------
(***************************************************************************)
(* ConfigStore for TLC: two flags, with base layers that retype, delete    *)
(* and break them, overlays and overrides that are clean, that quarantine  *)
(* one flag, and that quarantine more than the budget allows.              *)
(***************************************************************************)
EXTENDS ConfigStore, TLC

T == [type |-> "bool", val |-> TRUE]
F == [type |-> "bool", val |-> FALSE]
S == [type |-> "string", val |-> "s"]

Flag(key, type, default, rollout) ==
    [key |-> key, type |-> type, enabled |-> TRUE, default |-> default,
     off |-> NoValue, rules |-> <<>>, rollout |-> rollout, order |-> "", missing |-> {}]
Ramp == [bp |-> 1, ns |-> "", by |-> "", on |-> T, off |-> F]

Both == <<Flag("k1", "bool", F, Ramp), Flag("k2", "bool", F, Null)>>
Retyped == <<Flag("k1", "string", S, Null), Flag("k2", "bool", T, Null)>>
Deleted == <<Flag("k2", "bool", F, Null)>>
Refused == <<Flag("k1", "bool", S, Null)>>

Patch(key) == [NoPatch EXCEPT !.key = key]
TurnOn == <<[Patch("k1") EXCEPT !.enabled = TRUE, !.default = T]>>
PartlyBroken == <<[Patch("k1") EXCEPT !.type = "bool"], [Patch("k2") EXCEPT !.enabled = FALSE]>>
AllBroken == <<[Patch("k1") EXCEPT !.type = "bool"], [Patch("k2") EXCEPT !.enabled = Null]>>

Kill(key, expires) ==
    <<[NoOverride EXCEPT !.key = key, !.enabled = FALSE, !.expires = expires]>>

MCBaseLayers == {Both, Retyped, Deleted, Refused}
MCOverlayLayers == {TurnOn, AllBroken}
MCOpsLayers == {<<>>, Kill("k1", 1)}
MCEnvNames == <<"dev", "prod">>

\* What no action reads is left out, so states that differ in it alone have the same
\* future: lastRejected and the error of a result, which are reports to the operator,
\* and the clock a write has read once the write is over.
ServingView ==
    <<base, overlays, ops, table, snaps, gens, todo, clock,
      [e \in Envs |-> results[e].published], IF Unlocked THEN 0 ELSE buildNow>>

OneBaseLayer == {Both}
OneBrokenOverlay == {PartlyBroken}
SmallOpsLayers == {<<>>, Kill("k1", 1)}
OneEnvName == <<"prod">>
NoVersions == <<>>
=============================================================================
