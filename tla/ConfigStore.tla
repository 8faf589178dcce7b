---------------------------- MODULE ConfigStore ----------------------------
(***************************************************************************)
(* config.Store: the raw layers, one resolved snapshot per environment,    *)
(* and the writes that rebuild them. Writers are serialised by Store.mu;   *)
(* readers take no lock, so they see the environments of a base push being *)
(* swapped one after the other. The fan-out to subscribers that ends a     *)
(* build is module SnapshotHub.                                            *)
(***************************************************************************)
EXTENDS FlagMerge, FiniteSets

CONSTANTS
    EnvNames,           \* the environment names, as a sequence in sorted order
    InitialEnvs,        \* WithEnvironments
    BaseLayers,         \* what a base push may carry: sequences of records
    OverlayLayers,      \* what an overlay push may carry
    OpsLayers,          \* what an ops push may carry
    QuarantineFloor, QuarantinePercent, MaxFlagsPerEnv,
    MaxGen,             \* bound: publications per environment
    MaxClock            \* bound: the build clock

Envs == ToSet(EnvNames)

ASSUME EnvAssumption == EnvNames \in Seq(STRING) /\ InitialEnvs \subseteq ToSet(EnvNames)
ASSUME LayersAssumption ==
    /\ \A l \in BaseLayers \cup OverlayLayers \cup OpsLayers : IsList(l)
    /\ \A l \in BaseLayers : \A i \in DOMAIN l : IsList(l[i].rules)
    /\ \A l \in OverlayLayers : \A i \in DOMAIN l : IsValue(l[i].rules) => IsList(l[i].rules)
    /\ \A l \in OpsLayers : \A i \in DOMAIN l : IsValue(l[i].expires) => l[i].expires \in Int
ASSUME LimitAssumption ==
    {QuarantineFloor, QuarantinePercent, MaxFlagsPerEnv, MaxGen, MaxClock} \subseteq Nat

VARIABLES
    base,          \* Store.base, Null until one is accepted
    overlays,      \* Store.overlays; an empty layer where there is none
    ops,           \* Store.ops
    lastRejected,  \* the keys of Store.lastRejected
    table,         \* the environments of Store.envs
    snaps,         \* envState.cur, on the environments where it is not nil
    gens,          \* envState.gen
    todo,          \* the environments the write holding Store.mu has yet to build
    buildNow,      \* the clock that write read
    results,       \* per environment, the EnvResult of its latest build
    clock

layers == <<base, overlays, ops>>
vars == <<base, overlays, ops, lastRejected, table, snaps, gens, todo, buildNow, results, clock>>

-----------------------------------------------------------------------------
(* buildEnvLocked                                                          *)

KeysOf(entries) == {entries[i].key : i \in DOMAIN entries}

\* ovByKey, opsByKey and the base by key: the last entry of a key.
EntryFor(entries, key, none) ==
    IF key \in KeysOf(entries)
      THEN entries[CHOOSE i \in DOMAIN entries :
                     /\ entries[i].key = key
                     /\ \A j \in DOMAIN entries : entries[j].key = key => j <= i]
      ELSE none

\* (Mutation) Expired overrides are merged like any other.
LiveOverrides_KeepsExpired(e, now) == ops[e]

\* M11: an expired override is dropped from the merge.
LiveOverrides(e, now) ==
    RestrictValues(ops[e], LAMBDA o : ~opsExpired(o, now))

Resolved(e, now, key) ==
    mergeFlag(EntryFor(base, key, NoPatch), EntryFor(overlays[e], key, NoPatch),
              EntryFor(LiveOverrides(e, now), key, NoOverride))

\* (Mutation) A flag that fails only after the merge is published.
Verdict_PreMergeOnly(e, now, key) ==
    ValidateOverlay(overlays[e], key) \cup ValidateOps(ops[e], key, now)

\* What rejects one flag of the base: either layer alone, and only when both are
\* clean the merged flag.
Verdict(e, now, key) ==
    LET pre == ValidateOverlay(overlays[e], key) \cup ValidateOps(ops[e], key, now)
    IN  IF pre # {} THEN pre
        ELSE validateResolved(Resolved(e, now, key), EntryFor(base, key, NoPatch),
                              EntryFor(overlays[e], key, NoPatch),
                              EntryFor(LiveOverrides(e, now), key, NoOverride))

\* M02: named by an overlay or by a live override, and not in the base.
Orphans(e, now) ==
    (KeysOf(overlays[e]) \cup KeysOf(LiveOverrides(e, now))) \ KeysOf(base)

Quarantined(e, now) ==
    {k \in KeysOf(base) : Verdict(e, now, k) # {}} \cup Orphans(e, now)

Loaded(e) == e \in DOMAIN snaps

ServedBefore(e) == IF Loaded(e) THEN DOMAIN snaps[e].flags ELSE {}

\* The flags of a build: those that are clean, and those it can carry.
Kept(e, bad) == (KeysOf(base) \ bad) \cup (bad \cap ServedBefore(e))

\* (Mutation) A flag that fails validation is left out.
BuiltFlags_Drops(e, now) ==
    [k \in KeysOf(base) \ Quarantined(e, now) |-> Resolved(e, now, k)]

\* A quarantined flag carries the version of the previous generation, and is
\* absent when there is none.
BuiltFlags(e, now) ==
    LET bad == Quarantined(e, now)
    IN  [k \in Kept(e, bad) |-> IF k \in bad THEN snaps[e].flags[k] ELSE Resolved(e, now, k)]

QuarantineBudget(n) ==
    LET share == (n * QuarantinePercent) \div 100
    IN  IF share < QuarantineFloor THEN QuarantineFloor ELSE share

\* E01, M13 and M15: what keeps the whole environment on its last-known-good.
EnvRejections(e, now) ==
    IF base = Null THEN {"E01"}
    ELSE LET bad == Quarantined(e, now)
         IN  When(Cardinality(Kept(e, bad)) > MaxFlagsPerEnv, "M13")
               \cup When(Cardinality(bad) > QuarantineBudget(Len(base)), "M15")

\* An EnvResult: whether it was published, and whether it makes Err() non-nil.
Result(published, err) == [published |-> published, err |-> err]

\* The snapshot a build publishes.
Built(e, now) ==
    [gen |-> gens[e] + 1, builtAt |-> now, quarantined |-> Quarantined(e, now),
     flags |-> BuiltFlags(e, now)]

\* cur.Store: e serves snap, every other environment what it served.
Publish(e, snap) ==
    snaps' = [d \in DOMAIN snaps \cup {e} |-> IF d = e THEN snap ELSE snaps[d]]

-----------------------------------------------------------------------------
Init ==
    /\ base = Null
    /\ overlays = [e \in Envs |-> <<>>]
    /\ ops = [e \in Envs |-> <<>>]
    /\ lastRejected = {}
    /\ table = InitialEnvs
    /\ snaps = <<>>
    /\ gens = [e \in Envs |-> 0]
    /\ todo = {}
    /\ buildNow = 0
    /\ results = [e \in Envs |-> Result(FALSE, FALSE)]
    /\ clock = 0

Unlocked == todo = {}

Bounded == \A e \in Envs : gens[e] < MaxGen

\* A write locks Store.mu, reads the clock and goes through its environments, in
\* the order of their names.
StartWrite(envs) ==
    /\ todo' = envs
    /\ buildNow' = clock
    /\ UNCHANGED <<snaps, gens, results, clock>>

NextEnv == EnvNames[Min({i \in DOMAIN EnvNames : EnvNames[i] \in todo})]

\* (Mutation) A base push returns after its first environment.
SetBase_FirstEnvOnly(l) ==
    /\ Unlocked /\ Bounded
    /\ ValidateBase(l) = {}
    /\ base' = l
    /\ \E first \in table : todo' = {first}
    /\ buildNow' = clock
    /\ UNCHANGED <<overlays, ops, lastRejected, table, snaps, gens, results, clock>>

\* Set(*BaseLayer): accepted, it rebuilds every environment; otherwise nothing
\* is built anywhere and the layer is only remembered.
SetBase(l) ==
    /\ Unlocked /\ Bounded
    /\ IF ValidateBase(l) = {}
         THEN /\ base' = l
              /\ StartWrite(table)
              /\ UNCHANGED lastRejected
         ELSE /\ lastRejected' = lastRejected \cup {"base"}
              /\ StartWrite({})
              /\ UNCHANGED base
    /\ UNCHANGED <<overlays, ops, table>>

\* Set(*OverlayLayer): the layer is installed whatever it holds; the build
\* judges it. An unknown environment is created.
SetOverlay(e, l) ==
    /\ Unlocked /\ Bounded
    /\ overlays' = [overlays EXCEPT ![e] = l]
    /\ table' = table \cup {e}
    /\ StartWrite({e})
    /\ UNCHANGED <<base, ops, lastRejected>>

\* Set(*OpsLayer), likewise.
SetOps(e, l) ==
    /\ Unlocked /\ Bounded
    /\ ops' = [ops EXCEPT ![e] = l]
    /\ table' = table \cup {e}
    /\ StartWrite({e})
    /\ UNCHANGED <<base, overlays, lastRejected>>

\* An overlay or an ops layer that names no environment is only remembered.
SetNameless(key) ==
    /\ Unlocked
    /\ lastRejected' = lastRejected \cup {key}
    /\ UNCHANGED <<layers, table, snaps, gens, todo, buildNow, results, clock>>

Rebuild ==
    /\ Unlocked /\ Bounded
    /\ StartWrite(table)
    /\ UNCHANGED <<layers, lastRejected, table>>

\* (Mutation) The generation is counted before the environment is judged.
BuildEnv_CountsRejected ==
    /\ todo # {}
    /\ LET e        == NextEnv
           rejected == EnvRejections(e, buildNow)
       IN  /\ gens' = [gens EXCEPT ![e] = @ + 1]
           /\ results' = [results EXCEPT ![e] = Result(rejected = {}, rejected # {})]
           /\ IF rejected # {} THEN UNCHANGED snaps ELSE Publish(e, Built(e, buildNow))
    /\ todo' = todo \ {NextEnv}
    /\ UNCHANGED <<layers, lastRejected, table, buildNow, clock>>

\* buildEnvLocked for the next environment of the write: merge, validate, and
\* only then swap. Rejected, it leaves pointer and generation where they are.
\* Any quarantine makes the result an error, published or not.
BuildEnv ==
    /\ todo # {}
    /\ LET e        == NextEnv
           rejected == EnvRejections(e, buildNow)
       IN  IF rejected # {}
             THEN /\ results' = [results EXCEPT ![e] = Result(FALSE, TRUE)]
                  /\ UNCHANGED <<snaps, gens>>
             ELSE \E built \in {Built(e, buildNow)} :
                    /\ gens' = [gens EXCEPT ![e] = @ + 1]
                    /\ Publish(e, built)
                    /\ results' = [results EXCEPT ![e] = Result(TRUE, built.quarantined # {})]
    /\ todo' = todo \ {NextEnv}
    /\ UNCHANGED <<layers, lastRejected, table, buildNow, clock>>

\* Store.Subscribe creates the environment it names.
Subscribe(e) ==
    /\ Unlocked
    /\ e \notin table
    /\ table' = table \cup {e}
    /\ UNCHANGED <<layers, lastRejected, snaps, gens, todo, buildNow, results, clock>>

Tick ==
    /\ clock < MaxClock
    /\ clock' = clock + 1
    /\ UNCHANGED <<layers, lastRejected, table, snaps, gens, todo, buildNow, results>>

Next ==
    \/ \E l \in BaseLayers : SetBase(l)
    \/ \E e \in Envs : \/ \E l \in OverlayLayers : SetOverlay(e, l)
                       \/ \E l \in OpsLayers : SetOps(e, l)
                       \/ Subscribe(e)
    \/ \E key \in {"overlay:", "ops:"} : SetNameless(key)
    \/ Rebuild
    \/ BuildEnv
    \/ Tick

Spec == Init /\ [][Next]_vars

-----------------------------------------------------------------------------
(* Properties.                                                             *)

\* The types, and the one relation the generation counter has to keep: it is the
\* generation of the snapshot served, so a rejected build never consumes one.
TypeOK ==
    /\ base \in BaseLayers \cup {Null}
    /\ lastRejected \subseteq {"base", "overlay:", "ops:"}
    /\ table \subseteq Envs
    /\ DOMAIN snaps \subseteq Envs
    /\ gens \in [Envs -> Nat]
    /\ todo \subseteq Envs
    /\ {buildNow, clock} \subseteq Nat
    /\ overlays \in [Envs -> OverlayLayers \cup {<<>>}]
    /\ ops \in [Envs -> OpsLayers \cup {<<>>}]
    /\ results \in [Envs -> [published : BOOLEAN, err : BOOLEAN]]
    /\ \A e \in Envs :
         IF Loaded(e) THEN snaps[e].gen = gens[e] /\ gens[e] > 0 ELSE gens[e] = 0

Serves(e, k) == Loaded(e) /\ k \in DOMAIN snaps[e].flags
ServesOn(e, k) == Serves(e, k) /\ snaps[e].flags[k].enabled
ServesOff(e, k) == Serves(e, k) /\ ~snaps[e].flags[k].enabled

\* Whatever was pushed, in whatever order, every flag of every published snapshot
\* is one that validation accepted, under the key it is served by: a quarantined
\* flag is carried whole, never mixed with the config that failed (G5).
ServedFlagsServable ==
    \A e \in DOMAIN snaps :
        \A k \in DOMAIN snaps[e].flags :
            snaps[e].flags[k].key = k /\ Servable(snaps[e].flags[k])

\* Between writes, an environment whose latest build went through serves its
\* layers: each flag is what the layers held now resolve to at the time of the
\* build, or is marked quarantined. No push is lost to another one, and no flag
\* deleted from the base lingers unmarked.
ServedMatchesLayers ==
    Unlocked => \A e \in table : results[e].published =>
        \A k \in DOMAIN snaps[e].flags \ snaps[e].quarantined :
            /\ k \in KeysOf(base)
            /\ snaps[e].flags[k] = Resolved(e, snaps[e].builtAt, k)

\* An override whose time had come when the snapshot was built leaves no trace in
\* a flag that is not quarantined: its state is the overlay's, else the base's.
ExpiredOverridesLetGo ==
    Unlocked => \A e \in table : results[e].published =>
        \A k \in DOMAIN snaps[e].flags \ snaps[e].quarantined :
            (\A i \in DOMAIN ops[e] :
                ops[e][i].key = k => ops[e][i].expires <= snaps[e].builtAt) =>
            snaps[e].flags[k].enabled =
                OrElse(EntryFor(overlays[e], k, NoPatch).enabled,
                       EntryFor(base, k, NoPatch).enabled)

\* An override in force that switches the flag off.
KillActive(e, k) ==
    /\ ValidateOps(ops[e], k, clock) = {}
    /\ EntryFor(LiveOverrides(e, clock), k, NoOverride).enabled = FALSE

\* While a kill is in force, no build of any other push switches a flag back on
\* that is served off: not a CI overlay push, not a base push that retypes or
\* deletes the flag, not a push that quarantines it (merge.go, "an on-call kill
\* must survive the next CI overlay push").
KillHolds ==
    [][\A e \in Envs : \A k \in ValidKeys :
         ServesOff(e, k) /\ ServesOn(e, k)' => ~KillActive(e, k)']_vars

\* A flag that validation rejects does not stop serving: once served, a flag of
\* the base stays served for as long as it is in the base.
FlagsStayServed ==
    [][\A e \in Envs : \A k \in ValidKeys :
         Serves(e, k) /\ base' # Null /\ k \in KeysOf(base') => Serves(e, k)']_vars

(* What the repository says and the code does not do.                      *)

\* The claim of docs/02-hld.md that an L3 entry kills a flag right now and
\* outranks L2: between writes, no flag is served on under an active kill.
KillTakesEffect ==
    Unlocked => \A e \in Envs : \A k \in ValidKeys :
        KillActive(e, k) => ~ServesOn(e, k)

\* The claim of the admin handler that a push answered with a validation error
\* leaves the live snapshot untouched: the flags served stay the same.
RefusedPushIsNoOp ==
    [][\A e \in DOMAIN snaps :
         snaps'[e].flags # snaps[e].flags => ~results'[e].err]_vars
=============================================================================
