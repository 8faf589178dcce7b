------------------------- MODULE ConfigStoreProofs -------------------------
(***************************************************************************)
(* Whatever is pushed in whatever order, and however often flags are       *)
(* quarantined and carried: proofs about ConfigStore. What the store       *)
(* serves is what validation accepted and answers everybody; it is what    *)
(* the layers say; and neither a kill nor a flag is lost.                  *)
(***************************************************************************)
EXTENDS ConfigStore, FlagProofs

\* Every non-empty set of places in a sequence has a last one.
LEMMA LastPlace ==
    ASSUME NEW n \in Nat, NEW S, S \subseteq 1..n, S # {}
    PROVE  \E i \in S : \A j \in S : j <= i
<1> DEFINE R == {p \in Nat \X Nat : p[1] < p[2]}
           T == {n - i : i \in S}
<1>1. IsWellFoundedOn(R, Nat)
  BY NatLessThanWellFounded DEF OpToRel
<1>2. T \subseteq Nat /\ T # {}
  <2>1. \A i \in S : n - i \in Nat
    OBVIOUS
  <2> QED
    BY <2>1
<1>3. PICK d \in T : \A y \in T : ~(<<y, d>> \in R)
  <2> HIDE DEF R, T
  <2> QED BY <1>1, <1>2, WFMin
<1>4. PICK i \in S : d = n - i
  OBVIOUS
<1>5. ASSUME NEW j \in S PROVE j <= i
  <2>1. n - j \in T
    OBVIOUS
  <2>2. ~(n - j < n - i)
    BY <1>2, <1>3, <1>4, <2>1
  <2> QED
    BY <2>2
<1> QED
  BY <1>5

\* What is found for a key of a layer is an entry of that key.
LEMMA EntryFound ==
    ASSUME NEW l, IsList(l), NEW none, NEW k \in KeysOf(l)
    PROVE  \E i \in DOMAIN l : l[i].key = k /\ EntryFor(l, k, none) = l[i]
<1> DEFINE S == {i \in DOMAIN l : l[i].key = k}
<1>1. DOMAIN l = 1..Len(l) /\ Len(l) \in Nat
  BY DEF IsList
<1>2. S # {}
  BY DEF KeysOf
<1>3. PICK i \in S : \A j \in S : j <= i
  BY <1>1, <1>2, LastPlace
<1>4. i \in DOMAIN l /\ l[i].key = k /\ \A j \in DOMAIN l : l[j].key = k => j <= i
  BY <1>3
<1> QED
  BY <1>4 DEF EntryFor

-----------------------------------------------------------------------------
(* Types.                                                                  *)

\* A write that has environments left builds one of them next.
LEMMA NextIsPending ==
    ASSUME TypeOK, todo # {}
    PROVE  NextEnv \in todo
<1> DEFINE S == {i \in DOMAIN EnvNames : EnvNames[i] \in todo}
<1>1. S \subseteq Nat
  BY EnvAssumption
<1>2. S # {}
  BY DEF TypeOK, Envs, ToSet
<1>3. Min(S) \in S
  BY <1>1, <1>2, FirstPlace
<1> QED
  BY <1>3 DEF NextEnv

\* A build keeps the types, and the generation that of the snapshot served.
LEMMA BuildKeepsTypes ==
    ASSUME TypeOK, BuildEnv
    PROVE  TypeOK'
<1> DEFINE e == NextEnv
<1>1. e \in Envs
  BY NextIsPending DEF BuildEnv, TypeOK
<1>2. /\ base' = base /\ overlays' = overlays /\ ops' = ops
      /\ lastRejected' = lastRejected /\ table' = table
      /\ buildNow' = buildNow /\ clock' = clock /\ todo' \subseteq todo
  BY DEF BuildEnv, layers
<1>3. results' \in [Envs -> [published : BOOLEAN, err : BOOLEAN]]
  <2>1. \E err \in BOOLEAN, pub \in BOOLEAN : results' = [results EXCEPT ![e] = Result(pub, err)]
    BY DEF BuildEnv
  <2>2. \A err \in BOOLEAN, pub \in BOOLEAN : Result(pub, err) \in [published : BOOLEAN, err : BOOLEAN]
    BY DEF Result
  <2> QED
    BY <2>1, <2>2, <1>1 DEF TypeOK
<1>4. /\ gens' \in [Envs -> Nat]
      /\ DOMAIN snaps' \subseteq Envs
      /\ \A d \in Envs : IF Loaded(d)' THEN snaps'[d].gen = gens'[d] /\ gens'[d] > 0
                                       ELSE gens'[d] = 0
  <2>1. CASE EnvRejections(e, buildNow) # {}
    BY <2>1 DEF BuildEnv, TypeOK, Loaded
  <2>2. CASE EnvRejections(e, buildNow) = {}
    <3>1. gens' = [gens EXCEPT ![e] = @ + 1] /\ Publish(e, Built(e, buildNow))
      BY <2>2 DEF BuildEnv
    <3>2. /\ DOMAIN snaps' = DOMAIN snaps \cup {e}
          /\ snaps'[e].gen = gens[e] + 1
          /\ \A d \in DOMAIN snaps : d # e => snaps'[d] = snaps[d]
      BY <3>1 DEF Publish, Built
    <3> QED
      BY <1>1, <3>1, <3>2 DEF TypeOK, Loaded
  <2> QED
    BY <2>1, <2>2
<1>5. Envs' = Envs
  BY DEF Envs
<1> QED
  BY <1>2, <1>3, <1>4, <1>5 DEF TypeOK

LEMMA StepKeepsTypes ==
    ASSUME TypeOK, [Next]_vars
    PROVE  TypeOK'
<1>1. ASSUME NEW l \in BaseLayers, SetBase(l) PROVE TypeOK'
  BY <1>1 DEF SetBase, StartWrite, TypeOK, Loaded, Envs
<1>2. ASSUME NEW e \in Envs, NEW l \in OverlayLayers, SetOverlay(e, l) PROVE TypeOK'
  BY <1>2 DEF SetOverlay, StartWrite, TypeOK, Loaded, Envs
<1>3. ASSUME NEW e \in Envs, NEW l \in OpsLayers, SetOps(e, l) PROVE TypeOK'
  BY <1>3 DEF SetOps, StartWrite, TypeOK, Loaded, Envs
<1>4. ASSUME NEW e \in Envs, Subscribe(e) PROVE TypeOK'
  BY <1>4 DEF Subscribe, layers, TypeOK, Loaded, Envs
<1>5. ASSUME NEW key \in {"overlay:", "ops:"}, SetNameless(key) PROVE TypeOK'
  BY <1>5 DEF SetNameless, layers, TypeOK, Loaded, Envs
<1>6. CASE Rebuild
  BY <1>6 DEF Rebuild, StartWrite, layers, TypeOK, Loaded, Envs
<1>7. CASE BuildEnv
  BY <1>7, BuildKeepsTypes
<1>8. CASE Tick
  BY <1>8 DEF Tick, layers, TypeOK, Loaded, Envs
<1>9. CASE UNCHANGED vars
  BY <1>9 DEF vars, TypeOK, Loaded, Envs
<1> QED
  BY <1>1, <1>2, <1>3, <1>4, <1>5, <1>6, <1>7, <1>8, <1>9 DEF Next

\* The types, and the generation an environment counts is that of the snapshot it
\* serves: a rejected build consumes none.
THEOREM GenerationsCountSnapshots == Spec => []TypeOK
<1>1. Init => TypeOK
  BY EnvAssumption DEF Init, TypeOK, Result, Loaded, Envs
<1> QED
  BY <1>1, StepKeepsTypes, PTL DEF Spec

-----------------------------------------------------------------------------
(* What is served can be served.                                           *)

\* The inductive invariant: what every environment serves is sound, whoever built it.
Sound(f) == Servable(f) /\ DOMAIN f.rules \subseteq Nat

EverySnapshotSound ==
    \A e \in DOMAIN snaps : \A k \in DOMAIN snaps[e].flags :
        snaps[e].flags[k].key = k /\ Sound(snaps[e].flags[k])

\* A flag that is not quarantined is what its layers resolve to, and servable.
LEMMA ResolvedIsSound ==
    ASSUME NEW e \in Envs, TypeOK, NEW now, base \in BaseLayers,
           NEW k \in KeysOf(base) \ Quarantined(e, now)
    PROVE  Resolved(e, now, k).key = k /\ Sound(Resolved(e, now, k))
<1> DEFINE b == EntryFor(base, k, NoPatch)
           o == EntryFor(overlays[e], k, NoPatch)
<1>1. Verdict(e, now, k) = {}
  BY DEF Quarantined
<1>2. Servable(Resolved(e, now, k))
  BY <1>1, AcceptedIsServable DEF Verdict
<1>3. b.key = k /\ IsList(b.rules)
  BY EntryFound, LayersAssumption
<1>4. IsValue(o.rules) => IsList(o.rules)
  <2>1. overlays[e] \in OverlayLayers \cup {<<>>}
    BY DEF TypeOK
  <2>2. CASE k \in KeysOf(overlays[e])
    <3>1. overlays[e] \in OverlayLayers
      BY <2>1, <2>2 DEF KeysOf
    <3> QED
      BY <2>2, <3>1, EntryFound, LayersAssumption
  <2>3. CASE k \notin KeysOf(overlays[e])
    BY <2>3 DEF EntryFor, NoPatch, IsValue
  <2> QED
    BY <2>2, <2>3
<1>5. Resolved(e, now, k).key = b.key
  BY DEF Resolved, mergeFlag
<1>6. DOMAIN Resolved(e, now, k).rules \subseteq Nat
  BY <1>3, <1>4, MergedRules DEF Resolved
<1> QED
  BY <1>2, <1>3, <1>5, <1>6 DEF Sound

\* What a build publishes is sound when what it replaces was.
LEMMA BuiltIsSound ==
    ASSUME NEW e \in Envs, TypeOK, NEW now, base \in BaseLayers, EverySnapshotSound,
           NEW k \in DOMAIN BuiltFlags(e, now)
    PROVE  BuiltFlags(e, now)[k].key = k /\ Sound(BuiltFlags(e, now)[k])
<1>1. CASE k \in Quarantined(e, now)
  <2>1. k \in ServedBefore(e)
    BY <1>1 DEF BuiltFlags, Kept
  <2>2. BuiltFlags(e, now)[k] = snaps[e].flags[k]
    BY <1>1 DEF BuiltFlags, Kept
  <2> QED
    BY <2>1, <2>2 DEF ServedBefore, Loaded, EverySnapshotSound
<1>2. CASE k \notin Quarantined(e, now)
  <2>1. k \in KeysOf(base) \ Quarantined(e, now)
    BY <1>2 DEF BuiltFlags, Kept
  <2>2. BuiltFlags(e, now)[k] = Resolved(e, now, k)
    BY <1>2 DEF BuiltFlags, Kept
  <2> QED
    BY <2>1, <2>2, ResolvedIsSound
<1> QED
  BY <1>1, <1>2

\* Only a build changes what is served, and only for its environment: it leaves it
\* alone or publishes what the layers hold.
LEMMA OnlyBuildsPublish ==
    ASSUME [Next]_vars
    PROVE  \/ snaps' = snaps
           \/ /\ BuildEnv
              /\ EnvRejections(NextEnv, buildNow) = {}
              /\ Publish(NextEnv, Built(NextEnv, buildNow))
<1>1. CASE BuildEnv
  BY <1>1 DEF BuildEnv
<1>2. CASE ~BuildEnv
  BY <1>2 DEF Next, vars, layers, SetBase, SetOverlay, SetOps, SetNameless, StartWrite,
              Rebuild, Subscribe, Tick
<1> QED
  BY <1>1, <1>2

\* What an environment serves after a publication.
LEMMA PublishedIsBuilt ==
    ASSUME NEW e, NEW now, Publish(e, Built(e, now))
    PROVE  /\ DOMAIN snaps' = DOMAIN snaps \cup {e}
           /\ snaps'[e].flags = BuiltFlags(e, now)
           /\ snaps'[e].quarantined = Quarantined(e, now)
           /\ snaps'[e].builtAt = now
           /\ \A d \in DOMAIN snaps : d # e => snaps'[d] = snaps[d]
BY DEF Publish, Built

LEMMA SoundnessHolds == Spec => []EverySnapshotSound
<1>1. Init => EverySnapshotSound
  BY DEF Init, EverySnapshotSound
<1>2. TypeOK /\ EverySnapshotSound /\ [Next]_vars => EverySnapshotSound'
  <2> SUFFICES ASSUME TypeOK, EverySnapshotSound, [Next]_vars PROVE EverySnapshotSound'
    OBVIOUS
  <2>1. CASE snaps' = snaps
    BY <2>1 DEF EverySnapshotSound
  <2>2. CASE BuildEnv /\ EnvRejections(NextEnv, buildNow) = {}
             /\ Publish(NextEnv, Built(NextEnv, buildNow))
    <3> DEFINE e == NextEnv
               new == BuiltFlags(e, buildNow)
    <3>1. base \in BaseLayers
      BY <2>2 DEF EnvRejections, TypeOK
    <3>2. e \in Envs
      BY <2>2, NextIsPending DEF BuildEnv, TypeOK
    <3>3. \A k \in DOMAIN new : new[k].key = k /\ Sound(new[k])
      BY <3>1, <3>2, BuiltIsSound
    <3>4. /\ DOMAIN snaps' = DOMAIN snaps \cup {e}
          /\ snaps'[e].flags = new
          /\ \A d \in DOMAIN snaps : d # e => snaps'[d] = snaps[d]
      BY <2>2, PublishedIsBuilt
    <3> HIDE DEF e, new
    <3> QED
      BY <3>3, <3>4 DEF EverySnapshotSound
  <2> QED
    BY <2>1, <2>2, OnlyBuildsPublish
<1> QED
  BY <1>1, <1>2, GenerationsCountSnapshots, PTL DEF Spec

\* Every flag of every published snapshot is servable, under its own key (G5).
THEOREM WhatIsServedIsServable == Spec => []ServedFlagsServable
<1>1. EverySnapshotSound => ServedFlagsServable
  BY DEF EverySnapshotSound, ServedFlagsServable, Sound
<1> QED
  BY <1>1, SoundnessHolds, PTL

\* From push to answer: whoever is asked about and whatever the hasher says of them, a
\* flag that is served and asked for its own type answers as configured, and gives the
\* caller's default only to a subject that cannot be bucketed (store.go, Get; Evaluate).
ServedFlagsAnswer ==
    \A e \in Envs : \A k : Serves(e, k) =>
        \A ctx, dflt, hash :
            LET f == snaps[e].flags[k]
            IN  (f.rollout # Null /\ BucketKey(f, ctx) # Null =>
                   hash[BucketKey(f, ctx)] \in 0..(BucketSpace - 1))
                => AnswersAsConfigured(f, EvaluateFlag(f, ctx, f.type, dflt, hash), dflt)

\* What the store serves answers everybody.
THEOREM WhatIsServedAnswers == Spec => []ServedFlagsAnswer
<1>1. EverySnapshotSound => ServedFlagsAnswer
  <2> SUFFICES ASSUME EverySnapshotSound, NEW e \in Envs, NEW k, Serves(e, k),
                      NEW f, f = snaps[e].flags[k],
                      NEW ctx, NEW dflt, NEW hash,
                      f.rollout # Null /\ BucketKey(f, ctx) # Null =>
                        hash[BucketKey(f, ctx)] \in 0..(BucketSpace - 1)
               PROVE  AnswersAsConfigured(f, EvaluateFlag(f, ctx, f.type, dflt, hash), dflt)
    BY DEF ServedFlagsAnswer
  <2>1. Sound(f)
    BY DEF EverySnapshotSound, Serves, Loaded
  <2> QED
    BY <2>1, ServableAnswers DEF Sound
<1> QED
  BY <1>1, SoundnessHolds, PTL

-----------------------------------------------------------------------------
(* No push is lost to another one.                                         *)

\* What e serves is what its layers, as they are now, resolve to at the time of the
\* build: the flags not quarantined by them are theirs.
FromLayers(e) ==
    /\ Loaded(e)
    /\ snaps[e].quarantined = Quarantined(e, snaps[e].builtAt)
    /\ \A k \in DOMAIN snaps[e].flags \ snaps[e].quarantined :
         /\ k \in KeysOf(base)
         /\ snaps[e].flags[k] = Resolved(e, snaps[e].builtAt, k)

\* The inductive invariant: an environment whose latest build went through serves its
\* layers, or is one the running write has yet to build. Without the second half it
\* would not survive the first step of a base push.
Current ==
    /\ todo \subseteq table
    /\ \A e \in Envs : results[e].published => e \in table /\ (e \in todo \/ FromLayers(e))

\* What an environment's layers say does not depend on any other environment.
LEMMA LayersDecide ==
    ASSUME NEW e, base' = base, overlays'[e] = overlays[e], ops'[e] = ops[e]
    PROVE  \A now : /\ Quarantined(e, now)' = Quarantined(e, now)
                    /\ \A k : Resolved(e, now, k)' = Resolved(e, now, k)
<1>1. \A now : LiveOverrides(e, now)' = LiveOverrides(e, now)
  BY DEF LiveOverrides, RestrictValues, Restrict
<1>2. \A now, k : Resolved(e, now, k)' = Resolved(e, now, k)
  BY <1>1 DEF Resolved
<1>3. \A now, k : Verdict(e, now, k)' = Verdict(e, now, k)
  BY <1>1, <1>2 DEF Verdict
<1>4. \A now : Orphans(e, now)' = Orphans(e, now)
  BY <1>1 DEF Orphans
<1> QED
  BY <1>2, <1>3, <1>4 DEF Quarantined

\* A step that leaves an environment's layers and snapshot alone leaves them matching.
LEMMA FromLayersStays ==
    ASSUME NEW e, FromLayers(e), base' = base, overlays'[e] = overlays[e], ops'[e] = ops[e],
           Loaded(e)', snaps'[e] = snaps[e]
    PROVE  FromLayers(e)'
BY LayersDecide DEF FromLayers

\* A publication makes its environment serve its layers.
LEMMA PublishedMatches ==
    ASSUME NEW e, NEW now, base' = base, overlays' = overlays, ops' = ops,
           Publish(e, Built(e, now))
    PROVE  FromLayers(e)'
<1>1. /\ Loaded(e)' /\ snaps'[e].builtAt = now
      /\ snaps'[e].quarantined = Quarantined(e, now)
      /\ snaps'[e].flags = BuiltFlags(e, now)
  BY PublishedIsBuilt DEF Loaded
<1>2. \A k \in DOMAIN BuiltFlags(e, now) \ Quarantined(e, now) :
        k \in KeysOf(base) /\ BuiltFlags(e, now)[k] = Resolved(e, now, k)
  BY DEF BuiltFlags, Kept
<1>3. /\ Quarantined(e, now)' = Quarantined(e, now)
      /\ \A k : Resolved(e, now, k)' = Resolved(e, now, k)
  BY LayersDecide
<1>4. KeysOf(base)' = KeysOf(base)
  OBVIOUS
<1> QED
  BY <1>1, <1>2, <1>3, <1>4 DEF FromLayers

\* A build leaves its environment matching or marked as not published.
LEMMA BuildKeepsCurrent ==
    ASSUME TypeOK, Current, BuildEnv
    PROVE  Current'
<1>1. PICK e \in todo : e = NextEnv /\ e \in Envs /\ e \in table
  BY NextIsPending DEF BuildEnv, TypeOK, Current
<1>2. /\ base' = base /\ overlays' = overlays /\ ops' = ops /\ table' = table
      /\ todo' = todo \ {e}
  BY <1>1 DEF BuildEnv, layers
<1>3. Envs' = Envs
  BY DEF Envs
<1>4. ASSUME NEW d \in Envs, d # e, results'[d].published
      PROVE  d \in table /\ (d \in todo \ {e} \/ FromLayers(d)')
  <2>1. results'[d] = results[d]
    BY <1>1, <1>4 DEF BuildEnv, TypeOK
  <2>2. d \in table /\ (d \in todo \/ FromLayers(d))
    BY <1>4, <2>1 DEF Current
  <2>3. ASSUME Loaded(d) PROVE Loaded(d)' /\ snaps'[d] = snaps[d]
    <3>1. \/ snaps' = snaps
          \/ Publish(e, Built(e, buildNow))
      BY <1>1 DEF BuildEnv
    <3> QED
      BY <1>4, <2>3, <3>1, PublishedIsBuilt DEF Loaded
  <2>4. FromLayers(d) => FromLayers(d)'
    <3> SUFFICES ASSUME FromLayers(d) PROVE FromLayers(d)'
      OBVIOUS
    <3>1. Loaded(d)' /\ snaps'[d] = snaps[d]
      BY <2>3 DEF FromLayers
    <3> QED
      BY <1>2, <3>1, FromLayersStays
  <2> QED
    BY <1>4, <2>2, <2>4
<1>5. ASSUME results'[e].published PROVE e \in table /\ FromLayers(e)'
  <2>1. EnvRejections(e, buildNow) = {}
    BY <1>1, <1>5 DEF BuildEnv, TypeOK, Result
  <2>2. Publish(e, Built(e, buildNow))
    BY <1>1, <2>1 DEF BuildEnv
  <2> QED
    BY <1>1, <1>2, <2>2, PublishedMatches
<1> QED
  BY <1>2, <1>3, <1>4, <1>5 DEF Current

\* A write that starts has every environment it affects before it, and leaves the
\* layers of the others alone.
LEMMA WriteKeepsCurrent ==
    ASSUME TypeOK, Current, NEW envs \in SUBSET table', Unlocked, StartWrite(envs),
           table \subseteq table',
           \A d \in Envs \ envs : /\ base' = base
                                  /\ overlays'[d] = overlays[d] /\ ops'[d] = ops[d]
    PROVE  Current'
<1>1. snaps' = snaps /\ results' = results /\ todo' = envs
  BY DEF StartWrite
<1>2. Envs' = Envs
  BY DEF Envs
<1>3. ASSUME NEW d \in Envs, results'[d].published
      PROVE  d \in table' /\ (d \in envs \/ FromLayers(d)')
  <2>1. d \in table /\ FromLayers(d)
    BY <1>1, <1>3 DEF Current, Unlocked
  <2>2. d \notin envs => FromLayers(d)'
    <3> SUFFICES ASSUME d \notin envs PROVE FromLayers(d)'
      OBVIOUS
    <3>1. Loaded(d)' /\ snaps'[d] = snaps[d]
      BY <1>1, <2>1 DEF FromLayers, Loaded
    <3>2. base' = base /\ overlays'[d] = overlays[d] /\ ops'[d] = ops[d]
      BY <1>3
    <3> QED
      BY <2>1, <3>1, <3>2, FromLayersStays
  <2> QED
    BY <2>1, <2>2
<1> QED
  BY <1>1, <1>2, <1>3 DEF Current

LEMMA StepKeepsCurrent ==
    ASSUME TypeOK, Current, [Next]_vars
    PROVE  Current'
<1>1. ASSUME NEW l \in BaseLayers, SetBase(l) PROVE Current'
  <2>1. Unlocked /\ overlays' = overlays /\ ops' = ops /\ table' = table
    BY <1>1 DEF SetBase
  <2>2. CASE ValidateBase(l) = {}
    <3>1. StartWrite(table)
      BY <1>1, <2>2 DEF SetBase
    <3>2. Current => \A d \in Envs \ table : ~results[d].published
      BY DEF Current
    <3> QED
      BY <2>1, <3>1, <3>2 DEF Current, StartWrite
  <2>3. CASE ValidateBase(l) # {}
    <3>1. StartWrite({}) /\ base' = base
      BY <1>1, <2>3 DEF SetBase
    <3> QED
      BY <2>1, <3>1, WriteKeepsCurrent
  <2> QED
    BY <2>2, <2>3
<1>2. ASSUME NEW e \in Envs, NEW l \in OverlayLayers, SetOverlay(e, l) PROVE Current'
  <2>1. /\ Unlocked /\ StartWrite({e}) /\ table' = table \cup {e}
        /\ base' = base /\ ops' = ops
        /\ \A d \in Envs \ {e} : overlays'[d] = overlays[d]
    BY <1>2 DEF SetOverlay, TypeOK
  <2> QED
    BY <2>1, WriteKeepsCurrent
<1>3. ASSUME NEW e \in Envs, NEW l \in OpsLayers, SetOps(e, l) PROVE Current'
  <2>1. /\ Unlocked /\ StartWrite({e}) /\ table' = table \cup {e}
        /\ base' = base /\ overlays' = overlays
        /\ \A d \in Envs \ {e} : ops'[d] = ops[d]
    BY <1>3 DEF SetOps, TypeOK
  <2> QED
    BY <2>1, WriteKeepsCurrent
<1>4. CASE Rebuild
  <2>1. /\ Unlocked /\ StartWrite(table) /\ table' = table
        /\ base' = base /\ overlays' = overlays /\ ops' = ops
    BY <1>4 DEF Rebuild, layers
  <2> QED
    BY <2>1, WriteKeepsCurrent
<1>5. CASE BuildEnv
  BY <1>5, BuildKeepsCurrent
<1>6. CASE \/ \E e \in Envs : Subscribe(e)
           \/ \E key \in {"overlay:", "ops:"} : SetNameless(key)
           \/ Tick
           \/ UNCHANGED vars
  <2>1. /\ UNCHANGED <<base, overlays, ops, snaps, todo, results>>
        /\ table \subseteq table'
    BY <1>6 DEF Subscribe, SetNameless, Tick, vars, layers
  <2>2. \A d \in Envs : FromLayers(d) => FromLayers(d)'
    <3> SUFFICES ASSUME NEW d \in Envs, FromLayers(d) PROVE FromLayers(d)'
      OBVIOUS
    <3>1. Loaded(d)' /\ snaps'[d] = snaps[d]
      BY <2>1 DEF FromLayers, Loaded
    <3> QED
      BY <2>1, <3>1, FromLayersStays
  <2>3. Envs' = Envs
    BY DEF Envs
  <2> QED
    BY <2>1, <2>2, <2>3 DEF Current
<1> QED
  BY <1>1, <1>2, <1>3, <1>4, <1>5, <1>6 DEF Next

LEMMA CurrentHolds == Spec => []Current
<1>1. Init => Current
  BY DEF Init, Current, Result
<1> QED
  BY <1>1, StepKeepsCurrent, GenerationsCountSnapshots, PTL DEF Spec

\* Between writes, what an environment serves unmarked is what its layers resolve to.
THEOREM ServesItsLayers == Spec => []ServedMatchesLayers
<1>1. TypeOK /\ Current => ServedMatchesLayers
  BY DEF TypeOK, Current, FromLayers, Unlocked, ServedMatchesLayers
<1> QED
  BY <1>1, CurrentHolds, GenerationsCountSnapshots, PTL

-----------------------------------------------------------------------------
(* Overrides that have run out, and those in force.                        *)

\* An override that passes validation says when it ends, and no other entry of its
\* layer has its key.
LEMMA ValidOverride ==
    ASSUME NEW l, NEW k, NEW now, ValidateOps(l, k, now) = {},
           NEW i \in DOMAIN l, l[i].key = k
    PROVE  IsValue(l[i].expires) /\ ~Repeats(l, i)
<1>1. OpsFindings(l, i, now) = {}
  BY EmptyUnion DEF ValidateOps, PlacesOf
<1>2. When(Repeats(l, i), "O14") = {} /\ When(~IsValue(l[i].expires) \/ ~l[i].attributed, "O08") = {}
  BY <1>1 DEF OpsFindings
<1> QED
  BY <1>2 DEF When

\* A live override is an entry of the layer that has not expired, in its place.
LEMMA LiveIsEntry ==
    ASSUME NEW e, NEW now, NEW i \in DOMAIN LiveOverrides(e, now)
    PROVE  /\ i \in DOMAIN ops[e] /\ LiveOverrides(e, now)[i] = ops[e][i]
           /\ ~opsExpired(ops[e][i], now)
BY DEF LiveOverrides, RestrictValues, Restrict

\* Every entry that has not expired is one.
LEMMA EntryIsLive ==
    ASSUME NEW e, NEW now, NEW i \in DOMAIN ops[e], ~opsExpired(ops[e][i], now)
    PROVE  i \in DOMAIN LiveOverrides(e, now) /\ LiveOverrides(e, now)[i] = ops[e][i]
BY DEF LiveOverrides, RestrictValues, Restrict

\* A flag all of whose overrides have run out resolves as if there were none.
LEMMA ExpiredLeaveNoTrace ==
    ASSUME NEW e, NEW now, NEW k, Verdict(e, now, k) = {},
           \A i \in DOMAIN ops[e] : ops[e][i].key = k => ops[e][i].expires <= now
    PROVE  Resolved(e, now, k).enabled =
             OrElse(EntryFor(overlays[e], k, NoPatch).enabled, EntryFor(base, k, NoPatch).enabled)
<1>1. ValidateOps(ops[e], k, now) = {}
  BY DEF Verdict
<1>2. \A i \in DOMAIN ops[e] : ops[e][i].key = k => opsExpired(ops[e][i], now)
  BY <1>1, ValidOverride DEF opsExpired
<1>3. k \notin KeysOf(LiveOverrides(e, now))
  <2>1. \A i \in DOMAIN LiveOverrides(e, now) : LiveOverrides(e, now)[i].key # k
    BY <1>2, LiveIsEntry
  <2> QED
    BY <2>1 DEF KeysOf
<1>4. EntryFor(LiveOverrides(e, now), k, NoOverride) = NoOverride
  BY <1>3 DEF EntryFor
<1>5. OrElse(NoOverride.enabled, OrElse(EntryFor(overlays[e], k, NoPatch).enabled,
                                        EntryFor(base, k, NoPatch).enabled))
        = OrElse(EntryFor(overlays[e], k, NoPatch).enabled, EntryFor(base, k, NoPatch).enabled)
  BY DEF NoOverride, OrElse, IsValue
<1> QED
  BY <1>4, <1>5 DEF Resolved, mergeFlag

\* An expired override leaves nothing behind in a flag that is not quarantined.
THEOREM ExpiredOverridesAreGone == Spec => []ExpiredOverridesLetGo
<1>1. TypeOK /\ Current => ExpiredOverridesLetGo
  <2> SUFFICES ASSUME TypeOK, Current, Unlocked, NEW e \in table, results[e].published,
                      NEW k \in DOMAIN snaps[e].flags \ snaps[e].quarantined,
                      \A i \in DOMAIN ops[e] :
                          ops[e][i].key = k => ops[e][i].expires <= snaps[e].builtAt
               PROVE  snaps[e].flags[k].enabled =
                        OrElse(EntryFor(overlays[e], k, NoPatch).enabled,
                               EntryFor(base, k, NoPatch).enabled)
    BY DEF ExpiredOverridesLetGo
  <2>1. FromLayers(e)
    BY DEF TypeOK, Current, Unlocked
  <2>2. /\ snaps[e].flags[k] = Resolved(e, snaps[e].builtAt, k)
        /\ k \in KeysOf(base) /\ k \notin Quarantined(e, snaps[e].builtAt)
    BY <2>1 DEF FromLayers
  <2>3. Verdict(e, snaps[e].builtAt, k) = {}
    BY <2>2 DEF Quarantined
  <2> QED
    BY <2>2, <2>3, ExpiredLeaveNoTrace
<1> QED
  BY <1>1, CurrentHolds, GenerationsCountSnapshots, PTL

\* A flag of the base that was served stays served: a build carries what it cannot
\* publish anew.
THEOREM BaseFlagsStayServed == Spec => FlagsStayServed
<1>1. TypeOK /\ [Next]_vars =>
        [\A e \in Envs : \A k \in ValidKeys :
           Serves(e, k) /\ base' # Null /\ k \in KeysOf(base') => Serves(e, k)']_vars
  <2> SUFFICES ASSUME TypeOK, [Next]_vars, NEW e \in Envs, NEW k \in ValidKeys,
                      Serves(e, k), k \in KeysOf(base')
               PROVE  Serves(e, k)'
    OBVIOUS
  <2>1. CASE snaps' = snaps
    BY <2>1 DEF Serves, Loaded
  <2>2. CASE BuildEnv /\ Publish(NextEnv, Built(NextEnv, buildNow))
    <3>1. PICK b : b = NextEnv
      OBVIOUS
    <3>2. /\ DOMAIN snaps' = DOMAIN snaps \cup {b}
          /\ snaps'[b].flags = BuiltFlags(b, buildNow)
          /\ \A d \in DOMAIN snaps : d # b => snaps'[d] = snaps[d]
      BY <2>2, <3>1, PublishedIsBuilt
    <3>3. e = b => k \in DOMAIN BuiltFlags(b, buildNow)
      BY <2>2 DEF BuildEnv, layers, BuiltFlags, Kept, ServedBefore, Serves
    <3> QED
      BY <3>2, <3>3 DEF Serves, Loaded
  <2> QED
    BY <2>1, <2>2, OnlyBuildsPublish
<1> QED
  BY <1>1, GenerationsCountSnapshots, PTL DEF Spec, FlagsStayServed

\* A kill in force was in force at any earlier build clock, in the layer as it is: its
\* entry is the only one of its key, so it is the one a build finds.
LEMMA KillWasInForce ==
    ASSUME NEW e, NEW k, NEW now \in Int, NEW at \in Int, at <= now,
           ops[e] \in OpsLayers \cup {<<>>},
           ValidateOps(ops[e], k, now) = {},
           EntryFor(LiveOverrides(e, now), k, NoOverride).enabled = FALSE
    PROVE  EntryFor(LiveOverrides(e, at), k, NoOverride).enabled = FALSE
<1>1. k \in KeysOf(LiveOverrides(e, now))
  BY OptAssumption DEF EntryFor, NoOverride
<1>2. PICK i \in DOMAIN LiveOverrides(e, now) : LiveOverrides(e, now)[i].key = k
  BY <1>1 DEF KeysOf
<1>3. i \in DOMAIN ops[e] /\ ops[e][i].key = k /\ ~opsExpired(ops[e][i], now)
  BY <1>2, LiveIsEntry
<1>4. \A j \in DOMAIN ops[e] : j \in Nat /\ j >= 1
  <2>1. CASE ops[e] = <<>>
    BY <2>1
  <2>2. CASE IsList(ops[e])
    BY <2>2 DEF IsList
  <2> QED
    BY <2>1, <2>2, LayersAssumption
<1>5. ASSUME NEW j \in DOMAIN ops[e], ops[e][j].key = k PROVE j = i
  <2>1. ~Repeats(ops[e], i) /\ ~Repeats(ops[e], j)
    BY <1>3, <1>5, ValidOverride
  <2>2. ~(j < i) /\ ~(i < j)
    BY <1>3, <1>4, <1>5, <2>1 DEF Repeats
  <2> QED
    BY <1>3, <1>4, <2>2
<1>6. ASSUME NEW t, ~opsExpired(ops[e][i], t)
      PROVE  EntryFor(LiveOverrides(e, t), k, NoOverride) = ops[e][i]
  <2> DEFINE live == LiveOverrides(e, t)
  <2>1. i \in DOMAIN live /\ live[i] = ops[e][i]
    BY <1>3, <1>6, EntryIsLive
  <2>2. \A j \in DOMAIN live : live[j].key = k => j = i
    BY <1>5, LiveIsEntry
  <2>3. i \in Nat /\ live[i].key = k
    BY <1>3, <1>4, <2>1
  <2> HIDE DEF live
  <2>4. EntryFor(live, k, NoOverride) = live[i]
    <3>1. k \in KeysOf(live)
      BY <2>1, <2>3 DEF KeysOf
    <3>2. \A j \in DOMAIN live :
            (live[j].key = k /\ \A m \in DOMAIN live : live[m].key = k => m <= j) <=> j = i
      BY <2>1, <2>2, <2>3
    <3>3. (CHOOSE j \in DOMAIN live :
             /\ live[j].key = k
             /\ \A m \in DOMAIN live : live[m].key = k => m <= j) = i
      BY <2>1, <3>2
    <3> QED
      BY <3>1, <3>3 DEF EntryFor
  <2>5. live = LiveOverrides(e, t)
    BY DEF live
  <2> QED
    BY <2>1, <2>4, <2>5
<1>7. ~opsExpired(ops[e][i], at)
  <2>1. IsValue(ops[e][i].expires)
    BY <1>3, ValidOverride
  <2>2. ops[e][i].expires \in Int
    BY <1>3, <2>1, LayersAssumption
  <2> QED
    BY <1>3, <2>1, <2>2 DEF opsExpired
<1>8. EntryFor(LiveOverrides(e, now), k, NoOverride) = ops[e][i]
  BY <1>3, <1>6
<1>9. EntryFor(LiveOverrides(e, at), k, NoOverride) = ops[e][i]
  BY <1>6, <1>7
<1> QED
  BY <1>8, <1>9

\* The clock a write read is not ahead of the clock.
ReadClock == buildNow <= clock

LEMMA ReadClockHolds == Spec => []ReadClock
<1>1. Init => ReadClock
  BY DEF Init, ReadClock
<1>2. TypeOK /\ ReadClock /\ [Next]_vars => ReadClock'
  <2> SUFFICES ASSUME TypeOK, ReadClock, [Next]_vars PROVE ReadClock'
    OBVIOUS
  <2>1. clock \in Nat /\ buildNow \in Nat
    BY DEF TypeOK
  <2>2. /\ clock' = clock \/ clock' = clock + 1
        /\ buildNow' = buildNow \/ (buildNow' = clock /\ clock' = clock)
    BY DEF Next, vars, layers, SetBase, SetOverlay, SetOps, SetNameless, StartWrite, Rebuild,
           BuildEnv, Subscribe, Tick
  <2> QED
    BY <2>1, <2>2 DEF ReadClock
<1> QED
  BY <1>1, <1>2, GenerationsCountSnapshots, PTL DEF Spec

\* A flag the build resolves under a kill in force is off.
LEMMA KilledResolvesOff ==
    ASSUME NEW e, NEW k, NEW at,
           EntryFor(LiveOverrides(e, at), k, NoOverride).enabled = FALSE
    PROVE  Resolved(e, at, k).enabled = FALSE
BY OptAssumption DEF Resolved, mergeFlag, OrElse, IsValue

\* While a kill is in force, no build of any push switches a flag served off back on.
THEOREM KillsHold == Spec => KillHolds
<1>1. TypeOK /\ ReadClock /\ [Next]_vars =>
        [\A e \in Envs : \A k \in ValidKeys :
           ServesOff(e, k) /\ ServesOn(e, k)' => ~KillActive(e, k)']_vars
  <2> SUFFICES ASSUME TypeOK, ReadClock, [Next]_vars, NEW e \in Envs, NEW k \in ValidKeys,
                      KillActive(e, k)', ServesOff(e, k)
               PROVE  ~ServesOn(e, k)'
    OBVIOUS
  <2>1. CASE snaps' = snaps
    BY <2>1 DEF ServesOn, ServesOff, Serves, Loaded
  <2>2. CASE BuildEnv /\ Publish(NextEnv, Built(NextEnv, buildNow))
    <3>1. PICK b : b = NextEnv
      OBVIOUS
    <3>2. /\ DOMAIN snaps' = DOMAIN snaps \cup {b}
          /\ snaps'[b].flags = BuiltFlags(b, buildNow)
          /\ \A d \in DOMAIN snaps : d # b => snaps'[d] = snaps[d]
      BY <2>2, <3>1, PublishedIsBuilt
    <3>3. CASE e # b
      BY <3>2, <3>3 DEF ServesOn, ServesOff, Serves, Loaded
    <3>4. CASE e = b /\ k \in Quarantined(e, buildNow)
      <4>1. k \in DOMAIN BuiltFlags(e, buildNow) => BuiltFlags(e, buildNow)[k] = snaps[e].flags[k]
        BY <3>4 DEF BuiltFlags, Kept
      <4> QED
        BY <3>2, <3>4, <4>1 DEF ServesOn, ServesOff, Serves, Loaded
    <3>5. CASE e = b /\ k \notin Quarantined(e, buildNow)
      <4>1. ops' = ops /\ clock' = clock
        BY <2>2 DEF BuildEnv, layers
      <4>2. KillActive(e, k)
        BY <4>1 DEF KillActive, LiveOverrides, RestrictValues, Restrict
      <4>3. EntryFor(LiveOverrides(e, buildNow), k, NoOverride).enabled = FALSE
        <5>1. /\ buildNow \in Int /\ clock \in Int /\ buildNow <= clock
              /\ ops[e] \in OpsLayers \cup {<<>>}
          BY DEF TypeOK, ReadClock
        <5>2. /\ ValidateOps(ops[e], k, clock) = {}
              /\ EntryFor(LiveOverrides(e, clock), k, NoOverride).enabled = FALSE
          BY <4>2 DEF KillActive
        <5> QED
          BY <5>1, <5>2, KillWasInForce
      <4>4. k \in DOMAIN BuiltFlags(e, buildNow) =>
              BuiltFlags(e, buildNow)[k] = Resolved(e, buildNow, k)
        BY <3>5 DEF BuiltFlags, Kept
      <4>5. Resolved(e, buildNow, k).enabled = FALSE
        BY <4>3, KilledResolvesOff
      <4> QED
        BY <3>2, <3>5, <4>4, <4>5 DEF ServesOn, Serves, Loaded
    <3> QED
      BY <3>3, <3>4, <3>5
  <2> QED
    BY <2>1, <2>2, OnlyBuildsPublish
<1> QED
  BY <1>1, ReadClockHolds, GenerationsCountSnapshots, PTL DEF Spec, KillHolds
-----------------------------------------------------------------------------
(* When a kill does take effect.                                           *)

\* No snapshot is built with a clock ahead of the store's.
BuiltEarlier == \A e \in DOMAIN snaps : snaps[e].builtAt \in Nat /\ snaps[e].builtAt <= clock

LEMMA BuiltEarlierHolds == Spec => []BuiltEarlier
<1>1. Init => BuiltEarlier
  BY DEF Init, BuiltEarlier
<1>2. TypeOK /\ ReadClock /\ BuiltEarlier /\ [Next]_vars => BuiltEarlier'
  <2> SUFFICES ASSUME TypeOK, ReadClock, BuiltEarlier, [Next]_vars PROVE BuiltEarlier'
    OBVIOUS
  <2>1. clock \in Nat /\ buildNow \in Nat /\ buildNow <= clock
    BY DEF TypeOK, ReadClock
  <2>2. clock' = clock \/ clock' = clock + 1
    BY DEF Next, vars, layers, SetBase, SetOverlay, SetOps, SetNameless, StartWrite, Rebuild,
           BuildEnv, Subscribe, Tick
  <2>3. CASE snaps' = snaps
    BY <2>1, <2>2, <2>3 DEF BuiltEarlier
  <2>4. CASE Publish(NextEnv, Built(NextEnv, buildNow))
    <3>1. \E b : /\ DOMAIN snaps' = DOMAIN snaps \cup {b}
                 /\ snaps'[b].builtAt = buildNow
                 /\ \A d \in DOMAIN snaps : d # b => snaps'[d] = snaps[d]
      BY <2>4, PublishedIsBuilt
    <3> QED
      BY <2>1, <2>2, <3>1 DEF BuiltEarlier
  <2> QED
    BY <2>3, <2>4, OnlyBuildsPublish
<1> QED
  BY <1>1, <1>2, ReadClockHolds, GenerationsCountSnapshots, PTL DEF Spec

\* A kill in force answers everybody: whoever is asked about and whatever the hasher
\* says, the flag gives its off value, in every environment that is not being written
\* and whose latest build went through, unless that build quarantined the flag. So a
\* refused build and a quarantine are the only two ways in which a kill fails to take
\* effect (merge.go, the ops layer; evaluate.go, the disabled branch).
KillAnswersOff ==
    Unlocked => \A e \in table : results[e].published =>
        \A k \in DOMAIN snaps[e].flags \ snaps[e].quarantined :
            KillActive(e, k) =>
            \A ctx, dflt, hash :
                LET f == snaps[e].flags[k]
                IN  EvaluateFlag(f, ctx, f.type, dflt, hash) = Answer(f.off, "DISABLED")

\* A flag that is served and off answers everybody with its off value.
LEMMA OffAnswers ==
    ASSUME NEW f, Servable(f), f.enabled = FALSE, NEW ctx, NEW dflt, NEW hash
    PROVE  EvaluateFlag(f, ctx, f.type, dflt, hash) = Answer(f.off, "DISABLED")
<1>1. Answer(f.off, "DISABLED").value.type = f.type
  BY DEF Servable, Answer
<1>2. finish(f, Answer(f.off, "DISABLED"), dflt) = Answer(f.off, "DISABLED")
  BY <1>1, FinishKeeps
<1> QED
  BY <1>2 DEF EvaluateFlag

\* A kill takes effect wherever the build it is for went through.
THEOREM KillsTakeEffect == Spec => []KillAnswersOff
<1>1. TypeOK /\ Current /\ BuiltEarlier /\ EverySnapshotSound => KillAnswersOff
  <2> SUFFICES ASSUME TypeOK, Current, BuiltEarlier, EverySnapshotSound, Unlocked,
                      NEW e \in table, results[e].published,
                      NEW k \in DOMAIN snaps[e].flags \ snaps[e].quarantined,
                      KillActive(e, k), NEW f, f = snaps[e].flags[k],
                      NEW ctx, NEW dflt, NEW hash
               PROVE  EvaluateFlag(f, ctx, f.type, dflt, hash) = Answer(f.off, "DISABLED")
    BY DEF KillAnswersOff
  <2>1. e \in Envs /\ FromLayers(e)
    BY DEF TypeOK, Current, Unlocked
  <2>2. PICK at : at = snaps[e].builtAt
    OBVIOUS
  <2>3. /\ at \in Int /\ clock \in Int /\ at <= clock
        /\ ops[e] \in OpsLayers \cup {<<>>}
    BY <2>1, <2>2 DEF FromLayers, Loaded, BuiltEarlier, TypeOK
  <2>4. EntryFor(LiveOverrides(e, at), k, NoOverride).enabled = FALSE
    BY <2>3, KillWasInForce DEF KillActive
  <2>5. f = Resolved(e, at, k)
    BY <2>1, <2>2 DEF FromLayers
  <2>6. f.enabled = FALSE
    BY <2>4, <2>5, KilledResolvesOff
  <2>7. Servable(f)
    BY <2>1 DEF FromLayers, Loaded, EverySnapshotSound, Sound
  <2> QED
    BY <2>6, <2>7, OffAnswers
<1> QED
  BY <1>1, CurrentHolds, BuiltEarlierHolds, SoundnessHolds, GenerationsCountSnapshots, PTL
-----------------------------------------------------------------------------
(* Each environment is a publication slot.                                 *)

\* A key of an accepted base layer is one flagKeyRE matches.
LEMMA AcceptedKeys ==
    ASSUME NEW l, ValidateBase(l) = {}
    PROVE  KeysOf(l) \subseteq ValidKeys
<1>1. ASSUME NEW i \in DOMAIN l PROVE l[i].key \in ValidKeys
  <2>1. BaseFindings(l, i) = {}
    BY EmptyUnion DEF ValidateBase
  <2>2. When(l[i].key \notin ValidKeys, "B01") = {}
    BY <2>1 DEF BaseFindings
  <2> QED
    BY <2>2 DEF When
<1> QED
  BY <1>1 DEF KeysOf

\* The inductive invariant: the base is an accepted one, and no environment serves a
\* key that could not be in one. A carried flag needs the second half: its key may have
\* left the base since.
ServedKeysValid ==
    /\ base # Null => KeysOf(base) \subseteq ValidKeys
    /\ \A e \in DOMAIN snaps : DOMAIN snaps[e].flags \subseteq ValidKeys

LEMMA ServedKeysHold == Spec => []ServedKeysValid
<1>1. Init => ServedKeysValid
  BY DEF Init, ServedKeysValid
<1>2. ServedKeysValid /\ [Next]_vars => ServedKeysValid'
  <2> SUFFICES ASSUME ServedKeysValid, [Next]_vars PROVE ServedKeysValid'
    OBVIOUS
  <2>1. base' # Null => KeysOf(base') \subseteq ValidKeys
    <3>1. ASSUME NEW l \in BaseLayers, SetBase(l) PROVE base' # Null => KeysOf(base') \subseteq ValidKeys
      BY <3>1, AcceptedKeys DEF SetBase, ServedKeysValid
    <3>2. CASE base' = base
      BY <3>2 DEF ServedKeysValid
    <3>3. base' = base \/ \E l \in BaseLayers : SetBase(l)
      BY DEF Next, vars, layers, SetOverlay, SetOps, SetNameless, Rebuild, BuildEnv, Subscribe,
             Tick
    <3> QED
      BY <3>1, <3>2, <3>3
  <2>2. \A e \in DOMAIN snaps' : DOMAIN snaps'[e].flags \subseteq ValidKeys
    <3>1. CASE snaps' = snaps
      BY <3>1 DEF ServedKeysValid
    <3>2. CASE EnvRejections(NextEnv, buildNow) = {} /\ Publish(NextEnv, Built(NextEnv, buildNow))
      <4>1. PICK b : b = NextEnv
        OBVIOUS
      <4>2. /\ DOMAIN snaps' = DOMAIN snaps \cup {b}
            /\ snaps'[b].flags = BuiltFlags(b, buildNow)
            /\ \A d \in DOMAIN snaps : d # b => snaps'[d] = snaps[d]
        BY <3>2, <4>1, PublishedIsBuilt
      <4>3. DOMAIN BuiltFlags(b, buildNow) \subseteq KeysOf(base) \cup ServedBefore(b)
        BY DEF BuiltFlags, Kept
      <4>4. base # Null
        BY <3>2 DEF EnvRejections
      <4>5. DOMAIN BuiltFlags(b, buildNow) \subseteq ValidKeys
        BY <4>3, <4>4 DEF ServedKeysValid, ServedBefore, Loaded
      <4> QED
        BY <4>2, <4>5 DEF ServedKeysValid
    <3> QED
      BY <3>1, <3>2, OnlyBuildsPublish
  <2> QED
    BY <2>1, <2>2 DEF ServedKeysValid
<1> QED
  BY <1>1, <1>2, PTL DEF Spec

\* What a reader sees of an environment: its generation and the keys it serves.
Unloaded == [gen |-> 0, content |-> {}]
Served(e) ==
    IF Loaded(e) THEN [gen |-> snaps[e].gen, content |-> DOMAIN snaps[e].flags] ELSE Unloaded
Nobody == [s \in {} |-> Unloaded]

\* The slot of an environment, its subscribers left to SnapshotHub.
Slot(e) == INSTANCE SnapshotRegister
           WITH Subscribers <- {}, Contents <- SUBSET ValidKeys, Nothing <- Unloaded,
                register <- Served(e), mailbox <- Nobody, heard <- Nobody

\* Whatever is pushed, for whichever environments, and however many builds are refused,
\* what one environment serves is a register written one generation at a time, with
\* flags whose keys validation admits: no write to another environment touches it, and
\* none is undone or skipped. SnapshotHub and FlagServer start from that (store.go,
\* envState.cur and envState.gen).
THEOREM StoreImplementsRegister ==
    ASSUME NEW e \in Envs
    PROVE  Spec => Slot(e)!Spec
<1>1. Init => Slot(e)!Init
  <2>1. Init => ~Loaded(e)
    BY DEF Init, Loaded
  <2>2. Init => Served(e) = Unloaded
    BY <2>1 DEF Served
  <2> QED
    BY <2>2 DEF Slot!Init, Nobody
<1>2. ASSUME TypeOK, ServedKeysValid', [Next]_vars
      PROVE  [Slot(e)!Next]_(Slot(e)!vars)
  <2>1. CASE snaps' = snaps
    BY <2>1 DEF Slot!vars, Served, Loaded
  <2>2. CASE Publish(NextEnv, Built(NextEnv, buildNow))
    <3>1. PICK b : b = NextEnv
      OBVIOUS
    <3>2. /\ DOMAIN snaps' = DOMAIN snaps \cup {b}
          /\ \A d \in DOMAIN snaps : d # b => snaps'[d] = snaps[d]
          /\ snaps'[b].gen = gens[b] + 1
      BY <2>2, <3>1 DEF Publish, Built
    <3>3. CASE e # b
      BY <3>2, <3>3 DEF Slot!vars, Served, Loaded
    <3>4. CASE e = b
      <4>1. gens[e] = Served(e).gen
        <5>1. IF Loaded(e) THEN snaps[e].gen = gens[e] ELSE gens[e] = 0
          BY <1>2 DEF TypeOK
        <5> QED
          BY <5>1 DEF Served, Unloaded
      <4>2. Served(e)' = [gen |-> gens[e] + 1, content |-> DOMAIN snaps'[e].flags]
        BY <3>2, <3>4 DEF Served, Loaded
      <4>3. DOMAIN snaps'[e].flags \in SUBSET ValidKeys
        BY <1>2, <3>2, <3>4 DEF ServedKeysValid
      <4>4. Slot(e)!Write
        BY <4>1, <4>2, <4>3 DEF Slot!Write
      <4> QED
        BY <4>4 DEF Slot!Next
    <3> QED
      BY <3>3, <3>4
  <2> QED
    BY <1>2, <2>1, <2>2, OnlyBuildsPublish
<1> QED
  BY <1>1, <1>2, ServedKeysHold, GenerationsCountSnapshots, PTL DEF Spec, Slot!Spec
=============================================================================
