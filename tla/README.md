# Feature flag service: TLA+ models and proofs

Specifications of the flag service in this repository (`src/`): the control plane that
resolves three config layers into per-environment snapshots, the evaluation engine, the
fan-out to subscribers, the `flagd` server, and the Go client SDK. TLC checks every module
on small instances; TLAPS proves for every instance the fan-out, that it and the store both
implement an abstract register, what the store promises (up to the answer a served flag gives),
the properties of evaluation, the round trip through the L2 file, the parser and the order of
versions, and the safety properties of the server and the client.

```
tlc -workers 2 -config MCConfigStore.cfg MCConfigStore     # any MC module and cfg
tlapm SnapshotHubProofs.tla
```

## 1. The system

| component | source | state | operations |
|---|---|---|---|
| evaluation engine | `internal/core` | none: flags, contexts and results are values | `Evaluate`, rule and condition matching, bucketing, semver order |
| layers, merge, validation | `internal/config/{layer,opt,merge,validate}.go` | none: a layer is a value | pre-merge validation per layer, the field-by-field merge, post-merge validation |
| configuration store | `internal/config/{store,snapshot}.go` | the three raw layers, a table of environments, per environment the published snapshot and its generation, the last rejected layers, `Store.mu` | `Set` (base, overlay, ops), `Rebuild`, `Subscribe`, lock-free reads |
| publication | `store.go` (`envState`) | `cur` (atomic pointer), `gen`, the subscriber map with one-slot channels, `subMu` | the swap and `notify` at the end of a build, `subscribe`, `cancel` |
| `flagd` server | `internal/transport`, `cmd/flagd` | two listeners, handlers in flight, the error channel, main's select | evaluate, batch, push a layer, `/ready`; start, signal, drain |
| client SDK, update path | `pkg/client` | L1 (atomic pointer), the L2 file, the lifecycle state, two goroutines and a writer goroutine | `New` (hydrate), fetch, push frames, heartbeats, reconcile, `WaitForReady`, `Close` |
| client SDK, read path | `pkg/client/client.go` | the callers' result slices, 256 limiter cells | `detail`, `BatchAppend`, hooks and their recover boundaries, `logLimiter.allow` |
| L2 store and codec | `pkg/client/cache.go` | one file per environment | `Save`, `Load`, `Encode`, `Decode` |
| observability | `internal/obs` | metric registry, sampler buckets | counters, gauges, sampling, redaction |

How they interact. A push comes in on the admin listener, becomes a `Layer` and is handed to
`Store.Set`, which holds `Store.mu` for the whole push, rebuilds every affected environment
(a base layer: all of them, one after another) and for each swaps an atomic pointer and then
fans the snapshot out to subscribers under that environment's `subMu`. Readers (the server's
handlers, embedded clients) take no lock: one pointer load per request. A client talks to its
`Source` by calls (`Fetch`) and a channel (`Subscribe`), and every answer goes through
`applyUpdate`, on two goroutines. The L2 file is written by a third goroutine.

What makes it hard, and what has to be right:

* *Partial failure, composed over time.* One flag of a push can fail validation; it is then
  carried whole from the previous snapshot while the rest is published. Served flags must
  stay servable, must not be lost, and must match the layers unless marked quarantined.
* *Precedence under disorder.* Pushes of three layers come in any order, some are broken,
  overrides expire by the clock between builds. A kill must win and hold.
* *Lock-free readers against a writer with several steps* (swap, fan-out, table of
  environments), and one-slot channels that are full when the next snapshot comes.
* *The client's generation order* across two goroutines, dropped frames, restarts of the
  source (whose counter starts again) and restarts of its own process (whose L2 entry does
  not say which source process built it).
* *Shutdown*: `Close` against a writer with a pending snapshot; the server's drain against
  handlers that time out or are stuck, a dead listener's drain, which has no deadline, and a
  listener that dies without anybody being told.
* *Numeric and three-valued edges* of evaluation: strict comparison at both ends of a ramp,
  negation of a condition that could not be decided, the precedence of semantic versions.
* *A read path that may never throw and never lock*: one load per batch, panicking engines and
  hooks, a lock-free limiter whose counts have to add up.
* *A file another process reads*: a crash between any two steps of `Save`, and a field mapping
  that must decide the same after the round trip.

The hazards, each at its line, with the properties that cover them, are in `PROJECT.json`.

## 2. The modules

| module | models | notes |
|---|---|---|
| `Semver` | `core/semver.go`: the strict parser, the precedence order | operators only; a string is its byte codes, a number its digits, so no width is lost |
| `FlagCore` | `core`: `Evaluate` stage by stage, `MatchRule`, `MatchCondition`, bucketing key | operators only; a bucket is `hash[key]` for an arbitrary function `hash`, because nothing in the code depends on which hash it is |
| `FlagMerge` | both validation passes, `mergeFlag`, sparse fields (`Opt`) | operators only; `Absent` is an unset `Opt`, `Null` an explicit null |
| `FlagCodec` | `JSONCodec` | operators only; a JSON object is a function on the keys written, so `omitempty` shows; its predicates `Typed...` say what Go's types say of the data |
| `FlagPipeline` | validate, merge, validate, evaluate, encode and decode, for one flag | `stage` goes from the chosen inputs to the resolved flag |
| `ConfigStore` | `Store` with its builds, environment by environment | EXTENDS `FlagMerge`: the verdict on a flag is the real merge and validation, not a coin |
| `SnapshotRegister` | what a publication slot promises | abstract: a register that only publications change, and mailboxes of one |
| `SnapshotHub` | one `envState`: swap, `notify`, `subscribe`, `cancel`, receive | one action per `select` of `notify`; implements `SnapshotRegister` |
| `FlagClient` | updater, cache, async writer, `FileStore`, state machine, `New`, `Close`, `WaitForReady` | one action per load, store, channel or file operation |
| `ClientEval` | `BatchAppend`, `evalGuarded`, `evaluate`, `record`, `onPanic`, `logLimiter.allow` | one action per load, per engine or hook call, per atomic operation |
| `FlagServer` | handlers, timeout and panic boundaries, readiness, start and shutdown | the store is reduced to the generation each environment serves |
| `SemverProofs`, `FlagProofs`, `SnapshotHubProofs`, `FlagPipelineProofs`, `ConfigStoreProofs`, `FlagClientProofs`, `ClientEvalProofs`, `FlagServerProofs` | the theorems | section 4 |
| `MC*` | model values, input catalogues | |

By EXTENDS: `Semver` <- `FlagCore` <- (`FlagMerge`, `FlagCodec`) <- `FlagPipeline`, and
`FlagMerge` <- `ConfigStore`. The proofs follow: `SemverProofs` <- `FlagProofs` <-
(`FlagPipelineProofs`, `ConfigStoreProofs`), so a lemma on evaluation or merging is proved once,
for the pipeline and for the store. `ConfigStore` and `SnapshotHub` share the build: the first models
what is built and in which order environments see it, the second what happens to one
environment from the pointer swap on. `FlagServer` sees `ConfigStore` as a sequence of outcomes
(published clean, published with a flag quarantined, refused); `FlagClient` sees the config
plane as a source of (process life, generation) pairs; `ClientEval` sees `FlagClient` as a
pointer that changes at any moment, and `FlagCore` as an engine that answers, or panics.

`SnapshotHub` implements `SnapshotRegister` under the mapping register = `cur`, mailbox =
`buf`, heard = `last` (the property `ImplementsRegister`): a mailbox is filled only with what
the register holds at that moment, and what was read stays read. That is what "always converges
on the latest" needs, and it fails as soon as a publication overlaps a fan-out.

### Where an action is not one line of code

* `ConfigStore`: `Set` is `StartWrite` (the layer is installed) and one `BuildEnv` per
  environment, because lock-free readers see environments change one by one. `todo` is the set
  of environments the write has yet to build; `NextEnv` takes them in the order of their names,
  and `Store.mu` excludes a second writer until it is empty. `snaps` is `cur` on the
  environments where it is not nil.
* `SnapshotHub`: swap, lock of `subMu`, each non-blocking send, the drain of a full slot and
  the resend are separate actions. The map iteration order is arbitrary. `nextID` gives each
  subscription an id of its own, so a subscriber that comes back is another member of
  `Subscribers`.
* `FlagClient`: `applyUpdate` is load-and-compare (`ApplyLoad`), store (`ApplyStore`),
  enqueue (`ApplyEnqueue`), confirm (`ApplyConfirm`). `enqueue`'s store to the mailbox and
  its token are one step (both orders give the writer the same choices, as it rereads the
  mailbox whenever it has a token or `done`). `degrade`'s read of L1 and its state change are
  one step. Timers are nondeterministic: a stream can be given up at any moment.
* `FlagClient`, `Save`: creating and writing the temporary file, syncing it and renaming it are
  three actions, each of which may fail, and the process may die between any two. A crash
  leaves the renamed file or the earlier one, whole; the temporary file is never read. What the
  code leaves to the file system, that a rename survives a power failure without a sync of the
  directory, is taken as the file system's either-old-or-new promise, not refuted here.
* `ClientEval`: the engine and the hot-path hook may panic at every element. `recover` is the
  deferred function with `onPanic`; `guarded` is what a wrapped hook's caller sees of it. The
  clock is the wall clock: two calls may read it in any order, and it may be set back.
* `FlagCodec`: a scalar keeps its JSON kind only, which is what the reader infers the type from.
* `FlagServer`: a handler runs on `http.TimeoutHandler`'s goroutine. What it writes is
  buffered (`wrote`) until `Commit`; `Timeout` answers first and leaves the handler running.
  Decoding touches nothing shared and is part of `Accept`. A panic frees `Store.mu`
  (deferred unlock) and becomes a 500 unless the timeout was first. Start, the signal,
  `errCh` and `Shutdown` follow `run`. A listener dies in two ways: `Serve` returns an error and
  `errCh` has it (`ListenerDies`), or the accept loop panics and `safe.Go` swallows the panic, so
  that nobody is told (`ListenerPanics`). Either way its server goes on serving the connections it
  has until `Shutdown`. Once main has left its select (`LeaveSelect`) how a listener fared is
  forgotten: nobody reads `errCh` and `Shutdown` treats the servers alike.

## 3. The runs

Distinct states and times are with two workers.

| run | instance | shows |
|---|---|---|
| `hub` | 3 subscribers (one never reads), 2 contents, 3 publications; 447k states | outside a fan-out every live subscriber has, or will next read, the served content; no send on a closed channel; the slot implements the register; the subscriber that never reads blocks no build and starves no one |
| `flag_pipeline` | every combination of 72 base flags, their overlay entries and overrides, all contexts, every assignment of 3 buckets, 18 spellings of 15 versions and 13 near-versions; 345k states | accepted flags are never answered with a fallback (a missing subject excepted); ramps keep who is enrolled and end at 0 and 100%; version gates follow the precedence order; the L2 file answers like memory; a kill reaches everybody; losing an attribute targets nobody |
| `store` | 2 environments (one known from the start), 2 flags, 4 base, 2 overlay, 2 ops layers, 3 generations, clock 0..1; 690k states | the store's invariants under every order of good and bad pushes and an expiring override |
| `store_kill` | violation | see Findings |
| `store_refused` | violation | see Findings |
| `client_onepath` | the cycle alone, L2, a waiting caller, 2 generations, one restart of the source or of the client, 1 fault; 363k states | no rewind, no HEALTHY on another process's word, a served state always has a snapshot, no crash costs the last known good, `Close` returns and flushes, the client converges again |
| `client_converge` | cycle and reconcile, 2 generations, a source restart, 1 fault; 430k states | whatever the two goroutines did to L1, the client ends up HEALTHY on what the source serves |
| `client_rewind`, `client_lives`, `client_waits` | violations | see Findings |
| `server` | 2 concurrent requests with slots reused for ever, 2 environments, batches of 2; 569k states | one generation per batch; 200 from `/ready` means loaded, and once ready a pod with required environments stays so; a client is answered once; exit code 0 means a signalled drain that lost nothing; a listener whose death `errCh` reports ends the process even if every handler is stuck |
| `client_eval` | 2 goroutines, one call each, batches of 1 and 2, 3 pointers, clock 0..1, interval 1; 1.1M states | a batch answers from one snapshot; no hook or engine panic escapes or costs a good answer; every event of a limiter cell is counted once; emits are spaced |

`store` has a `VIEW` that leaves out what no action of the store reads and no property but the type
invariant mentions, so that states which differ in it alone have the same future: `lastRejected` and
the error of a result, which are reports to the operator, and the clock a write has read once the
write is over. `client_eval` uses symmetry of the goroutines; it
checks safety only.

Why the bounds are enough. Two publications are needed for a lost update and three for a
reordering around one; the hub and the client have at least that where order matters, and the
properties compare neighbours, not absolute numbers. Two flags separate "this flag" from
"the rest of the push" (one quarantined, one published), which is what partial failure is
about, and one overlay breaks both to exceed the quarantine budget. `QuarantineFloor`, `BucketSpace`,
`MaxOpsTTL` and `MaxFlagsPerEnv` are scaled down so that their limits are reached.
Two requests suffice for every race of a handler with a push, because slots are reused: any
number of earlier requests can have happened. One fault may hit any step; the runs that
restart processes allow one restart at any step; `client_lives` shows what two of them do.
In `client_eval` the batch of two has an element before and after every swap and every panic,
and two callers are what a compare-and-swap loop can lose to; `MaxTime` 1 with interval 1 has
both an emit and a suppression, and a clock that goes back. Every disjunct of every next-state relation
fires in some passing run, and every property has been seen to fail on a small change of
the code it is about (`PROJECT.json`, "mutants").

`CHECK_DEADLOCK FALSE` is set where the system really stops: a bounded number of
publications in the hub, an exhausted pipeline, a closed client, an exited server, goroutines that have made their calls.

### Fairness

* Hub: weak fairness of the publishing goroutine (`Notify`) and of the receive loop of the
  subscribers called readers. Nobody has to publish, subscribe or cancel.
* Client: weak fairness of each goroutine and of the writer (Go schedules them, and each
  step is a call with a timeout or a local action); strong fairness of leaving through
  `ctx.Done()`, because a `select` with several ready cases picks one at random and does not
  ignore one for ever; weak fairness of the source's heartbeat, which every source of the
  repository sends on a ticker. Faults are finite (`MaxFaults`): convergence is claimed once
  the config plane stops breaking.
* Server: weak fairness of the handler timeout and of main. None of handlers, which is why
  the drain's end is shown for handlers that never return.

## 4. What is proved

All statements are theorems of the specifications, for every value of the constants that
satisfies the named assumptions; TLC evaluates those assumptions in the runs. A hypothesis that is
not such an assumption stands in the theorem itself and is named below. Every safety property of a
passing run is stated by a theorem.

**`SnapshotHubProofs`**, for any subscribers, readers, contents and bound: `TypeCorrect`
(`TypeOK`), `SubscribersConverge` (`LiveSubscribersHoldLatest`), `SendsAreSafe`
(`NoSendOnClosed`), `DeliveryIsOrdered` (`DeliveryOrdered`), `NothingGoesBackwards` (no step
takes the pointer, or what a subscriber has seen, back a generation) and
`HubImplementsRegister` (`ImplementsRegister`, the refinement). Assumptions: `Readers` is a
subset of `Subscribers`, `NoContent` is not a content, `MaxGen` is a natural number.

`LiveSubscribersHoldLatest` only speaks of states without a fan-out, so it is not inductive:
from a state with a fan-out in progress nothing would follow. `IInv` adds what a fan-out has
done so far:

* `GenInv`: the counter is the generation of the pointer, and a fan-out sends what the
  pointer holds (so a subscription taken between the swap and the fan-out, which delivers
  the pointer, delivers the same snapshot);
* `TodoInv`: channels still to be visited are live, and after the drain of a full slot that
  slot is empty and stays so until the resend (the publisher holds `subMu`, and a
  subscriber only empties);
* `FreshInv`: a channel that was never registered carries nothing;
* `ServedInv`: during a fan-out every live subscriber that is no longer to be visited
  already holds the served content;
* `DeliveryOrdered`, which is inductive with the others.

Each action preserves `IInv`, `Init` establishes it, and each property follows from it. The
refinement needs it too: a send is an offer of the register only because `GenInv` makes the
snapshot sent the one readers load, and the resend only because `TodoInv` keeps the slot empty.

**`ConfigStoreProofs`**, for any environments, any layers pushed in any order, any clock and any
limits: the six properties of run `store`, as `GenerationsCountSnapshots` (`TypeOK`),
`WhatIsServedIsServable` (`ServedFlagsServable`), `ServesItsLayers` (`ServedMatchesLayers`),
`ExpiredOverridesAreGone` (`ExpiredOverridesLetGo`), `BaseFlagsStayServed` (`FlagsStayServed`) and
`KillsHold` (`KillHolds`); and `WhatIsServedAnswers`, from push to answer: a flag served and asked
for its own type answers every context, under every hash, with a configured value of its type,
the default of the caller being left to a subject that cannot be bucketed. Two more have no run:

* `KillsTakeEffect` says when a kill takes effect: between writes, in an environment whose latest
  build went through, a flag under a kill in force that this build did not quarantine gives everybody its
  off value, as DISABLED. Finding 1 shows that a quarantine can keep a kill out; the theorem
  that nothing else does but a build refused altogether;
* `StoreImplementsRegister`: what one environment serves implements `SnapshotRegister` (without
  subscribers), whatever is pushed for the others. A write publishes the next generation with keys
  validation admits, or nothing. It is the premise `SnapshotHub` and `FlagServer` start from, so the
  two halves of `envState`, what is built and what happens to it from the swap on, meet in one
  abstract specification.

Assumptions: layers and their rules are lists, an expiry is an integer, limits and bounds are
natural. Three invariants carry them:

* `EverySnapshotSound`: a flag of a new snapshot is either what the second pass accepted
  (`AcceptedIsServable`: the rules of `validateResolved` imply what `Evaluate` needs; `EntryFound`:
  what is found for a key has that key) or is carried from a snapshot that was sound. It makes
  carrying a quarantined flag over any number of generations safe;
* `Current`: an environment whose latest build went through serves its layers as they are now,
  or is in `todo`. `ServedMatchesLayers` speaks of states between writes and would not survive
  the first step of a base push, where the base is new and every environment still old. The
  step of a build rests on `LayersDecide`: what an environment's layers say depends on no other
  environment's, so building one leaves those built before it as they are;
* `ReadClock`: the clock a write read is not ahead of the clock. `KillHolds` needs it because
  the kill is judged by the clock and the build by the one its write read: `KillWasInForce` shows
  that an override accepted and in force now was in force then and is the only one of its key,
  so the build merges it; a flag the build quarantines instead is carried as it was, off.

`FlagsStayServed` needs no more than `TypeOK`: `BuiltFlags` is defined on every key of the base that
was served. That no other step publishes is `OnlyBuildsPublish`.

**`FlagProofs`**, the facts on operators that the pipeline and the store share, for any flag:

* `ServableAnswers`: what `Servable` says is all that stages S4 to S9 of `Evaluate` need;
* `SnapshotRoundTrip`: a snapshot of flags of the declared types, each under its own key, can be
  read back from the L2 file, and `Evaluate` answers as before, for every key, context, type and
  hash. It goes level by level (value, condition, rule, rollout, flag), and at each what
  `omitempty` leaves out is exactly what the reader takes for zero (`KeyKept`, `FieldKept`);
* `VersionGatesPartition`, on the strings of a context and a gate: if either is no version, all three
  semver operators are undecided; otherwise exactly one is true, the other two are false, and
  equality is true exactly of strings that are the same up to build metadata.

**`SemverProofs`**: `PrecedenceIsOrder`, on versions of any numbers of any width and any prerelease
identifiers: `compareSemver` is antisymmetric, transitive and 0 only for versions that are the
same but for build metadata. `LexIsOrder` is proved once (comparing sequences place by place, the
shorter first, is a linear order if comparing their members is) and used for text, for the
triple and for prereleases; digits are text with the length in front. `ParserYieldsVersions` says that
what the parser accepts is in the domain of that order, and `EqualVersionsAreOneText` that the
parser loses nothing but build metadata: two accepted strings compare as equal exactly when they
are one text up to it. Both are about byte strings of any length and so about the recursive function
`Identifiers`, which cuts at the dots. The induction theorems of the library cannot be
instantiated, but a minimal counterexample takes their place: `FirstPlace` gives any non-empty set of
places a first one, from well-foundedness. `SplitExists` uses it to show that the recursive definition
has a value at every place, `SplitTyped` and `SplitInjective` to show what that value is and that the
text can be read off it.

**`FlagPipelineProofs`**: `KillsReachEverybody`, `RampsEnd`, `LosingContextIsSafe`,
`RampUpsKeepEnrolled`, `AcceptedFlagsAnswer` (`AcceptedFlagsServe`), `DiskKeepsAnswers`
(`DiskAnswersTheSame`) and `VersionGatesFollowTheOrder` (`VersionGatesAreExact`), for any catalogue of layers, any contexts, any bucket space and any
assignment of buckets. Assumptions: `Absent`, `Null` and FALSE are apart; a string is a sequence of
codes and a value of a string is not `Null` (`BytesAssumption`, `NullAssumption`); a context is a record of
its fields; the layers are of Go's types (`TypesAssumption`, `RolloutAssumption`); a resolved rollout
is not the value that stands for none; an overlay's entry is the one of its flag; the hasher gives
every subject a bucket of the space. Three of them carry an argument through the merge and one through the parser:

* `RampUpsKeepEnrolled`: an overlay with nothing but a percentage keeps the namespace and the
  attribute, hence the bucket (`RampUpMerges`), and both validations bound the two percentages
  that are compared;
* `AcceptedFlagsAnswer`: what passed the second pass is servable, and an override moves nobody to
  another bucket (`OverridesKeepBuckets`), so the hasher's promise for the merged flag is enough;
* `DiskKeepsAnswers`: an accepted flag is of Go's types with operators the reader knows, because
  the rules of the base and of the overlay were both judged, whichever way they were combined
  (`MergedRulesAre`, `AcceptedRules`), and then `SnapshotRoundTrip` applies;
* `VersionGatesFollowTheOrder` has a hypothesis, `VersionTable`: the spellings of one entry are one text
  up to build metadata, neighbouring entries compare as ascending, and what is listed as no version
  does not parse. Its conclusion is about every pair of entries, every gate and every negation
  (`TableAscends`, `TableOrder`, `GateDecides`). That the table of the run `flag_pipeline` is in the order
  of the semver rules is what that run checks.

**`FlagClientProofs`**, for any number of publications, restarts of either process and faults:
`TypesOK` (`TypeOK`), `ServingIsBacked` (`ServingHasConfig`) and `CrashKeepsLastKnownGood`
(`LastKnownGoodSurvives`), with or without the reconcile poll, and likewise `OnlyTheDeadHideNews`, of
which more below; and for a client without it (an
ASSUME of the three theorems; `client_rewind` shows that the first needs it, section 5 the other two)
`OnePathNeverRewinds` (`NeverRewinds`), `OnePathFlushedOnClose` (`FlushedOnClose`) and, for at most
one restart of either process (`MaxIncidents <= 1`, which `client_lives` shows to be needed),
`OneRestartHealsOnOwn` (`HealthyOnOwnSource`). Assumptions: the switches are Boolean, the bounds
natural. None of the properties is inductive:

* `ServingHasConfig` needs `StoredFirst` (a path at its confirmation has seen an entry in L1;
  for a heartbeat, because the generation it read there is not below that of the heartbeat)
  and `FramesBuilt` (a source only sends what was published, so that is not 0);
* `LastKnownGoodSurvives` needs `DiskInv`: the file is missing or whole, and what is being
  written is a snapshot;
* `OnlyTheDeadHideNews` is the other side of findings 3 and 4. A client that turns down what the source
  now serves, as stale or because a heartbeat shows no gap, already holds exactly that; the one
  exception is an entry hydrated from a file that an earlier source process filled, with a counter at
  least as high. So a race of the two goroutines can take L1 back but never hide the newest
  generation from it, and the missing instance id is the only thing that can. `NothingInvented` carries it:
  whatever L1, the channel, a path, the writer or the file holds was published, by this source
  process up to its present generation or by an earlier one (`StillPublished`, `OnlyCarries`), and
  an entry lacks an instance exactly when it came from the file;
* `NeverRewinds` needs `StoreInv`: what was decided on a load of L1 is still right when it is
  stored. This is what a second goroutine breaks;
* `FlushedOnClose` needs `ShutInv` (the goroutines end before the writer is told to, and the
  writer before `Close` returns) and `FlushInv`: what L1 serves is in the hands of the path, or
  else in the mailbox, or else being written, or else, if no Save failed, in the file;
* `HealthyOnOwnSource` needs `OwnInv`: a path about to confirm has the word of the process that
  built L1. It follows in two ways (`SameProcess`). If the source never restarted, every snapshot
  in memory, in flight or in the file names the one process there was (`SignedInv`); if the client
  never did, every entry of L1 was stored by applyUpdate and names its process (`NamedInv`), so
  `instanceChanged` sees a change. `OneRestart` says that one of the two is the case; with both
  restarted neither is, and the rule for an entry without a name is what finding 4 is about.

**`ClientEvalProofs`**, for any number of goroutines, any batch length and any clock:
`BatchesAreConsistent`, `AnswersStand`, `VolumeIsReconstructible`, `EmitsAreSpaced`. The
invariant describes a call by where it is: the elements before the one in hand are answered as
promised, those after it untouched, and at `recover` the named result either holds already or
is still zero. `VolumeReconstructible` is inductive; the size of the set of calls inside `allow`
moves by one as a call enters or leaves (`CountInAllow`). `EmitsSpaced` needs that a goroutine
attempts the swap only with a clock that has reached the value it loaded, so that winning the
swap means having reached the value in force.

**`FlagServerProofs`**, for any requests in flight, environments and batch length:
`LockIsHeldByTheBuilder` (`TypeOK`), `BatchesAreOfOneGeneration`, `ReadyIsLoaded`, `ReadyIsForGood`
(`ReadyStays`; ASSUME `Required # {}`, without which it is false), `ExitsCleanly` and
`RequestsAreAnsweredOnce`. `IInv` describes each request by what its handler holds: every result so
far is the pinned generation (`BatchInv`); a required environment is still to be looked at, or was
loaded (`ReadyInv`); before its handler is over a request has no answer but the timeout's
(`AnswerInv`, without which a late handler could have told a client "ready"). A step writes one slot;
the other requests keep what they rely on because pushes only raise generations (`StepGrows`,
`Untouched`), which is the whole reason why reading environments one by one is safe.

Only model-checked: all liveness (`PublisherNeverBlocks`, `ReadersConverge`, `Converges`,
`CloseReturns`, `ReportedDeathIsFatal`), which is outside the prover's reach, as is anything about ENABLED;
and that the catalogued spellings of `flag_pipeline` parse and compare as the semver rules say, which
is `VersionTable` above. No module declares a RECURSIVE operator; recursion is written as functions.

## 5. Findings

Each is a run that TLC ends with a counterexample; the quoted line is in `PROJECT.json`.

1. `store_kill`: a flag whose overlay entry is broken is carried as it was, without merging
   the ops layer. A valid kill pushed while the entry is broken has no effect: the flag stays
   on, although the docs send operators to L3 to kill a flag "right now".
2. `store_refused`: a push that quarantines one flag publishes the others and is answered
   400, where the handler's comment says that the live snapshot is untouched.
3. `client_rewind`: the reconcile goroutine compares with the L1 of before a push and stores
   its older answer after it. The generation check is there to prevent exactly this; the
   compare and the store are not one step. `client_converge` shows that it heals.
4. `client_lives`: an entry hydrated from L2 has no instance id, so a restarted source with a
   lower counter is not recognised; its answer is skipped as older and the client becomes
   HEALTHY on the config of the dead process. `client_onepath` allows one restart, of either
   process, for this reason: its claims hold as long as not both have restarted.
5. `client_waits`: `waitForReady` selects on `readyCh` and the caller's context. `Close` closes
   neither, so a caller without a deadline on a client that never had config waits for ever,
   where the comment says it returns when the client is closed.

Met while modelling, listed as hazards and not given a run: with the reconcile poll, `cache.apply`
stores to L1 and queues the L2 write as two steps of two goroutines, so the entry stored first can
be queued last (cache.go:82-84): the mailbox keeps it, though the comment on line 103 says "only the
newest pending entry is kept", and the file ends older than what the client serves until the next
update (`FlushedOnClose` is violated with `Reconcile` TRUE, `MaxGen` 2 and no fault); the same race
against one restart of the source makes the client HEALTHY, for a moment, on the word of a process
whose config it no longer serves (`HealthyOnOwnSource` is violated with `Reconcile` TRUE, `MaxLife` 2
and no restart of the client); evaluations after
`Close` answer from the last snapshot, where two comments say they return defaults; with no
required environments `/ready` asks for every environment the store knows, not for any one, so a
refused first push for a misspelled environment makes a serving pod not ready (the `server`
instance with `Required` empty violates `ReadyStays`); when an accept loop panics, the case for which `serve` uses `safe.Go`
(server.go:251-253), `Recover` swallows the panic and neither send on `errCh` is reached, so main's
select is never woken and the process stays up with a dead listener until a signal comes, where
server.go:263-264 says that a dead listener is "as loud as a SIGTERM" and main.go:140-141 that
its branch keeps the process from sitting there "with no listener, reporting itself alive" (with one
request, `(\E l \in Listeners : server[l] \in {"dead", "silent"}) ~> (main = "exited")` is violated,
which is why `ReportedDeathIsFatal` is stated for the deaths that `errCh` reports); the generation gauge is set outside
`Store.mu`; the state-change hook runs outside `sm.mu`, so two transitions can be reported in
the other order (state.go:107); a metrics hook that panics on an evaluation is called a second time for it.

## 6. What is not modelled, and why

* The hash and `strings.Contains`: constants with the properties the engine relies on. JSON
  syntax, provenance and warnings: they change nothing served.
* The encoding of environment names into file names (a pure injective map), two clients sharing
  one L2 file, and snapshots built by a transport of its own, which `JSONCodec` refuses.
* An `Update` without a snapshot from `Fetch`, and a heartbeat of generation 0: no `Source`
  of the repository produces them. Instance ids are never empty on the wire for the same
  reason. A stream that was given up stays subscribed until `Close`; nothing reads it again.
* Metrics, logs, tracing and redaction (`internal/obs`). The server's sampler and the series
  limit of `ExpvarMetrics` hold state but decide nothing that is served. The order in which the
  client's hooks report, and how often a panicking one is called, are not modelled.
* 255 of the limiter's 256 cells: they are independent, and colliding flags share one.
* The connections of the server: a request can come to a server until `Shutdown` has reached it,
  on a connection that a dead listener accepted earlier. Whether one is still open is not tracked.
* The server's debug and health bodies, option parsing, name charset checks: pure functions
  of a request.
* More than one failed environment name per push, and the order in which the sorted table is
  walked: the store model walks the table in a fixed order, as the code does.

## 7. Plan

Done: every module of section 2, and theorems for every safety property of the passing runs
(section 4).

What is left, the most important first.

1. Composition of store, source and client for one environment: end to end, a client ends up
   on what the last accepted push resolved to. The store and the hub meet in `SnapshotRegister`
   already; the source of `FlagClient` is that register with a counter that starts again.
2. `obs.Sampler` and the series limit of `ExpvarMetrics`.
