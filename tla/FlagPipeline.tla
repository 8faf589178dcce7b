---------------------------- MODULE FlagPipeline ----------------------------
(***************************************************************************)
(* One flag from its three layers to an answer: buildEnvLocked's work on   *)
(* it (validate, merge, validate) and Evaluate on what comes out. The      *)
(* properties relate what an author wrote to what a subject is served.     *)
(***************************************************************************)
EXTENDS FlagMerge, FlagCodec

CONSTANTS
    BaseFlags,  \* L1 records
    Patches,    \* L2 entries
    Overrides,  \* L3 entries
    Contexts,   \* evaluation contexts
    Hashes,     \* assignments of buckets to bucketing keys
    Now,        \* the build clock
    Versions,   \* sets of version strings, a sequence in ascending precedence
    NotVersions \* strings that are no version

ASSUME ContextsAssumption ==
    \A ctx \in Contexts :
        ctx = [user |-> ctx.user, tenant |-> ctx.tenant, attrs |-> [a \in DOMAIN ctx.attrs |-> ctx.attrs[a]]]

CallerDefault == [type |-> "caller", val |-> 0]

ASSUME RolloutAssumption ==
    \A b \in BaseFlags :
        /\ b.rollout # Absent
        /\ b.rollout # Null => TypedRoll(b.rollout)
        /\ \A o \in Patches :
              b.rollout # Null /\ IsValue(o.rollout) => MergeRollout(b, o) # Null

\* The layers are of Go's types.
ASSUME TypesAssumption ==
    /\ \A b \in BaseFlags : Typed(b.default) /\ Typed(b.off) /\ TypedRules(b.rules)
    /\ \A o \in Patches :
         /\ \A v \in {o.default, o.off} : IsValue(v) => Typed(v)
         /\ IsValue(o.rules) => TypedRules(o.rules)
         /\ IsValue(o.rollout) =>
              \A v \in {o.rollout.on, o.rollout.off} : IsValue(v) => Typed(v)

\* The overlay's entry is the one of the flag it is merged into.
ASSUME PatchesAssumption ==
    \A b \in BaseFlags, o \in Patches : o = NoPatch \/ o.key = b.key

\* Hasher.Bucket answers for every subject of a rollout, with a bucket.
ASSUME HashesAssumption ==
    \A b \in BaseFlags, o \in Patches, ctx \in Contexts :
        LET f == mergeFlag(b, o, NoOverride)
        IN  f.rollout # Null /\ BucketKey(f, ctx) # Null =>
              \A hash \in Hashes : hash[BucketKey(f, ctx)] \in 0..(BucketSpace - 1)

VARIABLES
    stage,     \* "layers", then "resolved"
    base, ov, ops,
    flag,      \* the merged flag
    findings   \* what rejects it, in either pass

vars == <<stage, base, ov, ops, flag, findings>>

Init ==
    /\ stage = "layers"
    /\ base \in BaseFlags
    /\ ov \in Patches
    /\ ops \in Overrides
    /\ flag = Null
    /\ findings = {}

Resolve ==
    /\ stage = "layers"
    /\ stage' = "resolved"
    /\ flag' = mergeFlag(base, ov, ops)
    /\ findings' = ValidateBase(<<base>>) \cup ValidateOverlay(<<ov>>, base.key)
                     \cup ValidateOps(<<ops>>, base.key, Now)
                     \cup validateResolved(flag', base, ov, ops)
    /\ UNCHANGED <<base, ov, ops>>

Next == Resolve
Spec == Init /\ [][Next]_vars

-----------------------------------------------------------------------------
(* Properties.                                                             *)

Accepted == stage = "resolved" /\ findings = {}

Ask(f, ctx, hash) == EvaluateFlag(f, ctx, f.type, CallerDefault, hash)

\* What the base alone would answer.
BaseAnswer(ctx, hash) == Ask(mergeFlag(base, NoPatch, NoOverride), ctx, hash)

\* A flag that passes both validation passes serves a configured value of its
\* own type to everybody; only a subject that cannot be bucketed gets the
\* caller's default (docs/05-consistency-and-e2e.md, G5).
AcceptedFlagsServe ==
    Accepted => \A ctx \in Contexts, hash \in Hashes :
        AnswersAsConfigured(flag, Ask(flag, ctx, hash), CallerDefault)

\* An overlay that says nothing of the rollout but a higher basis_points.
IsRampUp(o) ==
    /\ base.rollout # Null
    /\ IsValue(o.rollout)
    /\ \A f \in DOMAIN EmptyRollout \ {"bp"} : o.rollout[f] = Absent
    /\ IsValue(o.rollout.bp) /\ o.rollout.bp >= base.rollout.bp

\* Raising the percentage in an overlay never re-buckets: whoever the base enrolled,
\* and no rule now takes out, stays enrolled in the same bucket (G6; layer.go,
\* OverlayRollout).
RampUpKeepsEnrolled ==
    Accepted /\ flag.enabled /\ ops.bp = Absent /\ IsRampUp(ov) =>
        \A ctx \in Contexts, hash \in Hashes :
            LET before == BaseAnswer(ctx, hash)
                after  == Ask(flag, ctx, hash)
            IN  /\ before.reason = "ROLLOUT_IN"
                /\ \A r \in ToSet(flag.rules) : ~MatchRule(r, ctx)
                => after.reason = "ROLLOUT_IN" /\ after.bucket = before.bucket

\* The ends of the ramp: a rollout of zero enrols nobody, not even bucket 0, and
\* a full one leaves nobody out, whichever layer set it.
RampEnds ==
    Accepted /\ flag.rollout # Null =>
        \A ctx \in Contexts, hash \in Hashes :
            LET reason == Ask(flag, ctx, hash).reason
            IN  /\ flag.rollout.bp = 0 => reason # "ROLLOUT_IN"
                /\ flag.rollout.bp = BucketSpace => reason # "ROLLOUT_OUT"

\* Every version a condition of the flag meets is decided by its place in the
\* precedence order, spelled with build metadata or without, and no other string is
\* decided at all, so no negated gate lets it through (semver.go, compare).
VersionGatesAreExact ==
    stage = "resolved" =>
        \A r \in ToSet(flag.rules) : \A c \in ToSet(r.conditions) : c.op \in Versioned =>
            LET Admits(v) == MatchCondition(c, [user |-> "", tenant |-> "",
                                                attrs |-> [a \in {c.attr} |-> StringValue(v)]])
            IN  /\ \A j \in DOMAIN Versions : \A w \in Versions[j] :
                      c.values = <<StringValue(w)>> =>
                      \A i \in DOMAIN Versions : \A v \in Versions[i] :
                         Admits(v) <=> (Compare(c.op, i, j) <=> ~c.negate)
                /\ \A v \in NotVersions : ~Admits(v)

\* A client that comes back on its L2 file answers like the one that wrote it: an
\* accepted flag is readable, and decides the same for every subject after the round
\* trip (cache.go, JSONCodec).
DiskAnswersTheSame ==
    Accepted =>
        LET decoded == Decode(Encode([k \in {flag.key} |-> flag]))
        IN  /\ ~decoded.nil
            /\ \A ctx \in Contexts, hash \in Hashes :
                   Evaluate(decoded, flag.key, ctx, flag.type, CallerDefault, hash)
                     = Ask(flag, ctx, hash)

\* An override that kills the flag reaches everybody: no rule, rollout or overlay
\* setting serves anything but the off value.
KillReachesEverybody ==
    Accepted /\ ops.enabled = FALSE =>
        \A ctx \in Contexts, hash \in Hashes :
            Ask(flag, ctx, hash) = Answer(flag.off, "DISABLED")

\* The same context without one of its attributes.
Without(ctx, a) == [ctx EXCEPT !.attrs = [x \in DOMAIN ctx.attrs \ {a} |-> ctx.attrs[x]]]

\* Losing an attribute (a failed upstream lookup) never makes a rule match that
\* did not match with it, negated conditions included, unless the rule asks for
\* absence with exists (docs/adr/0003-absent-attribute-is-false.md). An explicit
\* user_id or tenant_id uncovers the shorthand instead of being lost.
LosingContextTargetsNobody ==
    stage = "resolved" =>
        \A r \in ToSet(flag.rules), ctx \in Contexts :
            (\A c \in ToSet(r.conditions) : c.op # "exists") =>
                \A a \in DOMAIN ctx.attrs :
                    Attribute(Without(ctx, a), a) = Null =>
                        (MatchRule(r, Without(ctx, a)) => MatchRule(r, ctx))
=============================================================================
