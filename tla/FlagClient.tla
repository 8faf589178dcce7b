----------------------------- MODULE FlagClient -----------------------------
(***************************************************************************)
(* The SDK of src/pkg/client: the L1 pointer and the L2 file (cache.go),   *)
(* the two goroutines that can change L1 (updater.go: the fetch-subscribe  *)
(* cycle and the reconcile poll), the lifecycle state machine (state.go),  *)
(* and New, Close and WaitForReady (client.go).                            *)
(*                                                                         *)
(* Every path goes through applyUpdate, which loads L1, decides, stores L1 *)
(* and confirms the state in separate steps and under no lock, so the two  *)
(* goroutines interleave between them. The config plane is external: it    *)
(* answers a Fetch with what it serves at some moment of the call, pushes  *)
(* frames that may be dropped, and loses its generation counter when it    *)
(* restarts.                                                               *)
(***************************************************************************)
EXTENDS Naturals

CONSTANTS
    Reconcile,    \* whether the reconcile poll runs (WithReconcileInterval > 0)
    L2,           \* whether a SnapshotStore is configured
    Callers,      \* whether a caller uses WaitForReady
    MaxGen,       \* bound on the publications of one source process
    MaxLife,      \* bound on the lives of the source process
    MaxRestarts,  \* bound on the crashes and restarts of the client process
    MaxIncidents, \* bound on the restarts of either process, taken together
    MaxFaults     \* bound on failed calls, broken streams and failed saves

ASSUME SwitchAssumption == {Reconcile, L2, Callers} \subseteq BOOLEAN
ASSUME BoundAssumption ==
    {MaxGen, MaxLife, MaxRestarts, MaxIncidents, MaxFaults} \subseteq Nat

Paths == IF Reconcile THEN {"cycle", "reconcile"} ELSE {"cycle"}

VARIABLES
    source,    \* external: the life and generation the config plane serves
    stream,    \* the push stream: none, open, ended
    chan,      \* the one slot of the push channel
    l1,        \* cache.l1
    pc,        \* where each path is
    resp,      \* the Update each path has in hand
    held,      \* the generation each path read from L1
    state,     \* stateMachine.cur
    ready,     \* whether stateMachine.readyCh is closed
    waiter,    \* a caller of WaitForReady: out, blocked
    closer,    \* Close: open, waiting, flushing, closed
    writer,    \* the asyncWriter goroutine: idle, saving, final, exited
    sig,       \* asyncWriter.sig holds a token
    pending,   \* asyncWriter.pending
    writing,   \* the snapshot Save is writing
    tmp,       \* Save's temporary file: none, written, synced
    disk,      \* the L2 file, and whether all of it would survive a crash
    saveErr,   \* whether the last Save failed
    faults, restarts

netVars == <<source, stream, chan>>
pathVars == <<pc, resp, held>>
lifeVars == <<state, ready, waiter, closer>>
diskVars == <<writer, sig, pending, writing, tmp, disk, saveErr>>
vars == <<netVars, l1, pathVars, lifeVars, diskVars, faults, restarts>>

\* A snapshot is told apart by the source life that built it and its generation.
Snapshot == [life : Nat, gen : Nat]
Nil == [life |-> 0, gen |-> 0]

\* entry: the instanceID of an entry read from L2 is "", here 0.
Entry == [snap : Snapshot, inst : Nat, fromDisk : BOOLEAN]
NilEntry == [snap |-> Nil, inst |-> 0, fromDisk |-> FALSE]

File == [snap : Snapshot, whole : BOOLEAN]
NoFile == [snap |-> Nil, whole |-> FALSE]

\* Update: a heartbeat carries the generation and no snapshot.
Update == [kind : {"none", "snapshot", "heartbeat"}, snap : Snapshot]
NoUpdate == [kind |-> "none", snap |-> Nil]

\* State.Serving
Serving(s) == s \in {"HEALTHY", "DEGRADED_STALE"}

\* The conditions of applyUpdate and onFrame.
instanceChanged(cur, up) ==
    cur # NilEntry /\ cur.inst # 0 /\ cur.inst # up.snap.life

Closing == closer # "open"

Incidents == (source.life - 1) + restarts

Fault == faults < MaxFaults /\ faults' = faults + 1

Init ==
    /\ source = [life |-> 1, gen |-> 0]
    /\ stream = "none"
    /\ chan = NoUpdate
    /\ l1 = NilEntry
    /\ pc = [p \in Paths |-> IF p = "cycle" THEN "top" ELSE "sleep"]
    /\ resp = [p \in Paths |-> NoUpdate]
    /\ held = [p \in Paths |-> 0]
    /\ state = "UNINITIALIZED"
    /\ ready = FALSE
    /\ waiter = "out"
    /\ closer = "open"
    /\ writer = IF L2 THEN "idle" ELSE "exited"
    /\ sig = FALSE
    /\ pending = Nil
    /\ writing = Nil
    /\ tmp = "none"
    /\ disk = NoFile
    /\ saveErr = FALSE
    /\ faults = 0
    /\ restarts = 0

-----------------------------------------------------------------------------
(* The config plane, as Source promises it.                                *)

SourcePublish ==
    /\ source.gen < MaxGen
    /\ source' = [source EXCEPT !.gen = @ + 1]
    /\ UNCHANGED <<stream, chan, l1, pathVars, lifeVars, diskVars, faults, restarts>>

\* The counter starts again; the first publication of the new process is its boot.
SourceRestart ==
    /\ source.life < MaxLife
    /\ Incidents < MaxIncidents
    /\ source' = [life |-> source.life + 1, gen |-> 1]
    /\ UNCHANGED <<stream, chan, l1, pathVars, lifeVars, diskVars, faults, restarts>>

\* A frame replaces one that was not received: "dropping a frame is acceptable".
SourceEmit(kind) ==
    /\ stream = "open"
    /\ source.gen > 0
    /\ chan' = [kind |-> kind, snap |-> source]
    /\ UNCHANGED <<source, stream, l1, pathVars, lifeVars, diskVars, faults, restarts>>

SourceEnd ==
    /\ stream = "open"
    /\ stream' = "ended"
    /\ IF Closing THEN UNCHANGED faults ELSE Fault
    /\ UNCHANGED <<source, chan, l1, pathVars, lifeVars, diskVars, restarts>>

-----------------------------------------------------------------------------
(* stateMachine.set, and the two events that call it.                      *)

set(to) ==
    IF state \in {"CLOSED", to}
        THEN UNCHANGED <<state, ready>>
        ELSE /\ state' = to
             /\ ready' = (ready \/ Serving(to))

onLiveConfirmation(heldGen, sourceGen) ==
    IF heldGen < sourceGen THEN UNCHANGED <<state, ready>> ELSE set("HEALTHY")

\* (Mutation) No check that there is anything stale to serve.
degrade_Unchecked == set("DEGRADED_STALE")

degrade ==
    IF l1 = NilEntry THEN UNCHANGED <<state, ready>> ELSE set("DEGRADED_STALE")

-----------------------------------------------------------------------------
(* fetchOnce, from either path.                                            *)

Goto(p, label) == pc' = [pc EXCEPT ![p] = label]

\* Where fetchOnce, and applyUpdate on a pushed frame, return to.
Return(p) ==
    Goto(p, CASE p = "reconcile" -> "sleep"
              [] stream = "none" -> "subscribe"
              [] OTHER -> "stream")

\* The bootstrap fetch of a cycle, or a tick of the reconcile timer.
FetchCall(p) ==
    /\ \/ pc[p] = "top" /\ ~Closing
       \/ pc[p] = "sleep"
    /\ Goto(p, "fetching")
    /\ UNCHANGED <<netVars, l1, resp, held, lifeVars, diskVars, faults, restarts>>

FetchAnswer(p) ==
    /\ pc[p] = "fetching"
    /\ source.gen > 0
    /\ resp' = [resp EXCEPT ![p] = [kind |-> "snapshot", snap |-> source]]
    /\ Goto(p, "apply")
    /\ UNCHANGED <<netVars, l1, held, lifeVars, diskVars, faults, restarts>>

\* An error, a timeout, a source with nothing published, or a cancelled context.
FetchFail(p) ==
    /\ pc[p] = "fetching"
    /\ IF Closing \/ source.gen = 0 THEN UNCHANGED faults ELSE Fault
    /\ Return(p)
    /\ UNCHANGED <<netVars, l1, resp, held, lifeVars, diskVars, restarts>>

-----------------------------------------------------------------------------
(* applyUpdate: load and decide, store, queue the L2 write, confirm.       *)

\* (Mutation) A rule that only refuses what it already holds.
Stale_EqualOnly(cur, up) ==
    /\ cur # NilEntry
    /\ ~instanceChanged(cur, up)
    /\ up.snap.gen = cur.snap.gen /\ ~cur.fromDisk

\* (Mutation) A rule that forgets the instance and compares bare counters.
Stale_IgnoresInstance(cur, up) ==
    /\ cur # NilEntry
    /\ \/ up.snap.gen < cur.snap.gen
       \/ up.snap.gen = cur.snap.gen /\ ~cur.fromDisk

Stale(cur, up) ==
    /\ cur # NilEntry
    /\ ~instanceChanged(cur, up)
    /\ \/ up.snap.gen < cur.snap.gen
       \/ up.snap.gen = cur.snap.gen /\ ~cur.fromDisk

ApplyLoad(p) ==
    /\ pc[p] = "apply"
    /\ IF Stale(l1, resp[p])
          THEN /\ held' = [held EXCEPT ![p] = l1.snap.gen]
               /\ Goto(p, "confirm")
          ELSE /\ held' = [held EXCEPT ![p] = resp[p].snap.gen]
               /\ Goto(p, "store")
    /\ UNCHANGED <<netVars, l1, resp, lifeVars, diskVars, faults, restarts>>

ApplyStore(p) ==
    /\ pc[p] = "store"
    /\ l1' = [snap |-> resp[p].snap, inst |-> resp[p].snap.life, fromDisk |-> FALSE]
    /\ Goto(p, IF L2 THEN "enqueue" ELSE "confirm")
    /\ UNCHANGED <<netVars, resp, held, lifeVars, diskVars, faults, restarts>>

ApplyEnqueue(p) ==
    /\ pc[p] = "enqueue"
    /\ pending' = resp[p].snap
    /\ sig' = TRUE
    /\ Goto(p, "confirm")
    /\ UNCHANGED <<netVars, l1, resp, held, lifeVars, writer, writing, tmp, disk, saveErr,
                   faults, restarts>>

ApplyConfirm(p) ==
    /\ pc[p] = "confirm"
    /\ onLiveConfirmation(held[p], resp[p].snap.gen)
    /\ Return(p)
    /\ UNCHANGED <<netVars, l1, resp, held, waiter, closer, diskVars, faults, restarts>>

-----------------------------------------------------------------------------
(* The rest of cycle: subscribe, the stream loop, backoff.                 *)

Subscribe ==
    /\ pc["cycle"] = "subscribe"
    /\ \/ /\ stream' = "open"
          /\ Goto("cycle", "stream")
          /\ UNCHANGED faults
       \/ /\ IF Closing THEN UNCHANGED faults ELSE Fault
          /\ Goto("cycle", "backoff")
          /\ UNCHANGED stream
    /\ chan' = NoUpdate
    /\ UNCHANGED <<source, l1, resp, held, lifeVars, diskVars, restarts>>

onFrame ==
    /\ pc["cycle"] = "stream"
    /\ chan # NoUpdate
    /\ resp' = [resp EXCEPT !["cycle"] = chan]
    /\ chan' = NoUpdate
    /\ Goto("cycle", IF chan.kind = "heartbeat" THEN "heartbeat" ELSE "apply")
    /\ UNCHANGED <<source, stream, l1, held, lifeVars, diskVars, faults, restarts>>

\* held := u.c.Generation(), and then a second load for the instance.
HeartbeatHeld ==
    /\ pc["cycle"] = "heartbeat"
    /\ held' = [held EXCEPT !["cycle"] = l1.snap.gen]
    /\ Goto("cycle", "compare")
    /\ UNCHANGED <<netVars, l1, resp, lifeVars, diskVars, faults, restarts>>

\* (Mutation) A client that takes every heartbeat for a confirmation.
HeartbeatCompare_NoGap ==
    /\ pc["cycle"] = "compare"
    /\ Goto("cycle", "confirm")
    /\ UNCHANGED <<netVars, l1, resp, held, lifeVars, diskVars, faults, restarts>>

HeartbeatCompare ==
    /\ pc["cycle"] = "compare"
    /\ LET up == resp["cycle"]
           gap == instanceChanged(l1, up) \/ up.snap.gen > held["cycle"]
       IN  Goto("cycle", IF gap THEN "fetching" ELSE "confirm")
    /\ UNCHANGED <<netVars, l1, resp, held, lifeVars, diskVars, faults, restarts>>

\* (Mutation) A reconnect that keeps the dead stream as its own.
StreamLost_KeepsReading ==
    /\ pc["cycle"] = "stream"
    /\ \/ stream = "ended" /\ chan = NoUpdate /\ UNCHANGED faults
       \/ Fault
    /\ degrade
    /\ Goto("cycle", "backoff")
    /\ UNCHANGED <<netVars, l1, resp, held, waiter, closer, diskVars, restarts>>

\* The channel is closed and drained, or the dead-stream timer fired. The code
\* abandons a mute stream without ending it: the subscription lives until Close.
StreamLost ==
    /\ pc["cycle"] = "stream"
    /\ \/ stream = "ended" /\ chan = NoUpdate /\ UNCHANGED faults
       \/ Fault
    /\ degrade
    /\ stream' = "none"
    /\ chan' = NoUpdate
    /\ Goto("cycle", "backoff")
    /\ UNCHANGED <<source, l1, resp, held, waiter, closer, diskVars, restarts>>

Backoff ==
    /\ pc["cycle"] = "backoff"
    /\ Goto("cycle", "top")
    /\ UNCHANGED <<netVars, l1, resp, held, lifeVars, diskVars, faults, restarts>>

\* (Mutation) A stream loop whose select has no ctx.Done() case.
Cancelled_NotInStream(p) ==
    /\ Closing
    /\ pc[p] \in {"top", "sleep", "backoff"}
    /\ Goto(p, "done")
    /\ UNCHANGED <<netVars, l1, resp, held, lifeVars, diskVars, faults, restarts>>

\* ctx.Done() wins a select, or the loop condition fails.
Cancelled(p) ==
    /\ Closing
    /\ pc[p] \in {"top", "sleep", "stream", "backoff"}
    /\ Goto(p, IF pc[p] = "stream" THEN "backoff" ELSE "done")
    /\ IF pc[p] = "stream"
          THEN stream' = "none" /\ chan' = NoUpdate
          ELSE UNCHANGED <<stream, chan>>
    /\ UNCHANGED <<source, l1, resp, held, lifeVars, diskVars, faults, restarts>>

-----------------------------------------------------------------------------
(* asyncWriter.                                                            *)

\* run takes a wake-up and drains the mailbox.
WriterWake ==
    /\ writer = "idle"
    /\ sig
    /\ sig' = FALSE
    /\ writing' = pending
    /\ pending' = Nil
    /\ writer' = IF pending = Nil THEN "idle" ELSE "saving"
    /\ UNCHANGED <<netVars, l1, pathVars, lifeVars, tmp, disk, saveErr, faults, restarts>>

\* done is closed: one last drain.
WriterDone ==
    /\ writer = "idle"
    /\ closer = "flushing"
    /\ writing' = pending
    /\ pending' = Nil
    /\ writer' = IF pending = Nil THEN "exited" ELSE "final"
    /\ UNCHANGED <<netVars, l1, pathVars, lifeVars, sig, tmp, disk, saveErr, faults, restarts>>

-----------------------------------------------------------------------------
(* FileStore.Save. Loading a file a crash has torn is a decode error.      *)

Saving == writer \in {"saving", "final"}

SaveReturns ==
    /\ writing' = Nil
    /\ tmp' = "none"
    /\ writer' = IF writer = "saving" THEN "idle" ELSE "exited"

\* (Mutation) The file itself is truncated and written.
SaveWrite_InPlace ==
    /\ Saving /\ tmp = "none"
    /\ tmp' = "written"
    /\ disk' = [snap |-> writing, whole |-> FALSE]
    /\ UNCHANGED <<netVars, l1, pathVars, lifeVars, writer, sig, pending, writing, saveErr,
                   faults, restarts>>

\* CreateTemp and Write.
SaveWrite ==
    /\ Saving /\ tmp = "none"
    /\ tmp' = "written"
    /\ UNCHANGED <<netVars, l1, pathVars, lifeVars, writer, sig, pending, writing, disk,
                   saveErr, faults, restarts>>

\* Sync and Close.
SaveSync ==
    /\ Saving /\ tmp = "written"
    /\ tmp' = "synced"
    /\ UNCHANGED <<netVars, l1, pathVars, lifeVars, writer, sig, pending, writing, disk,
                   saveErr, faults, restarts>>

SaveRename ==
    /\ Saving /\ tmp = "synced"
    /\ disk' = [snap |-> writing, whole |-> TRUE]
    /\ saveErr' = FALSE
    /\ SaveReturns
    /\ UNCHANGED <<netVars, l1, pathVars, lifeVars, sig, pending, faults, restarts>>

\* Any of the steps fails: the temporary file is removed, the old file stays.
SaveFail ==
    /\ Saving
    /\ Fault
    /\ saveErr' = TRUE
    /\ SaveReturns
    /\ UNCHANGED <<netVars, l1, pathVars, lifeVars, sig, pending, disk, restarts>>

Save == SaveWrite \/ SaveSync \/ SaveRename \/ SaveFail

-----------------------------------------------------------------------------
(* Close, WaitForReady, and a new process on the same disk.                *)

Close ==
    /\ closer = "open"
    /\ closer' = "waiting"
    /\ UNCHANGED <<netVars, l1, pathVars, state, ready, waiter, diskVars, faults, restarts>>

\* (Mutation) Close does not wait for the goroutines.
CloseWait_NoWait ==
    /\ closer = "waiting"
    /\ closer' = "flushing"
    /\ UNCHANGED <<netVars, l1, pathVars, state, ready, waiter, diskVars, faults, restarts>>

\* wg.Wait(), then cache.close() tells the writer to finish.
CloseWait ==
    /\ closer = "waiting"
    /\ \A p \in Paths : pc[p] = "done"
    /\ closer' = "flushing"
    /\ UNCHANGED <<netVars, l1, pathVars, state, ready, waiter, diskVars, faults, restarts>>

CloseDone ==
    /\ closer = "flushing"
    /\ writer = "exited"
    /\ closer' = "closed"
    /\ set("CLOSED")
    /\ UNCHANGED <<netVars, l1, pathVars, waiter, diskVars, faults, restarts>>

\* A call while the client serves returns at once and changes nothing.
WaitForReady ==
    /\ Callers
    /\ waiter = "out"
    /\ ~Serving(state)
    /\ waiter' = "blocked"
    /\ UNCHANGED <<netVars, l1, pathVars, state, ready, closer, diskVars, faults, restarts>>

Release ==
    /\ waiter = "blocked"
    /\ ready
    /\ waiter' = "out"
    /\ UNCHANGED <<netVars, l1, pathVars, state, ready, closer, diskVars, faults, restarts>>

\* What Load gives New, Nil for an error.
hydrated == IF disk.whole THEN disk.snap ELSE Nil

\* The process dies at any moment, or exits after Close; New hydrates from L2. A
\* temporary file is left behind and never read.
Restart ==
    /\ restarts < MaxRestarts
    /\ Incidents < MaxIncidents
    /\ restarts' = restarts + 1
    /\ l1' = [snap |-> hydrated, inst |-> 0, fromDisk |-> hydrated # Nil]
    /\ state' = IF hydrated = Nil THEN "UNINITIALIZED" ELSE "DEGRADED_STALE"
    /\ ready' = (hydrated # Nil)
    /\ stream' = "none"
    /\ chan' = NoUpdate
    /\ pc' = [p \in Paths |-> IF p = "cycle" THEN "top" ELSE "sleep"]
    /\ resp' = [p \in Paths |-> NoUpdate]
    /\ held' = [p \in Paths |-> 0]
    /\ waiter' = "out"
    /\ closer' = "open"
    /\ writer' = IF L2 THEN "idle" ELSE "exited"
    /\ sig' = FALSE
    /\ pending' = Nil
    /\ writing' = Nil
    /\ tmp' = "none"
    /\ saveErr' = FALSE
    /\ UNCHANGED <<source, disk, faults>>

-----------------------------------------------------------------------------
Emit == \E kind \in {"snapshot", "heartbeat"} : SourceEmit(kind)

Apply(p) == ApplyLoad(p) \/ ApplyStore(p) \/ ApplyEnqueue(p) \/ ApplyConfirm(p)

Fetch(p) == FetchCall(p) \/ FetchAnswer(p) \/ FetchFail(p)

Cycle ==
    \/ Subscribe \/ onFrame \/ HeartbeatHeld \/ HeartbeatCompare
    \/ StreamLost \/ Backoff

Writer == WriterWake \/ WriterDone \/ Save

Closer == CloseWait \/ CloseDone

Next ==
    \/ SourcePublish \/ SourceRestart \/ Emit \/ SourceEnd
    \/ \E p \in Paths : Fetch(p) \/ Apply(p) \/ Cancelled(p)
    \/ Cycle
    \/ Writer
    \/ Close \/ Closer \/ WaitForReady \/ Release \/ Restart

Spec == Init /\ [][Next]_vars

\* Goroutines run, a call returns, an open stream keeps sending heartbeats, and a
\* select with several ready cases does not ignore ctx.Done() for ever.
FairSpec ==
    /\ Spec
    /\ \A p \in Paths :
         /\ WF_vars(Fetch(p) \/ Apply(p) \/ (p = "cycle" /\ Cycle))
         /\ SF_vars(Cancelled(p))
    /\ WF_vars(SourceEmit("heartbeat"))
    /\ WF_vars(Writer)
    /\ WF_vars(Closer)
    /\ WF_vars(Release)

-----------------------------------------------------------------------------
(* Properties.                                                             *)

Labels == {"top", "sleep", "fetching", "apply", "store", "enqueue", "confirm",
           "subscribe", "stream", "heartbeat", "compare", "backoff", "done"}

\* The variables have their types; a cycle between two passes reads no stream
\* (every pass subscribes afresh), and a client without an L2 never queues a write.
TypeOK ==
    /\ source \in Snapshot
    /\ stream \in {"none", "open", "ended"}
    /\ chan \in Update
    /\ l1 \in Entry
    /\ pc \in [Paths -> Labels]
    /\ pc["cycle"] \in {"top", "subscribe", "backoff", "done"} => stream = "none"
    /\ resp \in [Paths -> Update]
    /\ held \in [Paths -> Nat]
    /\ state \in {"UNINITIALIZED", "HEALTHY", "DEGRADED_STALE", "CLOSED"}
    /\ ready \in BOOLEAN
    /\ waiter \in {"out", "blocked"}
    /\ closer \in {"open", "waiting", "flushing", "closed"}
    /\ writer \in {"idle", "saving", "final", "exited"}
    /\ sig \in BOOLEAN
    /\ {pending, writing} \subseteq Snapshot
    /\ tmp \in {"none", "written", "synced"}
    /\ disk \in File
    /\ ~L2 => pending = Nil /\ writing = Nil /\ disk = NoFile
    /\ saveErr \in BOOLEAN
    /\ faults \in 0..MaxFaults
    /\ restarts \in 0..MaxRestarts

\* Within one source process, and from a disk entry on, L1 never goes back to an
\* older generation (applyUpdate, updater.go:239-244: "Refusing a strictly older
\* generation stops a late-arriving frame from a slow path (a reconcile fetch that
\* raced a push) from rewinding config").
NeverRewinds ==
    [][ restarts' = restarts /\ l1.inst \in {0, l1'.inst}
        => l1'.snap.gen >= l1.snap.gen ]_vars

\* A client becomes HEALTHY on the word of a source process only while it serves
\* what that process built (Update.InstanceID, updater.go:28-32: a client "holding
\* generation 900 that meets a restarted source at generation 3 must not conclude it
\* is ahead").
HealthyOnOwnSource ==
    [][ state' = "HEALTHY" /\ state # "HEALTHY"
        => \E p \in Paths : pc[p] = "confirm" /\ resp[p].snap.life = l1.snap.life ]_vars

\* A client that says it is serving (the /ready gate, and readyCh, which lets the
\* callers of WaitForReady through) has a snapshot to serve, whichever way streams die
\* and fetches fail.
ServingHasConfig == Serving(state) \/ ready => l1 # NilEntry

\* Once a snapshot has been saved, no crash costs the client its last known good: in
\* the middle of a later Save, after a failed one or with the machine going down, the
\* next process hydrates a snapshot an earlier one had saved (FileStore.Save).
LastKnownGoodSurvives ==
    [][ restarts' # restarts /\ disk # NoFile => l1'.snap # Nil ]_vars

\* Close flushes the pending L2 write: unless the last Save failed, the file holds
\* what the client was serving when Close returned.
FlushedOnClose ==
    closer = "closed" /\ L2 /\ ~saveErr => disk.snap = l1.snap

\* Once the config plane stops changing and breaking, a client that stays open ends
\* up HEALTHY on exactly what the source serves, whatever was dropped, raced or
\* rewound before (the reconcile poll and the heartbeat gap check are there for it).
Converges ==
    <>[]( \/ Closing
          \/ source.gen = 0
          \/ state = "HEALTHY" /\ l1.snap = source )

\* Close returns unless the process dies first: the goroutines and the writer see
\* it from wherever they are, a fetch in flight and a busy stream included.
CloseReturns == (closer = "waiting") ~> (closer \in {"closed", "open"})

\* "waitForReady blocks until the client is serving real config, ctx is done, or the
\* client is closed" (state.go:151). The caller here gave no deadline.
WaitEndsWithClose == (waiter = "blocked" /\ closer = "closed") ~> (waiter = "out")
=============================================================================
