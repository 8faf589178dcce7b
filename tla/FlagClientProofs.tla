--------------------------- MODULE FlagClientProofs ---------------------------
(***************************************************************************)
(* What the client's two tiers promise, for any number of publications,    *)
(* restarts and faults: proofs about FlagClient. The last three theorems   *)
(* are about a client without the reconcile poll: with it, they do not     *)
(* hold (two goroutines store to L1 and queue for L2 in steps that         *)
(* interleave).                                                            *)
(***************************************************************************)
EXTENDS FlagClient, TLAPS

USE BoundAssumption, SwitchAssumption

\* Without an L2 there is no writer and nothing for it to do, and each path stays in
\* the code it runs.
PlaceInv ==
    /\ ~L2 => writer = "exited" /\ \A p \in Paths : pc[p] # "enqueue"
    /\ pc["cycle"] # "sleep"

LEMMA ConstantTypes ==
    /\ Nil \in Snapshot /\ NilEntry \in Entry /\ NoFile \in File /\ NoUpdate \in Update
    /\ "cycle" \in Paths
    /\ MaxFaults \in Nat /\ MaxRestarts \in Nat
    /\ L2 \in BOOLEAN /\ Reconcile \in BOOLEAN
  BY DEF Nil, Snapshot, NilEntry, Entry, NoFile, File, NoUpdate, Update, Paths

LEMMA InitTypes == ASSUME Init PROVE TypeOK /\ PlaceInv
<1>1. source \in Snapshot
  BY DEF Init, Snapshot
<1>2. pc \in [Paths -> Labels] /\ pc["cycle"] = "top" /\ \A p \in Paths : pc[p] # "enqueue"
  BY ConstantTypes DEF Init, Labels
<1>3. resp \in [Paths -> Update] /\ held \in [Paths -> Nat]
  BY ConstantTypes DEF Init
<1>4. faults \in 0..MaxFaults /\ restarts \in 0..MaxRestarts
  BY ConstantTypes DEF Init
<1> QED
  BY <1>1, <1>2, <1>3, <1>4, ConstantTypes DEF Init, TypeOK, PlaceInv

LEMMA SourceTypes ==
    ASSUME TypeOK, PlaceInv, SourcePublish \/ SourceRestart \/ Emit \/ SourceEnd
    PROVE  TypeOK' /\ PlaceInv'
<1> USE DEF TypeOK, PlaceInv, pathVars, lifeVars, diskVars, Snapshot, Update
<1>1. CASE SourcePublish
  BY <1>1 DEF SourcePublish
<1>2. CASE SourceRestart
  BY <1>2 DEF SourceRestart
<1>3. CASE Emit
  BY <1>3 DEF Emit, SourceEmit
<1>4. CASE SourceEnd
  BY <1>4 DEF SourceEnd, Fault
<1> QED
  BY <1>1, <1>2, <1>3, <1>4

LEMMA PathTypes ==
    ASSUME TypeOK, PlaceInv, NEW p \in Paths, Fetch(p) \/ Apply(p) \/ Cancelled(p)
    PROVE  TypeOK' /\ PlaceInv'
<1> USE DEF TypeOK, PlaceInv, netVars, pathVars, lifeVars, diskVars, Goto, Labels
<1>1. CASE FetchCall(p)
  BY <1>1 DEF FetchCall
<1>2. CASE FetchAnswer(p)
  BY <1>2 DEF FetchAnswer, Update
<1>3. CASE FetchFail(p)
  BY <1>3 DEF FetchFail, Fault, Return
<1>4. CASE ApplyLoad(p)
  <2>1. l1.snap.gen \in Nat /\ resp[p].snap.gen \in Nat
    BY DEF Update, Entry, Snapshot
  <2>2. held' \in [Paths -> Nat]
    BY <1>4, <2>1 DEF ApplyLoad
  <2>3. /\ pc' \in [Paths -> Labels]
        /\ pc'["cycle"] \in {"top", "subscribe", "backoff", "done"} => stream = "none"
        /\ (\A q \in Paths : pc[q] # "enqueue") => \A q \in Paths : pc'[q] # "enqueue"
        /\ pc'["cycle"] # "sleep"
    <3>1. CASE pc' = [pc EXCEPT ![p] = "confirm"]
      BY <1>4, <3>1, ConstantTypes
    <3>2. CASE pc' = [pc EXCEPT ![p] = "store"]
      BY <1>4, <3>2, ConstantTypes
    <3> QED
      BY <1>4, <3>1, <3>2 DEF ApplyLoad
  <2> QED
    BY <1>4, <2>2, <2>3 DEF ApplyLoad
<1>5. CASE ApplyStore(p)
  BY <1>5 DEF ApplyStore, Update, Entry, Snapshot
<1>6. CASE ApplyEnqueue(p)
  BY <1>6 DEF ApplyEnqueue, Update
<1>7. CASE ApplyConfirm(p)
  <2>1. state' \in {"UNINITIALIZED", "HEALTHY", "DEGRADED_STALE", "CLOSED"} /\ ready' \in BOOLEAN
    BY <1>7 DEF ApplyConfirm, onLiveConfirmation, set, Serving
  <2>2. /\ pc' \in [Paths -> Labels]
        /\ pc'["cycle"] \in {"top", "subscribe", "backoff", "done"} => stream = "none"
        /\ (\A q \in Paths : pc[q] # "enqueue") => \A q \in Paths : pc'[q] # "enqueue"
        /\ pc'["cycle"] # "sleep"
    <3>1. CASE p = "reconcile"
      BY <1>7, <3>1, ConstantTypes DEF ApplyConfirm, Return
    <3>2. CASE p # "reconcile" /\ stream = "none"
      <4>1. pc' = [pc EXCEPT ![p] = "subscribe"]
        BY <1>7, <3>2 DEF ApplyConfirm, Return
      <4> QED
        BY <1>7, <3>2, <4>1, ConstantTypes
    <3>3. CASE p # "reconcile" /\ stream # "none"
      <4>1. p = "cycle" /\ pc' = [pc EXCEPT ![p] = "stream"]
        BY <1>7, <3>3 DEF ApplyConfirm, Return, Paths
      <4> QED
        BY <1>7, <3>3, <4>1, ConstantTypes
    <3> QED
      BY <3>1, <3>2, <3>3
  <2> QED
    BY <1>7, <2>1, <2>2 DEF ApplyConfirm
<1>8. CASE Cancelled(p)
  <2>1. chan' \in Update /\ stream' \in {"none", "open", "ended"}
    BY <1>8, ConstantTypes DEF Cancelled
  <2>2. /\ pc' \in [Paths -> Labels]
        /\ pc'["cycle"] \in {"top", "subscribe", "backoff", "done"} => stream' = "none"
        /\ (\A q \in Paths : pc[q] # "enqueue") => \A q \in Paths : pc'[q] # "enqueue"
        /\ pc'["cycle"] # "sleep"
    BY <1>8, ConstantTypes DEF Cancelled, Paths
  <2> QED
    BY <1>8, <2>1, <2>2 DEF Cancelled
<1> QED
  BY <1>1, <1>2, <1>3, <1>4, <1>5, <1>6, <1>7, <1>8 DEF Fetch, Apply

LEMMA CycleTypes ==
    ASSUME TypeOK, PlaceInv, Cycle
    PROVE  TypeOK' /\ PlaceInv'
<1> USE DEF TypeOK, PlaceInv, netVars, pathVars, lifeVars, diskVars, Goto, Labels
<1>0. "cycle" \in Paths /\ NoUpdate \in Update
  BY ConstantTypes
<1>1. CASE Subscribe
  <2>1. faults' \in 0..MaxFaults
    BY <1>1, ConstantTypes DEF Subscribe, Fault
  <2> QED
    BY <1>0, <1>1, <2>1 DEF Subscribe
<1>2. CASE onFrame
  BY <1>0, <1>2 DEF onFrame
<1>3. CASE HeartbeatHeld
  BY <1>0, <1>3 DEF HeartbeatHeld, Entry, Snapshot
<1>4. CASE HeartbeatCompare
  BY <1>0, <1>4 DEF HeartbeatCompare
<1>5. CASE StreamLost
  <2>1. faults' \in 0..MaxFaults
    BY <1>5, ConstantTypes DEF StreamLost, Fault
  <2>2. state' \in {"UNINITIALIZED", "HEALTHY", "DEGRADED_STALE", "CLOSED"} /\ ready' \in BOOLEAN
    BY <1>5 DEF StreamLost, degrade, set, Serving
  <2> QED
    BY <1>0, <1>5, <2>1, <2>2 DEF StreamLost
<1>6. CASE Backoff
  BY <1>0, <1>6 DEF Backoff
<1> QED
  BY <1>1, <1>2, <1>3, <1>4, <1>5, <1>6 DEF Cycle

LEMMA WriterTypes ==
    ASSUME TypeOK, PlaceInv, Writer
    PROVE  TypeOK' /\ PlaceInv'
<1> USE DEF TypeOK, PlaceInv, netVars, pathVars, lifeVars
<1>0. Nil \in Snapshot /\ pending \in Snapshot /\ writing \in Snapshot
  BY ConstantTypes
<1>1. CASE WriterWake
  <2>1. /\ writing' \in Snapshot /\ pending' \in Snapshot /\ sig' \in BOOLEAN
        /\ writer' \in {"idle", "saving"} /\ L2
        /\ UNCHANGED <<netVars, l1, pathVars, lifeVars, tmp, disk, saveErr, faults, restarts>>
    BY <1>0, <1>1 DEF WriterWake
  <2> QED
    BY <2>1
<1>2. CASE WriterDone
  BY <1>0, <1>2 DEF WriterDone
<1>3. CASE SaveWrite
  BY <1>3 DEF SaveWrite
<1>4. CASE SaveSync
  BY <1>4 DEF SaveSync
<1>5. CASE SaveRename
  <2>1. L2 /\ disk' \in File
    BY <1>0, <1>5 DEF SaveRename, Saving, File
  <2>2. writer' \in {"idle", "exited"} /\ writing' = Nil /\ tmp' = "none"
    BY <1>5 DEF SaveRename, SaveReturns
  <2>3. /\ saveErr' \in BOOLEAN
        /\ UNCHANGED <<source, stream, chan, l1, pc, resp, held, state, ready, waiter, closer,
                       sig, pending, faults, restarts>>
    BY <1>5 DEF SaveRename
  <2>4. PlaceInv'
    BY <2>1, <2>3
  <2>5. TypeOK'
    BY <1>0, <2>1, <2>2, <2>3
  <2> QED
    BY <2>4, <2>5
<1>6. CASE SaveFail
  <2>1. L2 /\ faults' \in 0..MaxFaults
    BY <1>6, ConstantTypes DEF SaveFail, Saving, Fault
  <2>2. writer' \in {"idle", "exited"} /\ writing' = Nil /\ tmp' = "none"
    BY <1>6 DEF SaveFail, SaveReturns
  <2> QED
    BY <1>0, <1>6, <2>1, <2>2 DEF SaveFail
<1> QED
  BY <1>1, <1>2, <1>3, <1>4, <1>5, <1>6 DEF Writer, Save

LEMMA LifeTypes ==
    ASSUME TypeOK, PlaceInv, Close \/ Closer \/ WaitForReady \/ Release \/ Restart
    PROVE  TypeOK' /\ PlaceInv'
<1> USE DEF TypeOK, PlaceInv, netVars, pathVars, diskVars
<1>1. CASE Close
  BY <1>1 DEF Close
<1>2. CASE CloseWait
  BY <1>2 DEF CloseWait
<1>3. CASE CloseDone
  BY <1>3 DEF CloseDone, set, Serving
<1>4. CASE WaitForReady
  BY <1>4 DEF WaitForReady
<1>5. CASE Release
  BY <1>5 DEF Release
<1>6. CASE Restart
  <2>1. hydrated \in Snapshot
    BY ConstantTypes DEF hydrated, File
  <2>2. l1' \in Entry /\ ready' \in BOOLEAN
    BY <1>6, <2>1 DEF Restart, Entry
  <2>3. /\ pc' \in [Paths -> Labels] /\ resp' \in [Paths -> Update]
        /\ held' \in [Paths -> Nat]
        /\ pc'["cycle"] = "top" /\ \A p \in Paths : pc'[p] # "enqueue"
    BY <1>6, ConstantTypes DEF Restart, Labels
  <2>4. restarts' \in 0..MaxRestarts
    BY <1>6, ConstantTypes DEF Restart
  <2> QED
    BY <1>6, <2>1, <2>2, <2>3, <2>4, ConstantTypes DEF Restart
<1> QED
  BY <1>1, <1>2, <1>3, <1>4, <1>5, <1>6 DEF Closer

LEMMA StepTypes ==
    ASSUME TypeOK, PlaceInv, [Next]_vars
    PROVE  TypeOK' /\ PlaceInv'
<1>1. CASE Next
  BY <1>1, SourceTypes, PathTypes, CycleTypes, WriterTypes, LifeTypes DEF Next
<1>2. CASE UNCHANGED vars
  BY <1>2 DEF vars, netVars, pathVars, lifeVars, diskVars, TypeOK, PlaceInv
<1> QED
  BY <1>1, <1>2

\* The variables keep their types, a cycle between two passes reads no stream and a
\* client without an L2 writes nothing: cycle's two ends of the subscription
\* (updater.go) and enqueueSave's nil check (cache.go).
THEOREM Types == Spec => [](TypeOK /\ PlaceInv)
<1>1. Init => TypeOK /\ PlaceInv
  BY InitTypes
<1>2. (TypeOK /\ PlaceInv) /\ [Next]_vars => (TypeOK /\ PlaceInv)'
  BY StepTypes
<1> QED
  BY <1>1, <1>2, PTL DEF Spec

THEOREM TypesOK == Spec => []TypeOK
  BY Types, PTL

-----------------------------------------------------------------------------
(* A path that is about to confirm has stored, or has seen, an entry of L1. *)

\* Whatever a source sends was published, so its generation is not 0.
FramesBuilt ==
    /\ chan # NoUpdate => chan.snap.gen > 0
    /\ \A p \in Paths :
         pc[p] \in {"apply", "store", "enqueue", "confirm", "heartbeat", "compare"}
           => resp[p].snap.gen > 0

StoredFirst ==
    /\ \A p \in Paths : pc[p] \in {"enqueue", "confirm"} => l1 # NilEntry
    /\ pc["cycle"] = "compare" /\ held["cycle"] > 0 => l1 # NilEntry

ConfigInv == FramesBuilt /\ StoredFirst /\ ServingHasConfig

LEMMA InitConfig == ASSUME Init PROVE ConfigInv
  BY ConstantTypes DEF Init, ConfigInv, FramesBuilt, StoredFirst, ServingHasConfig, Serving

\* The steps that touch neither L1, the paths, the channel nor the state.
LEMMA ConfigFrame ==
    ASSUME ConfigInv, UNCHANGED <<chan, l1, pathVars, state, ready>>
    PROVE  ConfigInv'
  BY DEF ConfigInv, FramesBuilt, StoredFirst, ServingHasConfig, Serving, pathVars

LEMMA PathConfig ==
    ASSUME TypeOK, ConfigInv, NEW p \in Paths, Fetch(p) \/ Apply(p) \/ Cancelled(p)
    PROVE  ConfigInv'
<1> USE DEF ConfigInv, FramesBuilt, StoredFirst, ServingHasConfig, Goto, netVars, lifeVars
<1>0. pc \in [Paths -> Labels] /\ resp \in [Paths -> Update] /\ held \in [Paths -> Nat]
  BY DEF TypeOK
<1>1. CASE FetchCall(p)
  BY <1>0, <1>1 DEF FetchCall, Serving
<1>2. CASE FetchAnswer(p)
  BY <1>0, <1>2 DEF FetchAnswer, Serving
<1>3. CASE FetchFail(p)
  BY <1>0, <1>3 DEF FetchFail, Return, Serving
<1>4. CASE ApplyLoad(p)
  BY <1>0, <1>4, ConstantTypes DEF ApplyLoad, Stale, Serving
<1>5. CASE ApplyStore(p)
  <2>1. resp[p].snap.gen > 0 /\ l1' # NilEntry
    BY <1>5 DEF ApplyStore, NilEntry, Nil
  <2> QED
    BY <1>0, <1>5, <2>1 DEF ApplyStore, Serving
<1>6. CASE ApplyEnqueue(p)
  BY <1>0, <1>6 DEF ApplyEnqueue, Serving
<1>7. CASE ApplyConfirm(p)
  <2>1. l1 # NilEntry /\ l1' = l1
    BY <1>7 DEF ApplyConfirm
  <2> QED
    BY <1>0, <1>7, <2>1 DEF ApplyConfirm, Return
<1>8. CASE Cancelled(p)
  BY <1>0, <1>8 DEF Cancelled, Serving
<1> QED
  BY <1>1, <1>2, <1>3, <1>4, <1>5, <1>6, <1>7, <1>8 DEF Fetch, Apply

LEMMA CycleConfig ==
    ASSUME TypeOK, ConfigInv, Cycle
    PROVE  ConfigInv'
<1> USE DEF ConfigInv, FramesBuilt, StoredFirst, ServingHasConfig, Goto, netVars, lifeVars
<1>0. /\ "cycle" \in Paths
      /\ pc \in [Paths -> Labels] /\ resp \in [Paths -> Update] /\ held \in [Paths -> Nat]
  BY ConstantTypes DEF TypeOK
<1>1. CASE Subscribe
  BY <1>0, <1>1 DEF Subscribe, Serving
<1>2. CASE onFrame
  BY <1>0, <1>2 DEF onFrame, Serving
<1>3. CASE HeartbeatHeld
  BY <1>0, <1>3 DEF HeartbeatHeld, Serving, NilEntry, Nil
<1>4. CASE HeartbeatCompare
  <2>1. pc'["cycle"] = "confirm" => l1 # NilEntry
    BY <1>0, <1>4 DEF HeartbeatCompare, TypeOK, Update, Snapshot
  <2>2. \A p \in Paths : p # "cycle" => pc'[p] = pc[p]
    BY <1>0, <1>4 DEF HeartbeatCompare
  <2>3. pc'["cycle"] \in {"fetching", "confirm"}
    BY <1>0, <1>4 DEF HeartbeatCompare
  <2> QED
    BY <1>0, <1>4, <2>1, <2>2, <2>3 DEF HeartbeatCompare, Serving
<1>5. CASE StreamLost
  BY <1>0, <1>5 DEF StreamLost, degrade, set, Serving
<1>6. CASE Backoff
  BY <1>0, <1>6 DEF Backoff, Serving
<1> QED
  BY <1>1, <1>2, <1>3, <1>4, <1>5, <1>6 DEF Cycle

LEMMA StepConfig ==
    ASSUME TypeOK, ConfigInv, [Next]_vars
    PROVE  ConfigInv'
<1> USE DEF netVars, lifeVars, diskVars
<1>1. CASE Emit
  BY <1>1 DEF Emit, SourceEmit, ConfigInv, FramesBuilt, StoredFirst, ServingHasConfig,
              Serving, pathVars
<1>2. CASE CloseDone
  BY <1>2 DEF CloseDone, set, ConfigInv, FramesBuilt, StoredFirst, ServingHasConfig,
              Serving, pathVars
<1>3. CASE Restart
  <2>1. hydrated # Nil => l1' # NilEntry
    BY <1>3 DEF Restart, NilEntry
  <2> QED
    BY <1>3, <2>1, ConstantTypes
       DEF Restart, ConfigInv, FramesBuilt, StoredFirst, ServingHasConfig, Serving
<1>4. CASE SourcePublish \/ SourceRestart \/ SourceEnd
  BY <1>4, ConfigFrame DEF SourcePublish, SourceRestart, SourceEnd
<1>5. CASE Writer
  BY <1>5, ConfigFrame
     DEF Writer, WriterWake, WriterDone, Save, SaveWrite, SaveSync, SaveRename, SaveFail
<1>6. CASE Close \/ CloseWait \/ WaitForReady \/ Release
  BY <1>6, ConfigFrame DEF Close, CloseWait, WaitForReady, Release
<1>7. CASE UNCHANGED vars
  BY <1>7, ConfigFrame DEF vars
<1> QED
  BY <1>1, <1>2, <1>3, <1>4, <1>5, <1>6, <1>7, PathConfig, CycleConfig DEF Next, Closer

\* However streams die, fetches fail and processes end, a client whose state says it
\* serves, or that let a caller of WaitForReady through, holds a snapshot (the l1 check
\* of degrade, the order of applyUpdate's store and confirmation, and New's hydration).
THEOREM ServingIsBacked == Spec => []ServingHasConfig
<1>1. Init => ConfigInv
  BY InitConfig
<1>2. TypeOK /\ ConfigInv /\ [Next]_vars => ConfigInv'
  BY StepConfig
<1>3. ConfigInv => ServingHasConfig
  BY DEF ConfigInv
<1> QED
  BY <1>1, <1>2, <1>3, TypesOK, PTL DEF Spec

-----------------------------------------------------------------------------
(* The L2 file is whole whenever a crash can come.                         *)

DiskInv ==
    /\ disk # NoFile => disk.whole /\ disk.snap # Nil
    /\ Saving => writing # Nil

LEMMA StepDisk ==
    ASSUME DiskInv, [Next]_vars
    PROVE  DiskInv'
<1> USE DEF DiskInv, Saving, netVars, pathVars, lifeVars, diskVars
<1>1. CASE UNCHANGED <<writer, writing, disk>>
  BY <1>1
<1>2. CASE WriterWake
  BY <1>2 DEF WriterWake
<1>3. CASE WriterDone
  BY <1>3 DEF WriterDone
<1>4. CASE SaveRename
  BY <1>4 DEF SaveRename, SaveReturns
<1>5. CASE SaveFail
  BY <1>5 DEF SaveFail, SaveReturns
<1>6. CASE Restart
  BY <1>6 DEF Restart
<1>7. CASE SourcePublish \/ SourceRestart \/ Emit \/ SourceEnd
  BY <1>1, <1>7 DEF SourcePublish, SourceRestart, Emit, SourceEmit, SourceEnd
<1>8. ASSUME NEW p \in Paths, Fetch(p) \/ Cancelled(p)
      PROVE  DiskInv'
  BY <1>1, <1>8 DEF Fetch, FetchCall, FetchAnswer, FetchFail, Cancelled
<1>9. ASSUME NEW p \in Paths, Apply(p)
      PROVE  DiskInv'
  BY <1>1, <1>9 DEF Apply, ApplyLoad, ApplyStore, ApplyEnqueue, ApplyConfirm
<1>10. CASE Cycle
  BY <1>1, <1>10
     DEF Cycle, Subscribe, onFrame, HeartbeatHeld, HeartbeatCompare, StreamLost, Backoff
<1>11. CASE SaveWrite \/ SaveSync
  BY <1>1, <1>11 DEF SaveWrite, SaveSync
<1>12. CASE Close \/ Closer \/ WaitForReady \/ Release
  BY <1>1, <1>12 DEF Close, Closer, CloseWait, CloseDone, WaitForReady, Release
<1>13. CASE UNCHANGED vars
  BY <1>1, <1>13 DEF vars
<1> QED
  BY <1>2, <1>3, <1>4, <1>5, <1>6, <1>7, <1>8, <1>9, <1>10, <1>11, <1>12, <1>13
     DEF Next, Writer, Save

LEMMA DiskIsWhole == Spec => []DiskInv
<1>1. ASSUME Init PROVE DiskInv
  <2>1. writer \in {"idle", "exited"} /\ disk = NoFile
    BY <1>1 DEF Init
  <2>2. ~Saving
    BY <2>1 DEF Saving
  <2> QED
    BY <2>1, <2>2 DEF DiskInv
<1>2. DiskInv /\ [Next]_vars => DiskInv'
  BY StepDisk
<1> QED
  BY <1>1, <1>2, PTL DEF Spec

\* Only the rename of a synced file replaces the L2 file (FileStore.Save), so a
\* process that dies anywhere leaves one that Load reads back: the next process starts
\* with a snapshot whenever one was ever saved.
THEOREM CrashKeepsLastKnownGood == Spec => LastKnownGoodSurvives
<1>1. DiskInv /\ [Next]_vars
        => [restarts' # restarts /\ disk # NoFile => l1'.snap # Nil]_vars
  <2> SUFFICES ASSUME DiskInv, Next, restarts' # restarts, disk # NoFile
               PROVE  l1'.snap # Nil
    OBVIOUS
  <2> USE DEF netVars, pathVars, lifeVars, diskVars
  <2>1. CASE Restart
    BY <2>1 DEF Restart, hydrated, DiskInv
  <2>2. CASE SourcePublish \/ SourceRestart \/ Emit \/ SourceEnd
    BY <2>2 DEF SourcePublish, SourceRestart, Emit, SourceEmit, SourceEnd
  <2>3. ~(\E p \in Paths : Fetch(p) \/ Apply(p) \/ Cancelled(p))
    BY DEF Fetch, FetchCall, FetchAnswer, FetchFail, Cancelled,
           Apply, ApplyLoad, ApplyStore, ApplyEnqueue, ApplyConfirm
  <2>4. ~Cycle
    BY DEF Cycle, Subscribe, onFrame, HeartbeatHeld, HeartbeatCompare, StreamLost, Backoff
  <2>5. ~Writer
    BY DEF Writer, WriterWake, WriterDone, Save, SaveWrite, SaveSync, SaveRename, SaveFail
  <2>6. ~(Close \/ Closer \/ WaitForReady \/ Release)
    BY DEF Close, Closer, CloseWait, CloseDone, WaitForReady, Release
  <2> QED
    BY <2>1, <2>2, <2>3, <2>4, <2>5, <2>6 DEF Next
<1> QED
  BY <1>1, DiskIsWhole, PTL DEF Spec, LastKnownGoodSurvives

-----------------------------------------------------------------------------
(* What a client holds was published, and what it refuses it has no need of. *)

\* A snapshot the source of now, or an earlier process of it, has built.
Published(s) ==
    /\ s.life \in 1..source.life
    /\ s.gen > 0
    /\ s.life = source.life => s.gen <= source.gen

\* Every place of the client that carries a snapshot or its generation.
Carried ==
    {chan.snap, l1.snap, pending, writing, disk.snap} \cup {resp[p].snap : p \in Paths}

\* Only what came from L2 has no instance, and it alone is marked as such.
KnownInstance ==
    IF l1.snap = Nil \/ l1.fromDisk THEN l1.inst = 0 ELSE l1.inst = l1.snap.life

NothingInvented ==
    /\ source.life > 0
    /\ \A s \in Carried : s = Nil \/ Published(s)
    /\ KnownInstance
    /\ l1.snap = Nil => l1 = NilEntry

\* The two tests a client puts to what a source sends: applyUpdate's staleness rule,
\* on a snapshot, and onFrame's gap rule, on a heartbeat.
Refuses == Stale(l1, [kind |-> "snapshot", snap |-> source])
Confirms ==
    /\ ~instanceChanged(l1, [kind |-> "heartbeat", snap |-> source])
    /\ source.gen <= l1.snap.gen

\* An entry read from a file that an earlier process of the source filled, and whose
\* counter that process had taken as far as the present one.
LeftByTheDead ==
    l1.fromDisk /\ l1.snap.life < source.life /\ l1.snap.gen >= source.gen

NewsIsTaken ==
    source.gen > 0 /\ (Refuses \/ Confirms) => l1.snap = source \/ LeftByTheDead

LEMMA InitInvented == ASSUME Init PROVE NothingInvented
  BY ConstantTypes
     DEF Init, NothingInvented, Carried, KnownInstance, NilEntry, NoFile, NoUpdate, Nil

\* A source only goes forward, so what it has published stays published.
LEMMA StillPublished ==
    ASSUME TypeOK, NEW s \in Snapshot, Published(s),
           \/ SourcePublish \/ SourceRestart \/ source' = source
    PROVE  Published(s)'
<1>0. source.life \in Nat /\ source.gen \in Nat /\ s.life \in Nat /\ s.gen \in Nat
  BY DEF TypeOK, Snapshot
<1>1. CASE SourcePublish
  <2>1. source'.life = source.life /\ source'.gen = source.gen + 1
    BY <1>1 DEF SourcePublish, TypeOK, Snapshot
  <2> QED
    BY <1>0, <2>1 DEF Published
<1>2. CASE SourceRestart
  <2>1. source'.life = source.life + 1
    BY <1>2 DEF SourceRestart
  <2> QED
    BY <1>0, <2>1 DEF Published
<1>3. CASE source' = source
  BY <1>3 DEF Published
<1> QED
  BY <1>1, <1>2, <1>3

LEMMA CarriedTypes == ASSUME TypeOK PROVE Carried \subseteq Snapshot
  BY DEF TypeOK, Carried, Update, Entry, File

\* A step that carries only what was carried, or what the source serves, invents nothing.
LEMMA OnlyCarries ==
    ASSUME TypeOK, NothingInvented,
           \/ SourcePublish \/ SourceRestart \/ source' = source,
           \A s \in Carried' : \/ s \in Carried \/ s = Nil
                               \/ s = source /\ source.gen > 0 /\ source' = source,
           KnownInstance', (l1.snap = Nil => l1 = NilEntry)'
    PROVE  NothingInvented'
<1>0. source.life \in Nat /\ source.gen \in Nat
  BY DEF TypeOK, Snapshot
<1>1. ASSUME NEW s \in Carried' PROVE s = Nil \/ Published(s)'
  <2>1. CASE s \in Carried
    BY <2>1, CarriedTypes, StillPublished DEF NothingInvented
  <2>2. CASE s = source /\ source.gen > 0 /\ source' = source
    BY <1>0, <2>2 DEF NothingInvented, Published
  <2> QED
    BY <1>1, <2>1, <2>2
<1>2. source'.life > 0
  BY <1>0 DEF NothingInvented, SourcePublish, SourceRestart, TypeOK, Snapshot
<1> QED
  BY <1>1, <1>2 DEF NothingInvented

LEMMA PathInvents ==
    ASSUME TypeOK, ConfigInv, NothingInvented, NEW p \in Paths,
           Fetch(p) \/ Apply(p) \/ Cancelled(p)
    PROVE  NothingInvented'
<1> USE DEF netVars, lifeVars, diskVars, Goto
<1>0. /\ resp \in [Paths -> Update] /\ source' = source /\ source.life \in Nat
      /\ l1' = l1 => KnownInstance' /\ (l1.snap = Nil => l1 = NilEntry)'
  BY DEF TypeOK, Snapshot, NothingInvented, KnownInstance, Fetch, FetchCall, FetchAnswer,
         FetchFail, Apply, ApplyLoad, ApplyStore, ApplyEnqueue, ApplyConfirm, Cancelled
<1>1. CASE FetchAnswer(p)
  <2>1. \A q \in Paths : resp'[q].snap \in {resp[q].snap, source} /\ source.gen > 0
    BY <1>0, <1>1 DEF FetchAnswer
  <2>2. UNCHANGED <<chan, l1, pending, writing, disk>>
    BY <1>1 DEF FetchAnswer
  <2>3. \A s \in Carried' : s \in Carried \/ (s = source /\ source.gen > 0)
    BY <2>1, <2>2 DEF Carried
  <2> QED
    BY <1>0, <2>2, <2>3, OnlyCarries
<1>2. CASE ApplyStore(p)
  <2>1. /\ resp[p].snap.gen > 0 /\ resp[p].snap \in Carried /\ resp[p].snap # Nil
    BY <1>2 DEF ApplyStore, ConfigInv, FramesBuilt, Carried, Nil
  <2>2. l1' = [snap |-> resp[p].snap, inst |-> resp[p].snap.life, fromDisk |-> FALSE]
    BY <1>2 DEF ApplyStore
  <2>3. UNCHANGED <<chan, resp, pending, writing, disk>>
    BY <1>2 DEF ApplyStore
  <2>4. \A s \in Carried' : s \in Carried
    BY <2>1, <2>2, <2>3 DEF Carried
  <2>5. KnownInstance' /\ (l1.snap = Nil => l1 = NilEntry)'
    BY <2>1, <2>2 DEF KnownInstance
  <2> QED
    BY <1>0, <2>4, <2>5, OnlyCarries
<1>3. CASE ApplyEnqueue(p)
  <2>1. UNCHANGED <<chan, l1, resp, writing, disk>> /\ pending' = resp[p].snap
    BY <1>3 DEF ApplyEnqueue, pathVars
  <2>2. \A s \in Carried' : s \in Carried
    BY <2>1 DEF Carried
  <2> QED
    BY <1>0, <2>1, <2>2, OnlyCarries
<1>4. CASE FetchCall(p) \/ FetchFail(p) \/ ApplyLoad(p) \/ ApplyConfirm(p) \/ Cancelled(p)
  <2>1. UNCHANGED <<l1, resp, pending, writing, disk>> /\ chan' \in {chan, NoUpdate}
    BY <1>4 DEF FetchCall, FetchFail, ApplyLoad, ApplyConfirm, Cancelled
  <2>2. \A s \in Carried' : s \in Carried \/ s = Nil
    BY <2>1 DEF Carried, NoUpdate
  <2> QED
    BY <1>0, <2>1, <2>2, OnlyCarries
<1> QED
  BY <1>1, <1>2, <1>3, <1>4 DEF Fetch, Apply

LEMMA CycleInvents ==
    ASSUME TypeOK, NothingInvented, Cycle
    PROVE  NothingInvented'
<1> USE DEF netVars, lifeVars, diskVars, Goto
<1>0. /\ "cycle" \in Paths /\ resp \in [Paths -> Update] /\ source.life \in Nat
      /\ UNCHANGED <<source, l1, pending, writing, disk>>
  BY ConstantTypes DEF TypeOK, Snapshot, Cycle, Subscribe, onFrame, HeartbeatHeld,
         HeartbeatCompare, StreamLost, Backoff
<1>1. chan' \in {chan, NoUpdate}
  BY DEF Cycle, Subscribe, onFrame, HeartbeatHeld, HeartbeatCompare, StreamLost, Backoff
<1>2. \A q \in Paths : resp'[q] \in {resp[q], chan}
  BY <1>0 DEF Cycle, Subscribe, onFrame, HeartbeatHeld, HeartbeatCompare, StreamLost, Backoff
<1>3. \A s \in Carried' : s \in Carried \/ s = Nil
  BY <1>0, <1>1, <1>2 DEF Carried, NoUpdate
<1>4. KnownInstance' /\ (l1.snap = Nil => l1 = NilEntry)'
  BY <1>0 DEF NothingInvented, KnownInstance
<1> QED
  BY <1>0, <1>3, <1>4, OnlyCarries

LEMMA WriterInvents ==
    ASSUME TypeOK, NothingInvented, Writer
    PROVE  NothingInvented'
<1> USE DEF netVars, pathVars, lifeVars
<1>0. UNCHANGED <<source, chan, l1, resp>> /\ source.life \in Nat
  BY DEF TypeOK, Snapshot, Writer, WriterWake, WriterDone, Save, SaveWrite, SaveSync,
         SaveRename, SaveFail
<1>1. pending' \in {pending, Nil} /\ writing' \in {writing, pending, Nil}
  BY DEF Writer, WriterWake, WriterDone, Save, SaveWrite, SaveSync, SaveRename, SaveFail,
         SaveReturns
<1>2. disk'.snap \in {disk.snap, writing}
  BY DEF Writer, WriterWake, WriterDone, Save, SaveWrite, SaveSync, SaveRename, SaveFail
<1>3. \A s \in Carried' : s \in Carried \/ s = Nil
  BY <1>0, <1>1, <1>2 DEF Carried
<1>4. KnownInstance' /\ (l1.snap = Nil => l1 = NilEntry)'
  BY <1>0 DEF NothingInvented, KnownInstance
<1> QED
  BY <1>0, <1>3, <1>4, OnlyCarries

LEMMA StepInvents ==
    ASSUME TypeOK, ConfigInv, NothingInvented, [Next]_vars
    PROVE  NothingInvented'
<1> USE DEF netVars, pathVars, lifeVars, diskVars
<1>0. source.life \in Nat /\ source.gen \in Nat
  BY DEF TypeOK, Snapshot
<1>1. ASSUME UNCHANGED <<chan, l1, resp, pending, writing, disk>>,
             SourcePublish \/ SourceRestart \/ source' = source
      PROVE  NothingInvented'
  <2>1. \A s \in Carried' : s \in Carried
    BY <1>1 DEF Carried
  <2>2. KnownInstance' /\ (l1.snap = Nil => l1 = NilEntry)'
    BY <1>1 DEF NothingInvented, KnownInstance
  <2> QED
    BY <1>1, <2>1, <2>2, OnlyCarries
<1>2. CASE Emit
  <2>1. UNCHANGED <<source, l1, resp, pending, writing, disk>>
    BY <1>2 DEF Emit, SourceEmit
  <2>2. chan'.snap = source /\ source.gen > 0
    BY <1>2 DEF Emit, SourceEmit
  <2>3. \A s \in Carried' : s \in Carried \/ (s = source /\ source.gen > 0)
    BY <2>1, <2>2 DEF Carried
  <2>4. KnownInstance' /\ (l1.snap = Nil => l1 = NilEntry)'
    BY <2>1 DEF NothingInvented, KnownInstance
  <2> QED
    BY <1>0, <2>1, <2>3, <2>4, OnlyCarries
<1>3. CASE Restart
  <2>1. /\ UNCHANGED <<source, disk>> /\ chan' = NoUpdate
        /\ \A q \in Paths : resp'[q] = NoUpdate
        /\ pending' = Nil /\ writing' = Nil
    BY <1>3 DEF Restart
  <2>2. l1' = [snap |-> hydrated, inst |-> 0, fromDisk |-> hydrated # Nil]
    BY <1>3 DEF Restart
  <2>3. hydrated \in {disk.snap, Nil}
    BY DEF hydrated
  <2>4. \A s \in Carried' : s \in Carried \/ s = Nil
    BY <2>1, <2>2, <2>3 DEF Carried, NoUpdate
  <2>5. KnownInstance' /\ (l1.snap = Nil => l1 = NilEntry)'
    BY <2>2 DEF KnownInstance, NilEntry
  <2> QED
    BY <1>0, <2>1, <2>4, <2>5, OnlyCarries
<1>4. CASE SourcePublish \/ SourceRestart \/ SourceEnd
  BY <1>1, <1>4 DEF SourcePublish, SourceRestart, SourceEnd
<1>5. CASE Close \/ Closer \/ WaitForReady \/ Release
  BY <1>1, <1>5 DEF Close, Closer, CloseWait, CloseDone, WaitForReady, Release
<1>6. CASE UNCHANGED vars
  BY <1>1, <1>6 DEF vars
<1> QED
  BY <1>2, <1>3, <1>4, <1>5, <1>6, PathInvents, CycleInvents, WriterInvents DEF Next

LEMMA NothingIsInvented == Spec => []NothingInvented
<1>1. Init => ConfigInv /\ NothingInvented
  BY InitConfig, InitInvented
<1>2. TypeOK /\ ConfigInv /\ NothingInvented /\ [Next]_vars => ConfigInv' /\ NothingInvented'
  BY StepConfig, StepInvents
<1> QED
  BY <1>1, <1>2, TypesOK, PTL DEF Spec

\* Whatever its two goroutines raced, dropped or saved, and however often either process
\* was restarted, a client that turns down what the source now serves (applyUpdate takes
\* it for stale, or onFrame finds no gap in its heartbeat) already holds exactly that,
\* with one exception: an entry hydrated from a file that an earlier process of the
\* source filled, which has no instance to tell the two counters apart.
THEOREM OnlyTheDeadHideNews == Spec => []NewsIsTaken
<1>1. TypeOK /\ NothingInvented => NewsIsTaken
  <2> SUFFICES ASSUME TypeOK, NothingInvented, source.gen > 0, Refuses \/ Confirms
               PROVE  l1.snap = source \/ LeftByTheDead
    BY DEF NewsIsTaken
  <2>1. /\ source = [life |-> source.life, gen |-> source.gen]
        /\ l1.snap = [life |-> l1.snap.life, gen |-> l1.snap.gen]
        /\ source.life \in Nat /\ source.gen \in Nat
        /\ l1.snap.life \in Nat /\ l1.snap.gen \in Nat
    BY DEF TypeOK, Entry, Snapshot
  <2>2. l1.snap # Nil
    BY <2>1 DEF NothingInvented, Refuses, Confirms, Stale, NilEntry, Nil
  <2>3. Published(l1.snap) /\ l1 # NilEntry
    BY <2>2 DEF NothingInvented, Carried, NilEntry
  <2>4. /\ l1.inst = 0 \/ l1.inst = source.life
        /\ l1.snap.gen >= source.gen
    BY <2>1, <2>3 DEF Refuses, Confirms, Stale, instanceChanged
  <2>5. CASE l1.fromDisk
    BY <2>1, <2>3, <2>4, <2>5 DEF Published, LeftByTheDead
  <2>6. CASE ~l1.fromDisk
    <3>1. l1.inst = l1.snap.life
      BY <2>2, <2>6 DEF NothingInvented, KnownInstance
    <3>2. l1.snap.life = source.life
      BY <2>1, <2>3, <2>4, <3>1 DEF Published
    <3> QED
      BY <2>1, <2>3, <2>4, <3>2 DEF Published
  <2> QED
    BY <2>5, <2>6
<1> QED
  BY <1>1, NothingIsInvented, TypesOK, PTL

-----------------------------------------------------------------------------
(* One path. With the poll off nothing happens between the steps of an      *)
(* update, and the decision taken on a load of L1 still holds at the store. *)

\* What fetchOnce and onFrame decided to store, L1 still calls for.
StoreInv == pc["cycle"] = "store" => ~Stale(l1, resp["cycle"])

LEMMA StepStore ==
    ASSUME ~Reconcile, TypeOK, StoreInv, [Next]_vars
    PROVE  StoreInv'
<1> USE DEF StoreInv, Goto, netVars, pathVars, lifeVars, diskVars
<1>0. Paths = {"cycle"} /\ pc \in [Paths -> Labels]
  BY DEF Paths, TypeOK
<1>1. CASE UNCHANGED <<l1, pathVars>>
  BY <1>1 DEF Stale, instanceChanged
<1>2. ASSUME pc'["cycle"] # "store" PROVE StoreInv'
  BY <1>2
<1>3. ASSUME ApplyLoad("cycle") PROVE StoreInv'
  BY <1>0, <1>3 DEF ApplyLoad, Stale, instanceChanged
<1>4. ASSUME NEW p \in Paths, Fetch(p) \/ Apply(p) \/ Cancelled(p) PROVE StoreInv'
  BY <1>0, <1>2, <1>3, <1>4
     DEF Fetch, FetchCall, FetchAnswer, FetchFail, Cancelled, Return,
         Apply, ApplyStore, ApplyEnqueue, ApplyConfirm
<1>5. CASE Cycle
  BY <1>0, <1>2, <1>5
     DEF Cycle, Subscribe, onFrame, HeartbeatHeld, HeartbeatCompare, StreamLost, Backoff
<1>6. CASE Restart
  BY <1>0, <1>2, <1>6 DEF Restart
<1>7. CASE SourcePublish \/ SourceRestart \/ Emit \/ SourceEnd
  BY <1>1, <1>7 DEF SourcePublish, SourceRestart, Emit, SourceEmit, SourceEnd
<1>8. CASE Writer
  BY <1>1, <1>8
     DEF Writer, WriterWake, WriterDone, Save, SaveWrite, SaveSync, SaveRename, SaveFail
<1>9. CASE Close \/ Closer \/ WaitForReady \/ Release
  BY <1>1, <1>9 DEF Close, Closer, CloseWait, CloseDone, WaitForReady, Release
<1>10. CASE UNCHANGED vars
  BY <1>1, <1>10 DEF vars
<1> QED
  BY <1>4, <1>5, <1>6, <1>7, <1>8, <1>9, <1>10 DEF Next

LEMMA StepForward ==
    ASSUME ~Reconcile, TypeOK, StoreInv, [Next]_vars, restarts' = restarts,
           l1.inst \in {0, l1'.inst}
    PROVE  l1'.snap.gen >= l1.snap.gen
<1> USE DEF netVars, pathVars, lifeVars, diskVars
<1>0. Paths = {"cycle"} /\ l1.snap.gen \in Nat
  BY DEF Paths, TypeOK, Entry, Snapshot
<1>1. CASE l1' = l1
  BY <1>0, <1>1
<1>2. CASE ApplyStore("cycle")
  <2>1. resp["cycle"] \in Update /\ l1' \in Entry
    BY <1>0, <1>2 DEF ApplyStore, TypeOK, Update, Entry, Snapshot
  <2>2. ~Stale(l1, resp["cycle"])
    BY <1>2 DEF ApplyStore, StoreInv
  <2>3. l1'.inst = resp["cycle"].snap.life /\ l1'.snap = resp["cycle"].snap
    BY <1>2 DEF ApplyStore
  <2>4. ~instanceChanged(l1, resp["cycle"])
    BY <2>3 DEF instanceChanged
  <2>5. CASE l1 = NilEntry
    BY <2>1, <2>5 DEF NilEntry, Nil, Entry, Snapshot
  <2>6. CASE l1 # NilEntry
    BY <1>0, <2>1, <2>2, <2>3, <2>4, <2>6 DEF Stale, Update, Snapshot
  <2> QED
    BY <2>5, <2>6
<1>3. ASSUME NEW p \in Paths, Fetch(p) \/ Apply(p) \/ Cancelled(p)
      PROVE  l1' = l1 \/ ApplyStore("cycle")
  BY <1>0, <1>3 DEF Fetch, FetchCall, FetchAnswer, FetchFail, Cancelled,
                    Apply, ApplyLoad, ApplyEnqueue, ApplyConfirm
<1>4. ASSUME Cycle PROVE l1' = l1
  BY <1>4
     DEF Cycle, Subscribe, onFrame, HeartbeatHeld, HeartbeatCompare, StreamLost, Backoff
<1>5. ~Restart
  BY DEF Restart, TypeOK
<1>6. ASSUME SourcePublish \/ SourceRestart \/ Emit \/ SourceEnd PROVE l1' = l1
  BY <1>6 DEF SourcePublish, SourceRestart, Emit, SourceEmit, SourceEnd
<1>7. ASSUME Writer PROVE l1' = l1
  BY <1>7
     DEF Writer, WriterWake, WriterDone, Save, SaveWrite, SaveSync, SaveRename, SaveFail
<1>8. ASSUME Close \/ Closer \/ WaitForReady \/ Release PROVE l1' = l1
  BY <1>8 DEF Close, Closer, CloseWait, CloseDone, WaitForReady, Release
<1>9. ASSUME UNCHANGED vars PROVE l1' = l1
  BY <1>9 DEF vars
<1> QED
  BY <1>1, <1>2, <1>3, <1>4, <1>5, <1>6, <1>7, <1>8, <1>9 DEF Next

\* With one path, L1 never goes back to an older generation of the same source
\* process: the comparison of applyUpdate is taken on the entry the store replaces.
\* With the reconcile poll it is not, and the client can rewind.
THEOREM OnePathNeverRewinds == ASSUME ~Reconcile PROVE Spec => NeverRewinds
<1>1. Init => StoreInv
  BY ConstantTypes DEF Init, StoreInv
<1>2. TypeOK /\ StoreInv /\ [Next]_vars => StoreInv'
  BY StepStore
<1>3. TypeOK /\ StoreInv /\ [Next]_vars
        => [ restarts' = restarts /\ l1.inst \in {0, l1'.inst}
               => l1'.snap.gen >= l1.snap.gen ]_vars
  BY StepForward
<1> QED
  BY <1>1, <1>2, <1>3, TypesOK, PTL DEF Spec, NeverRewinds

-----------------------------------------------------------------------------
(* The last snapshot, on its way from L1 to the file.                      *)

\* Close lets the writer finish only after the goroutines, and returns after it.
ShutInv ==
    /\ closer \in {"flushing", "closed"} => \A p \in Paths : pc[p] = "done"
    /\ L2 /\ writer \in {"final", "exited"}
         => closer \in {"flushing", "closed"} /\ pending = Nil
    /\ closer = "closed" => writer = "exited"

\* What L1 serves is in the hands of the path, in the mailbox, being written or saved.
FlushInv ==
    L2 => IF pc["cycle"] = "enqueue" THEN resp["cycle"].snap = l1.snap
          ELSE IF pending # Nil THEN pending = l1.snap
          ELSE IF Saving THEN writing = l1.snap
          ELSE ~saveErr => disk.snap = l1.snap

LEMMA InitShut == ASSUME Init PROVE ShutInv /\ FlushInv
<1>1. closer = "open" /\ (L2 => writer = "idle")
  BY DEF Init
<1>2. pc["cycle"] = "top" /\ pending = Nil /\ disk.snap = l1.snap
  BY ConstantTypes DEF Init, NoFile, NilEntry
<1> QED
  BY <1>1, <1>2 DEF ShutInv, FlushInv, Saving

LEMMA StepShut ==
    ASSUME TypeOK, PlaceInv, ShutInv, [Next]_vars
    PROVE  ShutInv'
<1> USE DEF ShutInv, Goto, netVars, pathVars, lifeVars, diskVars
<1>0. pc \in [Paths -> Labels] /\ "cycle" \in Paths
  BY ConstantTypes DEF TypeOK
<1>1. CASE UNCHANGED <<pc, closer, writer, pending>>
  BY <1>1
<1>2. ASSUME NEW p \in Paths, Fetch(p) \/ Apply(p) PROVE ShutInv'
  <2>1. pc[p] # "done"
    BY <1>2 DEF Fetch, FetchCall, FetchAnswer, FetchFail,
                Apply, ApplyLoad, ApplyStore, ApplyEnqueue, ApplyConfirm
  <2>2. UNCHANGED <<closer, writer>>
    BY <1>2 DEF Fetch, FetchCall, FetchAnswer, FetchFail,
                Apply, ApplyLoad, ApplyStore, ApplyEnqueue, ApplyConfirm
  <2>3. closer \notin {"flushing", "closed"}
    BY <2>1
  <2>4. ~L2 => writer = "exited"
    BY DEF PlaceInv
  <2> QED
    BY <2>2, <2>3, <2>4
<1>3. ASSUME NEW p \in Paths, Cancelled(p) PROVE ShutInv'
  BY <1>0, <1>3 DEF Cancelled
<1>4. CASE Cycle
  <2>1. pc["cycle"] # "done" /\ UNCHANGED <<closer, writer, pending>>
    BY <1>4
       DEF Cycle, Subscribe, onFrame, HeartbeatHeld, HeartbeatCompare, StreamLost, Backoff
  <2> QED
    BY <1>0, <2>1
<1>5. CASE WriterWake
  BY <1>5 DEF WriterWake
<1>6. CASE WriterDone
  BY <1>6 DEF WriterDone
<1>7. CASE SaveWrite \/ SaveSync
  BY <1>1, <1>7 DEF SaveWrite, SaveSync
<1>8. CASE SaveRename
  BY <1>8 DEF SaveRename, SaveReturns, Saving
<1>9. CASE SaveFail
  BY <1>9 DEF SaveFail, SaveReturns, Saving
<1>10. CASE Close \/ WaitForReady \/ Release
  BY <1>10 DEF Close, WaitForReady, Release
<1>11. CASE Closer
  BY <1>11 DEF Closer, CloseWait, CloseDone
<1>12. CASE Restart
  BY <1>12, ConstantTypes DEF Restart
<1>13. CASE SourcePublish \/ SourceRestart \/ Emit \/ SourceEnd
  BY <1>1, <1>13 DEF SourcePublish, SourceRestart, Emit, SourceEmit, SourceEnd
<1>14. CASE UNCHANGED vars
  BY <1>1, <1>14 DEF vars
<1> QED
  BY <1>2, <1>3, <1>4, <1>5, <1>6, <1>7, <1>8, <1>9, <1>10, <1>11, <1>12, <1>13, <1>14
     DEF Next, Writer, Save

LEMMA StepFlush ==
    ASSUME ~Reconcile, TypeOK, ConfigInv, DiskInv, ShutInv, FlushInv, [Next]_vars
    PROVE  FlushInv'
<1> USE DEF FlushInv, Goto, netVars, pathVars, lifeVars, diskVars
<1>0. Paths = {"cycle"} /\ pc \in [Paths -> Labels] /\ resp \in [Paths -> Update]
  BY DEF Paths, TypeOK
<1> DEFINE kept == <<l1, writer, pending, writing, disk, saveErr>>
<1>1. ASSUME UNCHANGED kept, pc["cycle"] # "enqueue", pc'["cycle"] # "enqueue"
      PROVE  FlushInv'
  BY <1>1 DEF Saving
<1>2. ASSUME UNCHANGED <<kept, pathVars>> PROVE FlushInv'
  BY <1>2 DEF Saving
<1>3. CASE ApplyStore("cycle")
  BY <1>0, <1>3 DEF ApplyStore
<1>4. CASE ApplyEnqueue("cycle")
  <2>1. resp["cycle"].snap.gen > 0 /\ (L2 => resp["cycle"].snap = l1.snap)
    BY <1>0, <1>4 DEF ApplyEnqueue, ConfigInv, FramesBuilt
  <2> QED
    BY <1>0, <1>4, <2>1 DEF ApplyEnqueue, Nil
<1>5. ASSUME NEW p \in Paths, Fetch(p) \/ Apply(p) \/ Cancelled(p) PROVE FlushInv'
  BY <1>0, <1>1, <1>3, <1>4, <1>5
     DEF Fetch, FetchCall, FetchAnswer, FetchFail, Cancelled, Return,
         Apply, ApplyLoad, ApplyConfirm
<1>6. CASE Cycle
  BY <1>0, <1>1, <1>6
     DEF Cycle, Subscribe, onFrame, HeartbeatHeld, HeartbeatCompare, StreamLost, Backoff
<1>7. CASE WriterWake
  BY <1>7 DEF WriterWake, Saving
<1>8. CASE WriterDone
  BY <1>8 DEF WriterDone, Saving
<1>9. CASE SaveWrite \/ SaveSync
  BY <1>2, <1>9 DEF SaveWrite, SaveSync
<1>10. CASE SaveRename
  BY <1>10 DEF SaveRename, SaveReturns, Saving
<1>11. CASE SaveFail
  BY <1>11 DEF SaveFail, SaveReturns, Saving
<1>12. CASE Close \/ Closer \/ WaitForReady \/ Release
  BY <1>2, <1>12 DEF Close, Closer, CloseWait, CloseDone, WaitForReady, Release
<1>13. CASE Restart
  <2>1. hydrated = disk.snap
    BY DEF hydrated, DiskInv, NoFile
  <2>2. pc'["cycle"] = "top" /\ pending' = Nil /\ (L2 => writer' = "idle")
    BY <1>13, ConstantTypes DEF Restart
  <2>3. l1'.snap = disk'.snap
    BY <1>13, <2>1 DEF Restart
  <2> QED
    BY <2>2, <2>3 DEF Saving
<1>14. CASE SourcePublish \/ SourceRestart \/ Emit \/ SourceEnd
  BY <1>2, <1>14 DEF SourcePublish, SourceRestart, Emit, SourceEmit, SourceEnd
<1>15. CASE UNCHANGED vars
  BY <1>2, <1>15 DEF vars
<1> QED
  BY <1>5, <1>6, <1>7, <1>8, <1>9, <1>10, <1>11, <1>12, <1>13, <1>14, <1>15
     DEF Next, Writer, Save

\* When Close has returned and the last Save did not fail, the L2 file holds what the
\* client served last: the goroutines end before the writer is told to, and the writer
\* drains its mailbox once more (cache.close, asyncWriter.run). With the reconcile poll
\* two goroutines may queue in the other order than they stored.
THEOREM OnePathFlushedOnClose == ASSUME ~Reconcile PROVE Spec => []FlushedOnClose
<1> DEFINE IInv == ConfigInv /\ ShutInv /\ FlushInv
<1>1. Init => IInv
  BY InitConfig, InitShut
<1>2. (TypeOK /\ PlaceInv) /\ DiskInv /\ IInv /\ [Next]_vars => IInv'
  BY StepConfig, StepShut, StepFlush
<1>3. IInv => FlushedOnClose
  <2> SUFFICES ASSUME IInv, closer = "closed", L2, ~saveErr
               PROVE  disk.snap = l1.snap
    BY DEF FlushedOnClose
  <2>1. pc["cycle"] = "done" /\ writer = "exited" /\ pending = Nil
    BY ConstantTypes DEF ShutInv
  <2> QED
    BY <2>1 DEF FlushInv, Saving
<1> HIDE DEF IInv
<1> QED
  BY <1>1, <1>2, <1>3, Types, DiskIsWhole, PTL DEF Spec

-----------------------------------------------------------------------------
(* On whose word the client is HEALTHY. One path, and one restart of either *)
(* process: with both restarted, an entry of the first source process comes *)
(* back from the L2 file without the name of that process.                  *)

\* A snapshot names the process that built it, which is the first one until it restarts.
Signed(s) == s.life > 0 /\ (source.life = 1 => s.life = 1)

SignedInv ==
    /\ source.life > 0
    /\ chan # NoUpdate => Signed(chan.snap)
    /\ \A p \in Paths :
         pc[p] \in {"apply", "store", "enqueue", "confirm", "heartbeat", "compare"}
           => Signed(resp[p].snap)
    /\ l1 # NilEntry => Signed(l1.snap)
    /\ \A s \in {pending, writing, disk.snap} : s # Nil => Signed(s)

\* What was not read from the file carries the name of its process.
NamedInv == restarts = 0 /\ l1 # NilEntry => l1.inst = l1.snap.life

\* Only one of the two processes has restarted.
OneRestart == source.life = 1 \/ restarts = 0

\* A path that is about to confirm has the word of the process that built L1.
OwnInv == pc["cycle"] \in {"enqueue", "confirm"} => resp["cycle"].snap.life = l1.snap.life

LEMMA InitOwn == ASSUME Init PROVE SignedInv /\ NamedInv /\ OneRestart /\ OwnInv
  BY ConstantTypes DEF Init, SignedInv, NamedInv, OneRestart, OwnInv, NoFile

LEMMA StepRestarts ==
    ASSUME MaxIncidents <= 1, TypeOK, SignedInv, OneRestart, [Next]_vars
    PROVE  OneRestart'
<1> USE DEF OneRestart, netVars, pathVars, lifeVars, diskVars
<1>1. source.life \in Nat /\ restarts \in Nat /\ source.life > 0 /\ MaxIncidents \in Nat
  BY DEF TypeOK, Snapshot, SignedInv
<1>2. CASE SourceRestart
  BY <1>1, <1>2 DEF SourceRestart, Incidents
<1>3. CASE Restart
  BY <1>1, <1>3 DEF Restart, Incidents
<1>4. CASE SourcePublish
  BY <1>4 DEF SourcePublish
<1>5. CASE Emit \/ SourceEnd
  BY <1>5 DEF Emit, SourceEmit, SourceEnd
<1>6. ASSUME NEW p \in Paths, Fetch(p) \/ Apply(p) \/ Cancelled(p) PROVE OneRestart'
  BY <1>6 DEF Fetch, FetchCall, FetchAnswer, FetchFail, Cancelled,
              Apply, ApplyLoad, ApplyStore, ApplyEnqueue, ApplyConfirm
<1>7. CASE Cycle
  BY <1>7
     DEF Cycle, Subscribe, onFrame, HeartbeatHeld, HeartbeatCompare, StreamLost, Backoff
<1>8. CASE Writer
  BY <1>8
     DEF Writer, WriterWake, WriterDone, Save, SaveWrite, SaveSync, SaveRename, SaveFail
<1>9. CASE Close \/ Closer \/ WaitForReady \/ Release
  BY <1>9 DEF Close, Closer, CloseWait, CloseDone, WaitForReady, Release
<1>10. CASE UNCHANGED vars
  BY <1>10 DEF vars
<1> QED
  BY <1>2, <1>3, <1>4, <1>5, <1>6, <1>7, <1>8, <1>9, <1>10 DEF Next

\* The steps of a path and of the writer carry a signed snapshot from one place to the
\* next; only a source that answers or sends makes a new one.
LEMMA PathSigned ==
    ASSUME TypeOK, ConfigInv, SignedInv,
           NEW p \in Paths, Fetch(p) \/ Apply(p) \/ Cancelled(p)
    PROVE  SignedInv'
<1> USE DEF SignedInv, Signed, Goto, netVars, lifeVars, diskVars
<1>0. pc \in [Paths -> Labels] /\ resp \in [Paths -> Update]
  BY DEF TypeOK
<1>1. CASE FetchCall(p)
  BY <1>0, <1>1 DEF FetchCall
<1>2. CASE FetchAnswer(p)
  BY <1>0, <1>2 DEF FetchAnswer
<1>3. CASE FetchFail(p)
  BY <1>0, <1>3 DEF FetchFail, Return
<1>4. CASE ApplyLoad(p)
  BY <1>0, <1>4 DEF ApplyLoad
<1>5. CASE ApplyStore(p)
  BY <1>0, <1>5 DEF ApplyStore
<1>6. CASE ApplyEnqueue(p)
  BY <1>0, <1>6 DEF ApplyEnqueue
<1>7. CASE ApplyConfirm(p)
  BY <1>0, <1>7 DEF ApplyConfirm, Return
<1>8. CASE Cancelled(p)
  BY <1>0, <1>8 DEF Cancelled
<1> QED
  BY <1>1, <1>2, <1>3, <1>4, <1>5, <1>6, <1>7, <1>8 DEF Fetch, Apply

LEMMA CycleSigned ==
    ASSUME TypeOK, SignedInv, Cycle
    PROVE  SignedInv'
<1> USE DEF SignedInv, Signed, Goto, netVars, lifeVars, diskVars
<1>0. "cycle" \in Paths /\ pc \in [Paths -> Labels] /\ resp \in [Paths -> Update]
  BY ConstantTypes DEF TypeOK
<1>1. CASE Subscribe
  BY <1>0, <1>1 DEF Subscribe
<1>2. CASE onFrame
  BY <1>0, <1>2 DEF onFrame
<1>3. CASE HeartbeatHeld \/ HeartbeatCompare
  BY <1>0, <1>3 DEF HeartbeatHeld, HeartbeatCompare
<1>4. CASE StreamLost
  BY <1>0, <1>4 DEF StreamLost
<1>5. CASE Backoff
  BY <1>0, <1>5 DEF Backoff
<1> QED
  BY <1>1, <1>2, <1>3, <1>4, <1>5 DEF Cycle

LEMMA StepSigned ==
    ASSUME TypeOK, ConfigInv, SignedInv, [Next]_vars
    PROVE  SignedInv'
<1> USE DEF netVars, pathVars, lifeVars
<1>1. CASE UNCHANGED <<source, chan, l1, pathVars, pending, writing, disk>>
  BY <1>1 DEF SignedInv, Signed
<1>2. CASE SourceRestart
  <2>1. source.life \in Nat /\ source'.life = source.life + 1
    BY <1>2 DEF SourceRestart, TypeOK, Snapshot
  <2>2. ASSUME NEW s, Signed(s) PROVE Signed(s)'
    BY <2>1, <2>2 DEF Signed, SignedInv
  <2> QED
    BY <1>2, <2>1, <2>2 DEF SourceRestart, SignedInv, diskVars
<1>3. CASE SourcePublish
  BY <1>3 DEF SourcePublish, SignedInv, Signed, diskVars
<1>4. CASE Emit
  BY <1>4 DEF Emit, SourceEmit, SignedInv, Signed, diskVars
<1>5. CASE WriterWake \/ WriterDone
  BY <1>5 DEF WriterWake, WriterDone, SignedInv, Signed
<1>6. CASE SaveRename
  BY <1>6 DEF SaveRename, SaveReturns, SignedInv, Signed
<1>7. CASE SaveFail
  BY <1>7 DEF SaveFail, SaveReturns, SignedInv, Signed
<1>8. CASE Restart
  <2>1. hydrated # Nil => Signed(hydrated)
    BY DEF hydrated, SignedInv
  <2>2. l1' # NilEntry => l1'.snap = hydrated /\ hydrated # Nil
    BY <1>8 DEF Restart, NilEntry
  <2> QED
    BY <1>8, <2>1, <2>2, ConstantTypes DEF Restart, SignedInv, Signed
<1>9. CASE SourceEnd
  BY <1>1, <1>9 DEF SourceEnd, diskVars
<1>10. CASE SaveWrite \/ SaveSync
  BY <1>1, <1>10 DEF SaveWrite, SaveSync
<1>11. CASE Close \/ Closer \/ WaitForReady \/ Release
  BY <1>1, <1>11 DEF Close, Closer, CloseWait, CloseDone, WaitForReady, Release, diskVars
<1>12. CASE UNCHANGED vars
  BY <1>1, <1>12 DEF vars, diskVars
<1> QED
  BY <1>2, <1>3, <1>4, <1>5, <1>6, <1>7, <1>8, <1>9, <1>10, <1>11, <1>12,
     PathSigned, CycleSigned DEF Next, Writer, Save

\* Only a store names the process of an entry, and only New makes one that has no name.
LEMMA StepNamed ==
    ASSUME TypeOK, NamedInv, [Next]_vars
    PROVE  NamedInv'
<1> USE DEF NamedInv, netVars, pathVars, lifeVars, diskVars
<1>1. CASE UNCHANGED <<l1, restarts>>
  BY <1>1
<1>2. ASSUME NEW p \in Paths, Fetch(p) \/ Apply(p) \/ Cancelled(p) PROVE NamedInv'
  BY <1>2 DEF Fetch, FetchCall, FetchAnswer, FetchFail, Cancelled,
              Apply, ApplyLoad, ApplyStore, ApplyEnqueue, ApplyConfirm
<1>3. CASE Restart
  BY <1>3 DEF Restart, TypeOK
<1>4. CASE SourcePublish \/ SourceRestart \/ Emit \/ SourceEnd
  BY <1>1, <1>4 DEF SourcePublish, SourceRestart, Emit, SourceEmit, SourceEnd
<1>5. CASE Cycle
  BY <1>1, <1>5
     DEF Cycle, Subscribe, onFrame, HeartbeatHeld, HeartbeatCompare, StreamLost, Backoff
<1>6. CASE Writer
  BY <1>1, <1>6
     DEF Writer, WriterWake, WriterDone, Save, SaveWrite, SaveSync, SaveRename, SaveFail
<1>7. CASE Close \/ Closer \/ WaitForReady \/ Release
  BY <1>1, <1>7 DEF Close, Closer, CloseWait, CloseDone, WaitForReady, Release
<1>8. CASE UNCHANGED vars
  BY <1>1, <1>8 DEF vars
<1> QED
  BY <1>2, <1>3, <1>4, <1>5, <1>6, <1>7, <1>8 DEF Next

\* An update that does not call for a store although there is an entry, by applyUpdate's
\* rule or by that of a heartbeat, is of the process that built the entry.
LEMMA SameProcess ==
    ASSUME TypeOK, SignedInv, NamedInv, OneRestart, l1 # NilEntry,
           NEW up \in Update, Signed(up.snap), ~instanceChanged(l1, up)
    PROVE  up.snap.life = l1.snap.life
<1>1. Signed(l1.snap)
  BY DEF SignedInv
<1>2. CASE source.life = 1
  BY <1>1, <1>2 DEF Signed
<1>3. CASE restarts = 0
  BY <1>1, <1>3 DEF NamedInv, Signed, instanceChanged, TypeOK, Entry, Snapshot
<1> QED
  BY <1>2, <1>3 DEF OneRestart

LEMMA StepOwn ==
    ASSUME ~Reconcile, TypeOK, ConfigInv, SignedInv, NamedInv, OneRestart, OwnInv, [Next]_vars
    PROVE  OwnInv'
<1> USE DEF OwnInv, Goto, netVars, pathVars, lifeVars, diskVars
<1>0. /\ Paths = {"cycle"} /\ pc \in [Paths -> Labels] /\ resp \in [Paths -> Update]
      /\ held \in [Paths -> Nat]
  BY DEF Paths, TypeOK
<1>1. CASE UNCHANGED <<l1, pathVars>>
  BY <1>1
<1>2. ASSUME pc'["cycle"] \notin {"enqueue", "confirm"} PROVE OwnInv'
  BY <1>2
<1>3. CASE ApplyLoad("cycle")
  <2>1. Signed(resp["cycle"].snap)
    BY <1>0, <1>3 DEF ApplyLoad, SignedInv
  <2>2. Stale(l1, resp["cycle"]) => resp["cycle"].snap.life = l1.snap.life
    BY <1>0, <2>1, SameProcess DEF Stale
  <2> QED
    BY <1>0, <1>3, <2>2 DEF ApplyLoad
<1>4. CASE ApplyStore("cycle")
  BY <1>0, <1>4 DEF ApplyStore
<1>5. CASE ApplyEnqueue("cycle")
  BY <1>0, <1>5 DEF ApplyEnqueue
<1>6. CASE HeartbeatCompare
  <2>1. CASE pc'["cycle"] = "confirm"
    <3>1. ~instanceChanged(l1, resp["cycle"]) /\ ~(resp["cycle"].snap.gen > held["cycle"])
      BY <1>0, <1>6, <2>1 DEF HeartbeatCompare
    <3>2. Signed(resp["cycle"].snap) /\ resp["cycle"].snap.gen > 0
      BY <1>0, <1>6 DEF HeartbeatCompare, SignedInv, ConfigInv, FramesBuilt
    <3>3. held["cycle"] > 0
      BY <1>0, <3>1, <3>2 DEF Update, Snapshot
    <3>4. l1 # NilEntry
      BY <1>6, <3>3 DEF HeartbeatCompare, ConfigInv, StoredFirst
    <3> QED
      BY <1>0, <1>6, <3>1, <3>2, <3>4, SameProcess DEF HeartbeatCompare
  <2> QED
    BY <1>0, <1>6, <2>1 DEF HeartbeatCompare
<1>7. ASSUME NEW p \in Paths, Fetch(p) \/ Apply(p) \/ Cancelled(p) PROVE OwnInv'
  BY <1>0, <1>2, <1>3, <1>4, <1>5, <1>7
     DEF Fetch, FetchCall, FetchAnswer, FetchFail, Cancelled, Return, Apply, ApplyConfirm
<1>8. CASE Cycle
  BY <1>0, <1>2, <1>6, <1>8
     DEF Cycle, Subscribe, onFrame, HeartbeatHeld, StreamLost, Backoff
<1>9. CASE Restart
  BY <1>0, <1>2, <1>9 DEF Restart
<1>10. CASE SourcePublish \/ SourceRestart \/ Emit \/ SourceEnd
  BY <1>1, <1>10 DEF SourcePublish, SourceRestart, Emit, SourceEmit, SourceEnd
<1>11. CASE Writer
  BY <1>1, <1>11
     DEF Writer, WriterWake, WriterDone, Save, SaveWrite, SaveSync, SaveRename, SaveFail
<1>12. CASE Close \/ Closer \/ WaitForReady \/ Release
  BY <1>1, <1>12 DEF Close, Closer, CloseWait, CloseDone, WaitForReady, Release
<1>13. CASE UNCHANGED vars
  BY <1>1, <1>13 DEF vars
<1> QED
  BY <1>7, <1>8, <1>9, <1>10, <1>11, <1>12, <1>13 DEF Next

\* The state becomes HEALTHY only where a path confirms.
LEMMA OnlyConfirmsHeal ==
    ASSUME [Next]_vars, state' = "HEALTHY", state # "HEALTHY"
    PROVE  \E p \in Paths : ApplyConfirm(p)
<1> USE DEF netVars, pathVars, lifeVars, diskVars
<1>1. ~(SourcePublish \/ SourceRestart \/ Emit \/ SourceEnd)
  BY DEF SourcePublish, SourceRestart, Emit, SourceEmit, SourceEnd
<1>2. ASSUME NEW p \in Paths, Fetch(p) \/ Apply(p) \/ Cancelled(p)
      PROVE  ApplyConfirm(p)
  BY <1>2 DEF Fetch, FetchCall, FetchAnswer, FetchFail, Cancelled,
              Apply, ApplyLoad, ApplyStore, ApplyEnqueue
<1>3. ~Cycle
  BY DEF Cycle, Subscribe, onFrame, HeartbeatHeld, HeartbeatCompare, StreamLost, Backoff,
         degrade, set
<1>4. ~Writer
  BY DEF Writer, WriterWake, WriterDone, Save, SaveWrite, SaveSync, SaveRename, SaveFail
<1>5. ~(Close \/ Closer \/ WaitForReady \/ Release)
  BY DEF Close, Closer, CloseWait, CloseDone, WaitForReady, Release, set
<1>6. ~Restart
  BY DEF Restart
<1>7. ~UNCHANGED vars
  BY DEF vars
<1> QED
  BY <1>1, <1>2, <1>3, <1>4, <1>5, <1>6, <1>7 DEF Next

\* With one path, and one restart of either process, the client becomes HEALTHY on the
\* word of a source process only while it serves what that process built
\* (Update.InstanceID in applyUpdate and onFrame). With the reconcile poll the other
\* goroutine may store in between; with two restarts the file forgets the process.
THEOREM OneRestartHealsOnOwn ==
    ASSUME ~Reconcile, MaxIncidents <= 1 PROVE Spec => HealthyOnOwnSource
<1> DEFINE IInv == ConfigInv /\ SignedInv /\ NamedInv /\ OneRestart /\ OwnInv
<1>1. Init => IInv
  BY InitConfig, InitOwn
<1>2. TypeOK /\ IInv /\ [Next]_vars => IInv'
  BY StepConfig, StepSigned, StepNamed, StepRestarts, StepOwn
<1>3. IInv /\ [Next]_vars
        => [ state' = "HEALTHY" /\ state # "HEALTHY"
               => \E p \in Paths : pc[p] = "confirm" /\ resp[p].snap.life = l1.snap.life ]_vars
  <2> SUFFICES ASSUME IInv, [Next]_vars, state' = "HEALTHY", state # "HEALTHY"
               PROVE  \E p \in Paths : pc[p] = "confirm" /\ resp[p].snap.life = l1.snap.life
    OBVIOUS
  <2>1. PICK p \in Paths : ApplyConfirm(p)
    BY OnlyConfirmsHeal
  <2>2. p = "cycle" /\ pc[p] = "confirm"
    BY <2>1 DEF Paths, ApplyConfirm
  <2> QED
    BY <2>2 DEF OwnInv
<1> HIDE DEF IInv
<1> QED
  BY <1>1, <1>2, <1>3, TypesOK, PTL DEF Spec, HealthyOnOwnSource
=============================================================================
