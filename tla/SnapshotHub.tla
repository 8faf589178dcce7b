---------------------------- MODULE SnapshotHub ----------------------------
(***************************************************************************)
(* One environment's publication slot, envState of                         *)
(* src/internal/config/store.go: the pointer readers load, and the fan-out *)
(* of published snapshots to subscribers.                                  *)
(*                                                                         *)
(* A build (there is one at a time: Store.mu) swaps the pointer and then   *)
(* fans the snapshot out under subMu, one select statement at a time.      *)
(* Subscribers register, receive and cancel on goroutines of their own and *)
(* interleave with every one of those steps.                               *)
(***************************************************************************)
EXTENDS Naturals

CONSTANTS
    Subscribers,  \* calls of Subscribe; each gets an id of its own (nextID)
    Readers,      \* the subscribers that keep reading their channel
    Contents,     \* what a client can tell apart: (Fingerprint, QuarantinedKeys)
    NoContent,    \* the content of "no snapshot"
    MaxGen        \* bound on the number of publications explored

ASSUME SubscribersAssumption == Readers \subseteq Subscribers
ASSUME ContentsAssumption == NoContent \notin Contents
ASSUME MaxGenAssumption == MaxGen \in Nat

VARIABLES
    cur,      \* envState.cur: the snapshot readers load
    gen,      \* envState.gen
    pc,       \* where the build that holds Store.mu is
    snap,     \* notify's argument
    todo,     \* the channels notify's range loop has not visited
    target,   \* the channel notify is in the middle of replacing
    subMu,    \* whether notify holds subMu
    status,   \* per subscriber: none, ensured, live, closed
    buf,      \* per subscriber: the one buffer slot of its channel
    last      \* per subscriber: the snapshot it received last

vars == <<cur, gen, pc, snap, todo, target, subMu, status, buf, last>>
pubVars == <<pc, snap, todo, target, subMu>>

Snapshot == [gen : Nat, content : Contents \cup {NoContent}]

\* A nil *ResolvedSnapshot, and an empty buffer slot. Generations start at 1.
Nil == [gen |-> 0, content |-> NoContent]

Live == {s \in Subscribers : status[s] = "live"}

Init ==
    /\ cur = Nil
    /\ gen = 0
    /\ pc = "idle"
    /\ snap = Nil
    /\ todo = {}
    /\ target \in Subscribers
    /\ subMu = FALSE
    /\ status = [s \in Subscribers |-> "none"]
    /\ buf = [s \in Subscribers |-> Nil]
    /\ last = [s \in Subscribers |-> Nil]

-----------------------------------------------------------------------------
(* The publisher: the tail of buildEnvLocked, then notify.                 *)

\* (Mutation) The swap is missing: subscribers hear of a snapshot no reader loads.
Publish_NoSwap(c) ==
    /\ pc = "idle"
    /\ gen < MaxGen
    /\ gen' = gen + 1
    /\ snap' = [gen |-> gen + 1, content |-> c]
    /\ pc' = "lock"
    /\ UNCHANGED <<cur, todo, target, subMu, status, buf, last>>

\* (Mutation) The build lock is released before the fan-out: a second build swaps
\* while the first is fanning out.
Publish_DuringFanOut(c) ==
    /\ gen < MaxGen
    /\ gen' = gen + 1
    /\ cur' = [gen |-> gen + 1, content |-> c]
    /\ IF pc # "idle" \/ (cur # Nil /\ cur.content = c)
         THEN UNCHANGED pubVars
         ELSE /\ pc' = "lock"
              /\ snap' = cur'
              /\ UNCHANGED <<todo, target, subMu>>
    /\ UNCHANGED <<status, buf, last>>

\* The generation always advances; subscribers are woken only when the content
\* differs from what was served before. A build that is rejected never gets
\* here, and changes nothing in this module.
Publish(c) ==
    /\ pc = "idle"
    /\ gen < MaxGen
    /\ gen' = gen + 1
    /\ cur' = [gen |-> gen + 1, content |-> c]
    /\ IF cur # Nil /\ cur.content = c
         THEN UNCHANGED pubVars
         ELSE /\ pc' = "lock"
              /\ snap' = cur'
              /\ UNCHANGED <<todo, target, subMu>>
    /\ UNCHANGED <<status, buf, last>>

NotifyLock ==
    /\ pc = "lock"
    /\ ~subMu
    /\ subMu' = TRUE
    /\ todo' = Live
    /\ pc' = "range"
    /\ UNCHANGED <<cur, gen, snap, target, status, buf, last>>

\* case ch <- snap: the slot is free.
NotifySend(s) ==
    /\ pc = "range"
    /\ s \in todo
    /\ buf[s] = Nil
    /\ buf' = [buf EXCEPT ![s] = snap]
    /\ todo' = todo \ {s}
    /\ UNCHANGED <<cur, gen, pc, snap, target, subMu, status, last>>

\* (Mutation) A blocking send: a full slot is waited for.
NotifyFull_Blocks(s) ==
    /\ pc = "range"
    /\ s \in todo
    /\ buf[s] # Nil
    /\ FALSE
    /\ UNCHANGED vars

\* default: the slot is taken, the superseded snapshot is to be replaced.
NotifyFull(s) ==
    /\ pc = "range"
    /\ s \in todo
    /\ buf[s] # Nil
    /\ target' = s
    /\ pc' = "drain"
    /\ UNCHANGED <<cur, gen, snap, todo, subMu, status, buf, last>>

\* (Mutation) The superseded snapshot is not discarded.
NotifyDrain_Keeps ==
    /\ pc = "drain"
    /\ pc' = "resend"
    /\ UNCHANGED <<cur, gen, snap, todo, target, subMu, status, buf, last>>

\* The subscriber may have emptied the slot itself by now.
NotifyDrain ==
    /\ pc = "drain"
    /\ buf' = [buf EXCEPT ![target] = Nil]
    /\ pc' = "resend"
    /\ UNCHANGED <<cur, gen, snap, todo, target, subMu, status, last>>

NotifyResend ==
    /\ pc = "resend"
    /\ buf' = IF buf[target] = Nil THEN [buf EXCEPT ![target] = snap] ELSE buf
    /\ todo' = todo \ {target}
    /\ pc' = "range"
    /\ UNCHANGED <<cur, gen, snap, target, subMu, status, last>>

\* (Mutation) notify returns without unlocking subMu.
NotifyUnlock_Forgets ==
    /\ pc = "range"
    /\ todo = {}
    /\ pc' = "idle"
    /\ UNCHANGED <<cur, gen, snap, todo, target, subMu, status, buf, last>>

NotifyUnlock ==
    /\ pc = "range"
    /\ todo = {}
    /\ subMu' = FALSE
    /\ pc' = "idle"
    /\ UNCHANGED <<cur, gen, snap, todo, target, status, buf, last>>

-----------------------------------------------------------------------------
(* Subscribers.                                                            *)

\* Store.Subscribe: ensureEnvLocked under Store.mu, which a build holds from
\* before the swap to the end of the fan-out.
Ensure(s) ==
    /\ status[s] = "none"
    /\ pc = "idle"
    /\ status' = [status EXCEPT ![s] = "ensured"]
    /\ UNCHANGED <<cur, gen, pubVars, buf, last>>

\* (Mutation) The current snapshot is not sent on registration.
Register_Silent(s) ==
    /\ status[s] = "ensured"
    /\ ~subMu
    /\ status' = [status EXCEPT ![s] = "live"]
    /\ UNCHANGED <<cur, gen, pubVars, buf, last>>

\* envState.subscribe: one critical section of subMu. Store.mu is not held, so
\* it may fall between the swap and the fan-out of a build.
Register(s) ==
    /\ status[s] = "ensured"
    /\ ~subMu
    /\ status' = [status EXCEPT ![s] = "live"]
    /\ buf' = [buf EXCEPT ![s] = cur]
    /\ UNCHANGED <<cur, gen, pubVars, last>>

\* (Mutation) The channel is closed without subMu.
Cancel_Unlocked(s) ==
    /\ status[s] = "live"
    /\ status' = [status EXCEPT ![s] = "closed"]
    /\ UNCHANGED <<cur, gen, pubVars, buf, last>>

\* The cancel function subscribe returned; sync.Once makes a second call a
\* no-op. A value left in the buffer can still be received after the close.
Cancel(s) ==
    /\ status[s] = "live"
    /\ ~subMu
    /\ status' = [status EXCEPT ![s] = "closed"]
    /\ UNCHANGED <<cur, gen, pubVars, buf, last>>

\* The subscriber's goroutine reads its channel.
Receive(s) ==
    /\ buf[s] # Nil
    /\ last' = [last EXCEPT ![s] = buf[s]]
    /\ buf' = [buf EXCEPT ![s] = Nil]
    /\ UNCHANGED <<cur, gen, pubVars, status>>

-----------------------------------------------------------------------------
Notify ==
    \/ NotifyLock
    \/ \E s \in Subscribers : NotifySend(s) \/ NotifyFull(s)
    \/ NotifyDrain
    \/ NotifyResend
    \/ NotifyUnlock

Next ==
    \/ \E c \in Contents : Publish(c)
    \/ Notify
    \/ \E s \in Subscribers :
         Ensure(s) \/ Register(s) \/ Cancel(s) \/ Receive(s)

Spec == Init /\ [][Next]_vars

\* The publishing goroutine runs to the end of notify, and a reader's loop
\* takes what is in its channel. Nobody has to publish, subscribe or cancel,
\* and the subscribers outside Readers may never read.
FairSpec ==
    /\ Spec
    /\ WF_vars(Notify)
    /\ \A s \in Readers : WF_vars(Receive(s))

-----------------------------------------------------------------------------
(* Properties.                                                             *)

\* The types, and that only a notify in progress holds subMu.
TypeOK ==
    /\ cur \in Snapshot
    /\ gen \in Nat
    /\ pc \in {"idle", "lock", "range", "drain", "resend"}
    /\ snap \in Snapshot
    /\ todo \subseteq Subscribers
    /\ target \in Subscribers
    /\ subMu \in BOOLEAN
    /\ subMu <=> pc \in {"range", "drain", "resend"}
    /\ status \in [Subscribers -> {"none", "ensured", "live", "closed"}]
    /\ buf \in [Subscribers -> Snapshot]
    /\ last \in [Subscribers -> Snapshot]

\* What the subscriber will have seen once its buffer is empty.
Newest(s) == IF buf[s] # Nil THEN buf[s] ELSE last[s]

\* The drop policy of Subscribe and notify: outside a fan-out, every live
\* subscriber has, or has waiting in its channel, the content that is served,
\* however many snapshots it missed (store.go, "always converges on the latest").
LiveSubscribersHoldLatest ==
    pc = "idle" => \A s \in Live : Newest(s).content = cur.content

\* notify never sends on a channel that cancel has closed, which would panic the
\* publisher with Store.mu and subMu held.
NoSendOnClosed ==
    /\ pc = "range" => todo \subseteq Live
    /\ pc \in {"drain", "resend"} => target \in Live

\* The waiting snapshot is never older than the one received before it, and none
\* is newer than the one readers load: replacing a slot and swapping the pointer
\* cannot reorder generations.
DeliveryOrdered ==
    \A s \in Subscribers :
        /\ buf[s] # Nil => last[s].gen <= buf[s].gen
        /\ Newest(s).gen <= cur.gen

\* What a subscriber has received never goes back a generation, and the pointer
\* readers load never does either.
NeverBackwards ==
    [][/\ cur.gen <= cur'.gen
       /\ \A s \in Subscribers : last[s].gen <= last'[s].gen]_vars

\* A publication slot is a register with conflating mailboxes: under every
\* interleaving of swap, fan-out, registration and receive, what reaches a channel
\* is what readers load at that moment, never what it superseded, and what was read
\* is not taken back (store.go, Subscribe).
Slot == INSTANCE SnapshotRegister
            WITH Nothing <- Nil, register <- cur, mailbox <- buf, heard <- last

ImplementsRegister == Slot!Spec

\* A subscriber that never reads cannot keep a build from completing.
PublisherNeverBlocks == (pc # "idle") ~> (pc = "idle")

\* Publications come to an end in the bounded model; a live subscriber that reads
\* ends up with the served content, whatever the other subscribers do.
ReadersConverge ==
    \A s \in Readers :
        <>[](s \in Live => last[s].content = cur.content)
=============================================================================
