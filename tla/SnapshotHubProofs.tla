------------------------- MODULE SnapshotHubProofs -------------------------
(***************************************************************************)
(* What SnapshotHub promises, for every set of subscribers and contents    *)
(* and any number of publications.                                         *)
(***************************************************************************)
EXTENDS SnapshotHub, TLAPS

(***************************************************************************)
(* The inductive invariant. LiveSubscribersHoldLatest speaks of states     *)
(* without a fan-out; the inductive form says which subscribers a fan-out  *)
(* has already served, that it is fanning out what readers load, and that  *)
(* nobody refills the slot it has just drained.                            *)
(***************************************************************************)

\* The generation counter and the published pointer move together.
GenInv ==
    /\ cur.gen = gen
    /\ cur # Nil => cur.content \in Contents
    /\ cur = Nil <=> gen = 0
    /\ pc # "idle" => snap = cur /\ cur # Nil

\* Only live channels are still to be visited, and only during a fan-out.
TodoInv ==
    /\ pc \in {"idle", "lock"} => todo = {}
    /\ todo \subseteq Live
    /\ pc \in {"drain", "resend"} => target \in todo
    /\ pc = "resend" => buf[target] = Nil

\* A channel nobody registered carries nothing.
FreshInv ==
    \A s \in Subscribers :
        status[s] \in {"none", "ensured"} => buf[s] = Nil /\ last[s] = Nil

\* Everybody the fan-out has visited holds the served content.
ServedInv ==
    pc # "lock" => \A s \in Live \ todo : Newest(s).content = cur.content

IInv == TypeOK /\ GenInv /\ TodoInv /\ FreshInv /\ ServedInv /\ DeliveryOrdered

USE DEF Snapshot, Nil

LEMMA InitEstablishes == ASSUME Init PROVE IInv
<1>1. TypeOK
  BY DEF Init, TypeOK
<1>2. GenInv /\ TodoInv /\ FreshInv
  BY DEF Init, GenInv, TodoInv, FreshInv, Live
<1>3. ServedInv /\ DeliveryOrdered
  BY DEF Init, ServedInv, DeliveryOrdered, Live, Newest
<1> QED
  BY <1>1, <1>2, <1>3 DEF IInv

LEMMA PublishPreserves ==
  ASSUME IInv, NEW c \in Contents, Publish(c) PROVE IInv'
<1>1. TypeOK'
  BY DEF IInv, TypeOK, Publish, pubVars
<1>2. GenInv'
  BY ContentsAssumption DEF IInv, TypeOK, GenInv, Publish, pubVars
<1>3. TodoInv' /\ FreshInv'
  BY DEF IInv, TypeOK, TodoInv, FreshInv, Publish, pubVars, Live
<1>4. ServedInv'
  BY DEF IInv, TypeOK, GenInv, TodoInv, ServedInv, Publish, pubVars, Live, Newest
<1>5. DeliveryOrdered'
  BY DEF IInv, TypeOK, GenInv, DeliveryOrdered, Publish, pubVars, Newest
<1> QED
  BY <1>1, <1>2, <1>3, <1>4, <1>5 DEF IInv

LEMMA NotifyPreserves ==
  ASSUME IInv, Notify PROVE IInv'
<1> USE DEF IInv
<1>1. CASE NotifyLock \/ NotifyUnlock
  BY <1>1 DEF NotifyLock, NotifyUnlock, TypeOK, GenInv, TodoInv, FreshInv,
              ServedInv, DeliveryOrdered, Live, Newest
<1>2. ASSUME NEW s \in Subscribers, NotifySend(s) PROVE IInv'
  <2>1. TypeOK' /\ GenInv' /\ TodoInv' /\ FreshInv'
    BY <1>2 DEF NotifySend, TypeOK, GenInv, TodoInv, FreshInv, Live
  <2>2. ServedInv' /\ DeliveryOrdered'
    BY <1>2 DEF NotifySend, TypeOK, GenInv, TodoInv, ServedInv,
                DeliveryOrdered, Live, Newest
  <2> QED BY <2>1, <2>2
<1>3. ASSUME NEW s \in Subscribers, NotifyFull(s) PROVE IInv'
  BY <1>3 DEF NotifyFull, TypeOK, GenInv, TodoInv, FreshInv, ServedInv,
              DeliveryOrdered, Live, Newest
<1>4. CASE NotifyDrain
  <2>1. TypeOK' /\ GenInv' /\ TodoInv' /\ FreshInv'
    BY <1>4 DEF NotifyDrain, TypeOK, GenInv, TodoInv, FreshInv, Live
  <2>2. ServedInv' /\ DeliveryOrdered'
    BY <1>4 DEF NotifyDrain, TypeOK, TodoInv, ServedInv, DeliveryOrdered,
                Live, Newest
  <2> QED BY <2>1, <2>2
<1>5. CASE NotifyResend
  <2>1. TypeOK' /\ GenInv' /\ TodoInv' /\ FreshInv'
    BY <1>5 DEF NotifyResend, TypeOK, GenInv, TodoInv, FreshInv, Live
  <2>2. ServedInv' /\ DeliveryOrdered'
    BY <1>5 DEF NotifyResend, TypeOK, GenInv, TodoInv, ServedInv,
                DeliveryOrdered, Live, Newest
  <2> QED BY <2>1, <2>2
<1> QED
  BY <1>1, <1>2, <1>3, <1>4, <1>5 DEF Notify

LEMMA SubscriberPreserves ==
  ASSUME IInv, NEW s \in Subscribers,
         Ensure(s) \/ Register(s) \/ Cancel(s) \/ Receive(s)
  PROVE  IInv'
<1> USE DEF IInv
<1>1. CASE Ensure(s)
  BY <1>1 DEF Ensure, pubVars, TypeOK, GenInv, TodoInv, FreshInv, ServedInv,
              DeliveryOrdered, Live, Newest
<1>2. CASE Register(s)
  <2>1. TypeOK' /\ GenInv' /\ TodoInv' /\ FreshInv'
    BY <1>2 DEF Register, pubVars, TypeOK, GenInv, TodoInv, FreshInv, Live
  <2>2. ServedInv' /\ DeliveryOrdered'
    BY <1>2 DEF Register, pubVars, TypeOK, GenInv, TodoInv, FreshInv,
                ServedInv, DeliveryOrdered, Live, Newest
  <2> QED BY <2>1, <2>2
<1>3. CASE Cancel(s)
  BY <1>3 DEF Cancel, pubVars, TypeOK, GenInv, TodoInv, FreshInv, ServedInv,
              DeliveryOrdered, Live, Newest
<1>4. CASE Receive(s)
  <2>1. TypeOK' /\ GenInv' /\ TodoInv' /\ FreshInv'
    BY <1>4 DEF Receive, pubVars, TypeOK, GenInv, TodoInv, FreshInv, Live
  <2>2. ServedInv' /\ DeliveryOrdered'
    BY <1>4 DEF Receive, pubVars, TypeOK, ServedInv, DeliveryOrdered, Live, Newest
  <2> QED BY <2>1, <2>2
<1> QED
  BY <1>1, <1>2, <1>3, <1>4

LEMMA NextPreserves == ASSUME IInv, [Next]_vars PROVE IInv'
<1>1. CASE UNCHANGED vars
  BY <1>1 DEF vars, IInv, TypeOK, GenInv, TodoInv, FreshInv, ServedInv,
              DeliveryOrdered, Live, Newest
<1>2. CASE Next
  BY <1>2, PublishPreserves, NotifyPreserves, SubscriberPreserves DEF Next
<1> QED
  BY <1>1, <1>2

\* IInv holds in every reachable state.
THEOREM Invariance == Spec => []IInv
  BY InitEstablishes, NextPreserves, PTL DEF Spec

\* The state variables of envState and of its subscribers keep their types, and
\* subMu is held exactly by a fan-out.
THEOREM TypeCorrect == Spec => []TypeOK
<1>1. IInv => TypeOK
  BY DEF IInv
<1> QED
  BY <1>1, Invariance, PTL

\* Between fan-outs every live subscriber holds, or has waiting, the content
\* that readers are served, for any number of subscribers and publications.
THEOREM SubscribersConverge == Spec => []LiveSubscribersHoldLatest
<1>1. IInv => LiveSubscribersHoldLatest
  BY DEF IInv, TodoInv, ServedInv, LiveSubscribersHoldLatest
<1> QED
  BY <1>1, Invariance, PTL

\* The publisher never sends on a channel that cancel has closed.
THEOREM SendsAreSafe == Spec => []NoSendOnClosed
<1>1. IInv => NoSendOnClosed
  BY DEF IInv, TodoInv, NoSendOnClosed
<1> QED
  BY <1>1, Invariance, PTL

\* Snapshots wait and arrive in generation order.
THEOREM DeliveryIsOrdered == Spec => []DeliveryOrdered
<1>1. IInv => DeliveryOrdered
  BY DEF IInv
<1> QED
  BY <1>1, Invariance, PTL

\* Neither the served pointer nor what a subscriber received goes back.
THEOREM NothingGoesBackwards == Spec => NeverBackwards
<1> DEFINE Forward == /\ cur.gen <= cur'.gen
                      /\ \A s \in Subscribers : last[s].gen <= last'[s].gen
<1>1. ASSUME IInv, [Next]_vars PROVE [Forward]_vars
  <2>1. CASE UNCHANGED vars
    BY <2>1
  <2>2. ASSUME NEW c \in Contents, Publish(c) PROVE Forward
    BY <1>1, <2>2 DEF IInv, TypeOK, GenInv, Publish
  <2>3. CASE Notify
    BY <1>1, <2>3 DEF IInv, TypeOK, Notify, NotifyLock, NotifySend, NotifyFull,
                      NotifyDrain, NotifyResend, NotifyUnlock
  <2>4. ASSUME NEW s \in Subscribers,
               Ensure(s) \/ Register(s) \/ Cancel(s) \/ Receive(s)
        PROVE  Forward
    BY <1>1, <2>4 DEF IInv, TypeOK, DeliveryOrdered, Ensure, Register, Cancel,
                      Receive
  <2> QED
    BY <1>1, <2>1, <2>2, <2>3, <2>4 DEF Next
<1> QED
  BY <1>1, Invariance, PTL DEF Spec, NeverBackwards

(***************************************************************************)
(* The refinement. IInv supplies what the mapping needs: the fan-out's     *)
(* snapshot is the one readers load, a slot is empty when it is filled,    *)
(* and a channel that is being registered has nothing in it.               *)
(***************************************************************************)

LEMMA InitIsRegisterInit == ASSUME Init PROVE Slot!Init
  BY DEF Init, Slot!Init

\* A build writes the register; its fan-out only offers, discards or stutters.
LEMMA PublisherIsRegisterStep ==
  ASSUME IInv, (\E c \in Contents : Publish(c)) \/ Notify
  PROVE  [Slot!Next]_(Slot!vars)
<1> USE DEF IInv, TypeOK, Slot!vars
<1>1. ASSUME NEW c \in Contents, Publish(c) PROVE Slot!Next
  <2>1. /\ cur' \in [gen : {cur.gen + 1}, content : Contents]
        /\ UNCHANGED <<buf, last>>
    BY <1>1 DEF Publish, GenInv
  <2> QED BY <2>1 DEF Slot!Next, Slot!Write
<1>2. CASE NotifyLock \/ NotifyUnlock
  BY <1>2 DEF NotifyLock, NotifyUnlock
<1>3. ASSUME NEW s \in Subscribers, NotifySend(s) PROVE Slot!Next
  <2>1. buf[s] = Nil /\ buf' = [buf EXCEPT ![s] = cur] /\ UNCHANGED <<cur, last>>
    BY <1>3 DEF NotifySend, GenInv
  <2> QED BY <2>1 DEF Slot!Next, Slot!Offer
<1>4. ASSUME NEW s \in Subscribers, NotifyFull(s) PROVE UNCHANGED <<cur, buf, last>>
  BY <1>4 DEF NotifyFull
<1>5. CASE NotifyDrain
  <2>1. buf' = [buf EXCEPT ![target] = Nil] /\ UNCHANGED <<cur, last>>
    BY <1>5 DEF NotifyDrain
  <2>2. CASE buf[target] = Nil
    BY <2>1, <2>2
  <2>3. CASE buf[target] # Nil
    BY <2>1, <2>3 DEF Slot!Next, Slot!Discard
  <2> QED BY <2>2, <2>3
<1>6. CASE NotifyResend
  <2>1. buf[target] = Nil /\ buf' = [buf EXCEPT ![target] = cur] /\ UNCHANGED <<cur, last>>
    BY <1>6 DEF NotifyResend, GenInv, TodoInv
  <2> QED BY <2>1 DEF Slot!Next, Slot!Offer
<1> QED
  BY <1>1, <1>2, <1>3, <1>4, <1>5, <1>6 DEF Notify

\* A registration offers the current snapshot, a receive reads.
LEMMA SubscriberIsRegisterStep ==
  ASSUME IInv, NEW s \in Subscribers,
         Ensure(s) \/ Register(s) \/ Cancel(s) \/ Receive(s)
  PROVE  [Slot!Next]_(Slot!vars)
<1> USE DEF IInv, TypeOK, Slot!vars
<1>1. CASE Ensure(s) \/ Cancel(s)
  BY <1>1 DEF Ensure, Cancel
<1>2. CASE Register(s)
  <2>1. buf[s] = Nil /\ buf' = [buf EXCEPT ![s] = cur] /\ UNCHANGED <<cur, last>>
    BY <1>2 DEF Register, FreshInv
  <2> QED BY <2>1 DEF Slot!Next, Slot!Offer
<1>3. CASE Receive(s)
  BY <1>3 DEF Receive, Slot!Next, Slot!Read
<1> QED
  BY <1>1, <1>2, <1>3

\* envState, with its lock, its channels and its fan-out, is a register with one
\* conflating mailbox per subscriber.
THEOREM HubImplementsRegister == Spec => ImplementsRegister
<1>1. ASSUME IInv, [Next]_vars PROVE [Slot!Next]_(Slot!vars)
  <2>1. CASE UNCHANGED vars
    BY <2>1 DEF vars, Slot!vars
  <2>2. CASE Next
    BY <1>1, <2>2, PublisherIsRegisterStep, SubscriberIsRegisterStep DEF Next
  <2> QED BY <1>1, <2>1, <2>2
<1> QED
  BY <1>1, InitIsRegisterInit, Invariance, PTL DEF Spec, ImplementsRegister, Slot!Spec
=============================================================================
