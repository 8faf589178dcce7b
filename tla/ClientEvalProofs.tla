-------------------------- MODULE ClientEvalProofs --------------------------
(***************************************************************************)
(* What the read path and the log limiter promise, for any number of       *)
(* goroutines, any batch length and any clock.                             *)
(***************************************************************************)
EXTENDS ClientEval, FiniteSetTheorems, TLAPS

Labels == {"idle", "load", "evaluate", "record", "recover", "log", "next",
           "suppress", "cas", "take", "store", "returned"}

\* What the engine may have done with an element.
Deeds == {"nothing", "panic", "RESOLVED", "FALLBACK", "UNKNOWN"}

CallTypes ==
    /\ size \in [Threads -> 0..MaxBatch]
    /\ at \in [Threads -> Slots]
    /\ entry \in [Threads -> Gens]
    /\ out \in [Threads -> [Slots -> Result]]
    /\ ran \in [Threads -> [Slots -> Deeds]]

LimTypes ==
    /\ stamp \in [Threads -> Nat]
    /\ seen \in [Threads -> Nat]
    /\ next \in Nat
    /\ suppressed \in Nat
    /\ owed \in Int

TypeOK ==
    /\ l1 \in Gens
    /\ pc \in [Threads -> Labels]
    /\ res \in [Threads -> Result]
    /\ CallTypes
    /\ LimTypes

(***************************************************************************)
(* The inductive invariant of a call: the elements before the one it is at *)
(* are answered, and what it holds for the current one is known from where *)
(* it is.                                                                  *)
(***************************************************************************)

\* r answers element i of t's batch as it should be answered.
Answers(r, t, i) ==
    /\ r.reason = Promised(ran[t][i])
    /\ (ran[t][i] = "nothing") <=> (entry[t] = 0)
    /\ r.gen # 0 => r.gen = entry[t]

\* The elements the call has not come to, and the one it is about to evaluate.
Fresh(t) ==
    /\ pc[t] \in {"idle", "load"} => \A i \in Slots : ran[t][i] = "nothing"
    /\ pc[t] \in {"idle", "load"} => res[t] = Zero
    /\ pc[t] = "load" => at[t] = 1
    /\ \A i \in Slots : i > at[t] => ran[t][i] = "nothing"
    /\ pc[t] = "evaluate" => res[t] = Zero /\ ran[t][at[t]] = "nothing"

\* The elements the call has stored.
Answered(t) ==
    /\ pc[t] # "idle" => at[t] <= size[t]
    /\ pc[t] \notin {"idle", "load", "returned"} =>
          \A i \in Slots : i < at[t] => Answers(out[t][i], t, i)
    /\ pc[t] = "returned" =>
          \A i \in Slots : i <= size[t] => Answers(out[t][i], t, i)

\* The element in hand: a panic has left the named result as it was, or it holds.
InHand(t) ==
    /\ pc[t] \in {"record", "log", "next", "suppress", "cas", "take", "store"} =>
          Answers(res[t], t, at[t])
    /\ pc[t] = "recover" =>
          \/ Answers(res[t], t, at[t])
          \/ res[t] = Zero /\ ran[t][at[t]] = "panic" /\ entry[t] # 0

CallOK(t) == Fresh(t) /\ Answered(t) /\ InHand(t)

CallInv == \A t \in Threads : CallOK(t)

\* A goroutine tries the swap only with a clock that has reached what it loaded.
SwapInv == \A t \in Threads : pc[t] = "cas" => seen[t] <= stamp[t]

IInv == TypeOK /\ CallInv /\ VolumeReconstructible /\ SwapInv

USE DEF Labels

Inside == {"next", "suppress", "cas", "take"}

\* Joining and leaving a finite set of calls moves its size by one.
LEMMA CountInAllow ==
  ASSUME TypeOK, NEW t \in Threads, NEW l \in Labels, pc' = [pc EXCEPT ![t] = l]
  PROVE  /\ Cardinality(InAllow) \in Nat
         /\ pc[t] \in Inside /\ l \in Inside =>
               Cardinality(InAllow') = Cardinality(InAllow)
         /\ pc[t] \notin Inside /\ l \notin Inside =>
               Cardinality(InAllow') = Cardinality(InAllow)
         /\ pc[t] \notin Inside /\ l \in Inside =>
               Cardinality(InAllow') = Cardinality(InAllow) + 1
         /\ pc[t] \in Inside /\ l \notin Inside =>
               Cardinality(InAllow') = Cardinality(InAllow) - 1
<1> USE DEF Inside
<1>1. IsFiniteSet(InAllow)
  BY ThreadsAssumption, FS_Subset DEF InAllow
<1>2. Cardinality(InAllow) \in Nat
  BY <1>1, FS_CardinalityType
<1>3. CASE (pc[t] \in Inside) <=> (l \in Inside)
  <2>1. InAllow' = InAllow
    BY <1>3 DEF InAllow, TypeOK
  <2> QED BY <2>1, <1>2, <1>3
<1>4. CASE pc[t] \notin Inside /\ l \in Inside
  <2>1. InAllow' = InAllow \cup {t} /\ t \notin InAllow
    BY <1>4 DEF InAllow, TypeOK
  <2> QED BY <2>1, <1>1, <1>2, <1>4, FS_AddElement
<1>5. CASE pc[t] \in Inside /\ l \notin Inside
  <2>1. InAllow' = InAllow \ {t} /\ t \in InAllow
    BY <1>5 DEF InAllow, TypeOK
  <2> QED BY <2>1, <1>1, <1>2, <1>5, FS_RemoveElement
<1> QED
  BY <1>2, <1>3, <1>4, <1>5

LEMMA InitEstablishes == ASSUME Init PROVE IInv
<1>1. TypeOK
  BY BoundAssumption DEF Init, TypeOK, CallTypes, LimTypes, Slots, Gens, Result, Zero, Deeds
<1>2. CallInv
  BY DEF Init, CallInv, CallOK, Fresh, Answered, InHand, Zero
<1>3. InAllow = {}
  BY DEF Init, InAllow
<1>4. VolumeReconstructible
  BY <1>3, FS_EmptySet DEF Init, VolumeReconstructible
<1>5. SwapInv
  BY DEF Init, SwapInv
<1> QED
  BY <1>1, <1>2, <1>4, <1>5 DEF IInv

LEMMA SwapPreserves == ASSUME IInv, Swap PROVE IInv'
<1> USE DEF IInv, Swap, callVars, limVars
<1>1. TypeOK'
  BY DEF TypeOK, CallTypes, LimTypes
<1>2. CallInv'
  BY DEF CallInv, CallOK, Fresh, Answered, InHand, Answers
<1>3. VolumeReconstructible'
  BY DEF VolumeReconstructible, InAllow
<1>4. SwapInv'
  BY DEF SwapInv
<1> QED
  BY <1>1, <1>2, <1>3, <1>4

\* A call moves alone: what is known of the others stays.
LEMMA OthersUndisturbed ==
  ASSUME CallInv, NEW t \in Threads, NEW u \in Threads, u # t,
         <<pc[u], size[u], at[u], entry[u], res[u], out[u], ran[u]>>'
           = <<pc[u], size[u], at[u], entry[u], res[u], out[u], ran[u]>>
  PROVE  CallOK(u)'
<1>1. /\ pc'[u] = pc[u] /\ size'[u] = size[u] /\ at'[u] = at[u]
      /\ entry'[u] = entry[u] /\ res'[u] = res[u] /\ out'[u] = out[u]
      /\ ran'[u] = ran[u]
  OBVIOUS
<1>2. CallOK(u)
  BY DEF CallInv
<1> QED
  BY <1>1, <1>2 DEF CallOK, Fresh, Answered, InHand, Answers

\* The actions of BatchAppend and evalGuarded keep the types,
LEMMA EvalTypes ==
  ASSUME TypeOK, NEW t \in Threads, Evaluation(t)
  PROVE  TypeOK'
<1> USE DEF TypeOK, Goto
<1>1. UNCHANGED <<l1, stamp, seen, next, suppressed, owed>>
  BY DEF Evaluation, Call, Load, evaluate, evaluateOn, record, recover, Store, Return, limVars
<1>2. pc' \in [Threads -> Labels]
  BY DEF Evaluation, Call, Load, evaluate, evaluateOn, record, recover, guarded, Store, Return
<1>3. res' \in [Threads -> Result]
  <2>1. {Zero, Default} \subseteq Result
    BY BoundAssumption DEF Zero, Default, Result, Gens
  <2>2. CASE evaluate(t)
    <3>1. entry[t] \in Gens /\ 0 \in Gens
      BY BoundAssumption DEF CallTypes, Gens
    <3>2. \A reason \in {"RESOLVED", "FALLBACK", "UNKNOWN"}, gen \in {0, entry[t]} :
             labelled(entry[t], reason, gen) \in Result
      BY <3>1 DEF labelled, Result
    <3> QED
      BY <2>1, <2>2, <3>2 DEF evaluate, evaluateOn
  <2>3. CASE ~evaluate(t)
    BY <2>1, <2>3 DEF Evaluation, Call, Load, record, recover, recovered, Store, Return
  <2> QED
    BY <2>2, <2>3
<1>4. CallTypes'
  <2>1. {Zero, Default} \subseteq Result
    BY BoundAssumption DEF Zero, Default, Result, Gens
  <2>2. ASSUME NEW n \in Slots, Call(t, n) PROVE CallTypes'
    <3>1. /\ size' \in [Threads -> 0..MaxBatch] /\ at' \in [Threads -> Slots]
          /\ UNCHANGED <<entry, ran>>
      BY <2>2, BoundAssumption DEF Call, CallTypes, Slots
    <3>2. out' \in [Threads -> [Slots -> Result]]
      BY <2>1, <2>2 DEF Call, CallTypes
    <3> QED BY <3>1, <3>2 DEF CallTypes
  <2>3. CASE Load(t)
    BY <2>3 DEF Load, CallTypes
  <2>4. CASE evaluate(t)
    <3>1. UNCHANGED <<size, at, entry, out>>
      BY <2>4 DEF evaluate, evaluateOn
    <3>2. PICK d \in Deeds : ran' = ran \/ ran' = [ran EXCEPT ![t][at[t]] = d]
      BY <2>4 DEF evaluate, evaluateOn, Deeds
    <3>3. ran' \in [Threads -> [Slots -> Deeds]]
      <4>1. at[t] \in Slots /\ ran \in [Threads -> [Slots -> Deeds]]
        BY DEF CallTypes
      <4>2. [ran[t] EXCEPT ![at[t]] = d] \in [Slots -> Deeds]
        BY <4>1
      <4> QED BY <3>2, <4>1, <4>2
    <3> QED BY <3>1, <3>3 DEF CallTypes
  <2>5. CASE record(t) \/ recover(t)
    BY <2>5 DEF record, recover, CallTypes, callVars
  <2>6. CASE Store(t)
    <3>1. UNCHANGED <<size, entry, ran>>
      BY <2>6 DEF Store
    <3>2. out' \in [Threads -> [Slots -> Result]]
      BY <2>6 DEF Store, CallTypes
    <3>3. at' \in [Threads -> Slots]
      BY <2>6, BoundAssumption DEF Store, CallTypes, Slots
    <3> QED BY <3>1, <3>2, <3>3 DEF CallTypes
  <2>7. CASE Return(t)
    <3>1. size' \in [Threads -> 0..MaxBatch] /\ entry' \in [Threads -> Gens] /\ at' = at
      BY <2>7, BoundAssumption DEF Return, CallTypes, Gens
    <3>2. out' \in [Threads -> [Slots -> Result]] /\ ran' \in [Threads -> [Slots -> Deeds]]
      BY <2>1, <2>7 DEF Return, CallTypes, Deeds
    <3> QED BY <3>1, <3>2 DEF CallTypes
  <2> QED
    BY <2>2, <2>3, <2>4, <2>5, <2>6, <2>7 DEF Evaluation
<1> QED
  BY <1>1, <1>2, <1>3, <1>4 DEF LimTypes

\* the invariant of the call that moves,
LEMMA EvalCallInv ==
  ASSUME TypeOK, NEW t \in Threads, Evaluation(t), CallOK(t)
  PROVE  CallOK(t)'
<1> USE BoundAssumption DEF TypeOK, CallTypes, Goto, Fresh, Answered, InHand, Answers,
        Slots, Zero, Default, callVars
<1>0. Fresh(t) /\ Answered(t) /\ InHand(t)
  BY DEF CallOK
<1>1. ASSUME NEW n \in Slots, Call(t, n)
      PROVE  CallOK(t)'
  BY <1>0, <1>1 DEF Call, CallOK
<1>2. CASE Load(t)
  BY <1>0, <1>2 DEF CallOK, Load
<1>3. CASE evaluate(t)
  BY <1>0, <1>3 DEF CallOK, evaluate, evaluateOn, labelled, Promised
<1>4. CASE record(t)
  BY <1>0, <1>4 DEF CallOK, record
<1>5. CASE recover(t)
  BY <1>0, <1>5 DEF CallOK, recover, recovered, guarded, Promised
<1>6. CASE Store(t)
  <2>1. /\ pc[t] = "store" /\ at[t] <= size[t] /\ Answers(res[t], t, at[t])
        /\ \A i \in Slots : i < at[t] => Answers(out[t][i], t, i)
        /\ \A i \in Slots : i > at[t] => ran[t][i] = "nothing"
    BY <1>0, <1>6 DEF Store
  <2>2. /\ out'[t] = [out[t] EXCEPT ![at[t]] = res[t]]
        /\ size'[t] = size[t] /\ entry'[t] = entry[t] /\ ran'[t] = ran[t]
    BY <1>6 DEF Store
  <2>3. ASSUME NEW i \in Slots, i <= at[t] PROVE Answers(out[t][i], t, i)'
    <3>1. CASE i = at[t]
      BY <2>1, <2>2, <3>1
    <3>2. CASE i < at[t]
      <4>1. Answers(out[t][i], t, i)
        BY <2>1, <3>2
      <4>2. out'[t][i] = out[t][i] /\ ran'[t][i] = ran[t][i] /\ entry'[t] = entry[t]
        BY <2>2, <3>2
      <4> QED BY <4>1, <4>2 DEF Promised
    <3> QED
      BY <2>3, <3>1, <3>2
  <2>4. CASE at[t] < size[t]
    <3>1. pc'[t] = "evaluate" /\ at'[t] = at[t] + 1 /\ res'[t] = Zero
      BY <1>6, <2>4 DEF Store
    <3> QED BY <2>1, <2>2, <2>3, <2>4, <3>1 DEF CallOK
  <2>5. CASE at[t] = size[t]
    <3>1. pc'[t] = "returned" /\ at'[t] = at[t] /\ res'[t] = res[t]
      BY <1>6, <2>5 DEF Store
    <3> QED BY <2>1, <2>2, <2>3, <2>5, <3>1 DEF CallOK
  <2>6. at[t] < size[t] \/ at[t] = size[t]
    BY <2>1
  <2> QED
    BY <2>4, <2>5, <2>6
<1>7. CASE Return(t)
  BY <1>0, <1>7 DEF CallOK, Return
<1> QED
  BY <1>1, <1>2, <1>3, <1>4, <1>5, <1>6, <1>7 DEF Evaluation

\* and with them the whole invariant.
LEMMA EvalPreserves ==
  ASSUME IInv, NEW t \in Threads, Evaluation(t) PROVE IInv'
<1> USE DEF IInv
<1>1. TypeOK'
  BY EvalTypes
<1>2. CallInv'
  <2>1. ASSUME NEW u \in Threads, u # t
        PROVE  CallOK(u)'
    <3>1. <<pc[u], size[u], at[u], entry[u], res[u], out[u], ran[u]>>'
            = <<pc[u], size[u], at[u], entry[u], res[u], out[u], ran[u]>>
      BY <2>1 DEF Evaluation, Call, Load, evaluate, evaluateOn, record, recover, Store,
                  Return, TypeOK, CallTypes, Goto, callVars
    <3> QED
      BY <2>1, <3>1, OthersUndisturbed
  <2>2. CallOK(t)'
    BY EvalCallInv DEF CallInv
  <2> QED
    BY <2>1, <2>2 DEF CallInv
<1>3. VolumeReconstructible'
  <2>1. PICK l \in Labels : /\ pc' = [pc EXCEPT ![t] = l]
                            /\ pc[t] \notin Inside
                            /\ l \notin Inside
    BY DEF Evaluation, Call, Load, evaluate, evaluateOn, record, recover, guarded, Store,
           Return, Goto, Inside
  <2>2. Cardinality(InAllow') = Cardinality(InAllow)
    BY <2>1, CountInAllow
  <2>3. owed' = owed /\ suppressed' = suppressed
    BY DEF Evaluation, Call, Load, evaluate, evaluateOn, record, recover, Store, Return,
           limVars
  <2> QED
    BY <2>2, <2>3 DEF VolumeReconstructible
<1>4. SwapInv'
  <2>1. UNCHANGED <<stamp, seen>>
    BY DEF Evaluation, Call, Load, evaluate, evaluateOn, record, recover, Store, Return,
           limVars
  <2>2. \A u \in Threads : pc'[u] = pc[u] \/ pc'[u] # "cas"
    BY DEF Evaluation, Call, Load, evaluate, evaluateOn, record, recover, guarded, Store,
           Return, Goto, TypeOK
  <2> QED
    BY <2>1, <2>2 DEF SwapInv
<1> QED
  BY <1>1, <1>2, <1>3, <1>4

\* The atomic operations of allow.
LEMMA AllowPreserves ==
  ASSUME IInv, NEW t \in Threads, Allow(t) PROVE IInv'
<1> USE DEF IInv, Goto, callVars, AllowReturn
<1>1. TypeOK'
  <2> USE DEF TypeOK, LimTypes
  <2>1. UNCHANGED <<l1, res, size, at, entry, out, ran>>
    BY DEF Allow, AllowCall, AllowLoad, AllowSuppress, AllowCas, AllowTake
  <2>2. pc' \in [Threads -> Labels]
    BY DEF Allow, AllowCall, AllowLoad, AllowSuppress, AllowCas, AllowTake
  <2>3. stamp' \in [Threads -> Nat] /\ seen' \in [Threads -> Nat]
    BY BoundAssumption
       DEF Allow, AllowCall, AllowLoad, AllowSuppress, AllowCas, AllowTake, Times
  <2>4. next' \in Nat /\ suppressed' \in Nat /\ owed' \in Int
    BY IntervalAssumption
       DEF Allow, AllowCall, AllowLoad, AllowSuppress, AllowCas, AllowTake
  <2> QED
    BY <2>1, <2>2, <2>3, <2>4 DEF CallTypes
<1>2. CallInv'
  <2>1. ASSUME NEW u \in Threads, u # t
        PROVE  CallOK(u)'
    <3>1. <<pc[u], size[u], at[u], entry[u], res[u], out[u], ran[u]>>'
            = <<pc[u], size[u], at[u], entry[u], res[u], out[u], ran[u]>>
      BY <2>1 DEF Allow, AllowCall, AllowLoad, AllowSuppress, AllowCas, AllowTake, TypeOK, CallTypes
    <3> QED
      BY <2>1, <3>1, OthersUndisturbed
  <2>2. /\ Fresh(t) /\ Answered(t) /\ InHand(t)
        /\ pc[t] \in {"log", "next", "suppress", "cas", "take"}
        /\ pc'[t] \in {"next", "suppress", "cas", "take", "store"}
        /\ UNCHANGED <<res, size, at, entry, out, ran>>
    BY DEF CallInv, CallOK, Allow, AllowCall, AllowLoad, AllowSuppress, AllowCas, AllowTake, TypeOK
  <2>3. CallOK(t)'
    BY <2>2 DEF CallOK, Fresh, Answered, InHand, Answers
  <2> QED
    BY <2>1, <2>3 DEF CallInv
<1>3. VolumeReconstructible'
  <2> USE DEF VolumeReconstructible, TypeOK, LimTypes
  <2>1. CASE AllowCall(t)
    <3>1. Cardinality(InAllow') = Cardinality(InAllow) + 1 /\ Cardinality(InAllow) \in Nat
      BY <2>1, CountInAllow DEF AllowCall, Inside
    <3> QED BY <2>1, <3>1 DEF AllowCall
  <2>2. CASE AllowLoad(t) \/ AllowCas(t)
    <3>1. Cardinality(InAllow') = Cardinality(InAllow)
      <4>1. \E l \in Labels : /\ pc' = [pc EXCEPT ![t] = l]
                              /\ pc[t] \in Inside
                              /\ l \in Inside
        BY <2>2 DEF AllowLoad, AllowCas, Inside
      <4> QED BY <4>1, CountInAllow
    <3> QED BY <2>2, <3>1 DEF AllowLoad, AllowCas
  <2>3. CASE AllowSuppress(t)
    <3>1. Cardinality(InAllow') = Cardinality(InAllow) - 1 /\ Cardinality(InAllow) \in Nat
      BY <2>3, CountInAllow DEF AllowSuppress, Inside
    <3> QED BY <2>3, <3>1 DEF AllowSuppress
  <2>4. CASE AllowTake(t)
    <3>1. Cardinality(InAllow') = Cardinality(InAllow) - 1 /\ Cardinality(InAllow) \in Nat
      BY <2>4, CountInAllow DEF AllowTake, Inside
    <3> QED BY <2>4, <3>1 DEF AllowTake
  <2> QED
    BY <2>1, <2>2, <2>3, <2>4 DEF Allow
<1>4. SwapInv'
  <2>1. CASE AllowCall(t) \/ AllowLoad(t)
    BY <2>1 DEF AllowCall, AllowLoad, TypeOK, LimTypes, SwapInv
  <2>2. CASE AllowSuppress(t) \/ AllowTake(t)
    BY <2>2 DEF AllowSuppress, AllowTake, TypeOK, LimTypes, SwapInv
  <2>3. CASE AllowCas(t)
    BY <2>3 DEF AllowCas, TypeOK, LimTypes, SwapInv
  <2> QED
    BY <2>1, <2>2, <2>3 DEF Allow
<1> QED
  BY <1>1, <1>2, <1>3, <1>4

LEMMA NextPreserves == ASSUME IInv, [Next]_vars PROVE IInv'
<1>1. CASE UNCHANGED vars
  <2>1. UNCHANGED <<l1, pc, res, size, at, entry, out, ran, stamp, seen, next,
                    suppressed, owed>>
    BY <1>1 DEF vars, callVars, limVars
  <2> QED
    BY <2>1 DEF IInv, TypeOK, CallTypes, LimTypes, CallInv, CallOK, Fresh, Answered, InHand, Answers,
                VolumeReconstructible, InAllow, SwapInv
<1>2. CASE Swap
  BY <1>2, SwapPreserves
<1>3. ASSUME NEW t \in Threads, Evaluation(t) \/ Allow(t) PROVE IInv'
  BY <1>3, EvalPreserves, AllowPreserves
<1> QED
  BY <1>1, <1>2, <1>3 DEF Next

\* IInv holds in every reachable state.
THEOREM Invariance == Spec => []IInv
  BY InitEstablishes, NextPreserves, PTL DEF Spec

\* CACHE-1: a batch is answered from one configuration, however many goroutines
\* evaluate and however often L1 is swapped meanwhile.
THEOREM BatchesAreConsistent == Spec => []BatchOneSnapshot
<1>1. IInv => BatchOneSnapshot
  <2> SUFFICES ASSUME IInv, NEW t \in Threads, pc[t] = "returned",
                      NEW i \in 1..size[t]
               PROVE  /\ (ran[t][i] = "nothing") <=> (entry[t] = 0)
                      /\ out[t][i].gen # 0 => out[t][i].gen = entry[t]
    BY DEF BatchOneSnapshot
  <2>1. i \in Slots /\ i <= size[t]
    BY BoundAssumption DEF IInv, TypeOK, CallTypes, Slots
  <2>2. Answers(out[t][i], t, i)
    BY <2>1 DEF IInv, CallInv, CallOK, Answered
  <2> QED BY <2>2 DEF Answers
<1> QED
  BY <1>1, Invariance, PTL

\* The never-throw contract: a call returns whatever panics, with the engine's
\* answer for each element that got one and the default for each that did not.
THEOREM AnswersStand == Spec => []AnswersSurviveHooks
<1>1. IInv => AnswersSurviveHooks
  <2> SUFFICES ASSUME IInv, NEW t \in Threads
               PROVE  /\ pc[t] # "escaped"
                      /\ pc[t] = "returned" =>
                           \A i \in 1..size[t] : out[t][i].reason = Promised(ran[t][i])
    BY DEF AnswersSurviveHooks
  <2>1. pc[t] # "escaped"
    BY DEF IInv, TypeOK
  <2>2. ASSUME pc[t] = "returned", NEW i \in 1..size[t]
        PROVE  out[t][i].reason = Promised(ran[t][i])
    <3>1. i \in Slots /\ i <= size[t]
      BY BoundAssumption DEF IInv, TypeOK, CallTypes, Slots
    <3>2. Answers(out[t][i], t, i)
      BY <2>2, <3>1 DEF IInv, CallInv, CallOK, Answered
    <3> QED BY <3>2 DEF Answers
  <2> QED BY <2>1, <2>2
<1> QED
  BY <1>1, Invariance, PTL

\* sampled_of accounts for every event of a cell, for any number of goroutines.
THEOREM VolumeIsReconstructible == Spec => []VolumeReconstructible
<1>1. IInv => VolumeReconstructible
  BY DEF IInv
<1> QED
  BY <1>1, Invariance, PTL

\* A cell lets out one event an interval: whoever wins the swap does so with a clock
\* that has reached the earliest permitted emit, for any number of goroutines.
THEOREM EmitsAreSpaced == Spec => EmitsSpaced
<1> DEFINE Spaced == \A t \in Threads :
                        pc[t] = "cas" /\ pc'[t] = "take" => stamp[t] >= next
<1>1. ASSUME IInv, [Next]_vars PROVE [Spaced]_vars
  <2>1. CASE UNCHANGED vars
    BY <2>1
  <2>2. CASE Swap
    BY <2>2 DEF Swap
  <2>3. ASSUME NEW u \in Threads, Evaluation(u) PROVE Spaced
    BY <1>1, <2>3 DEF IInv, TypeOK, Evaluation, Call, Load, evaluate, evaluateOn, record,
                      recover, guarded, Store, Return, Goto
  <2>4. ASSUME NEW u \in Threads, Allow(u) PROVE Spaced
    BY <1>1, <2>4 DEF IInv, TypeOK, LimTypes, SwapInv, Allow, AllowCall, AllowLoad,
                      AllowSuppress, AllowCas, AllowTake, AllowReturn, Goto
  <2> QED
    BY <1>1, <2>1, <2>2, <2>3, <2>4 DEF Next
<1> QED
  BY <1>1, Invariance, PTL DEF Spec, EmitsSpaced
=============================================================================
