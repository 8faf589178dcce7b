--------------------------- MODULE FlagServerProofs ---------------------------
(***************************************************************************)
(* What the process promises, for any number of requests in flight, any     *)
(* environments and any batch length: proofs about FlagServer.             *)
(***************************************************************************)
EXTENDS FlagServer, TLAPS

USE ServerAssumption

Codes == {0, 200, 400, 500, 503}

Labels == {"idle", "pin", "eval", "names", "rows", "set", "build", "reply", "gone"}

Names == SUBSET Envs

Request ==
    [kind : {"none", "evaluate", "ready", "apply"}, on : Listeners, env : Envs, pc : Labels,
     seen : Nat, sawReady : BOOLEAN, pin : Nat, results : Seq(Nat), todo : Names,
     ok : BOOLEAN, wrote : Codes]

TypeInv ==
    /\ TypeOK
    /\ req \in [Requests -> Request]
    /\ mu \in Requests \cup {NoOne}
    /\ wasReady \in BOOLEAN

LEMMA IdleType == Idle \in Request
<1>3. {} \in Names
  BY DEF Names
<1>1. (CHOOSE e \in Envs : TRUE) \in Envs
  OBVIOUS
<1>2. <<>> \in Seq(Nat)
  OBVIOUS
<1> QED
  BY <1>1, <1>2, <1>3 DEF Idle, Request, Listeners, Labels, Codes

LEMMA WroteType ==
    ASSUME NEW q \in Request, NEW label \in Labels, NEW status \in Codes
    PROVE  [q EXCEPT !.pc = label, !.wrote = status] \in Request
  BY DEF Request

LEMMA RequestUpdates ==
    ASSUME NEW q \in Request
    PROVE  /\ \A label \in Labels : [q EXCEPT !.pc = label] \in Request
           /\ \A label \in Labels, gen \in Nat : [q EXCEPT !.pin = gen, !.pc = label] \in Request
           /\ \A all \in Seq(Nat) : [q EXCEPT !.results = all] \in Request
           /\ \A names \in Names, ok \in BOOLEAN :
                [q EXCEPT !.todo = names, !.ok = ok] \in Request
           /\ \A names \in Names, ok \in BOOLEAN, label \in Labels :
                [q EXCEPT !.todo = names, !.ok = ok, !.pc = label] \in Request
  BY DEF Request

\* A step of a handler writes one slot.
LEMMA OneSlot ==
    ASSUME req \in [Requests -> Request], NEW r \in Requests, NEW new \in Request,
           req' = [req EXCEPT ![r] = new]
    PROVE  /\ req' \in [Requests -> Request] /\ req'[r] = new
           /\ \A q \in Requests \ {r} : req'[q] = req[q]
  OBVIOUS

\* A handler that drops what it held keeps nothing of its request.
LEMMA DropFacts ==
    ASSUME TypeInv, NEW r \in Requests, NEW label \in {"reply", "gone"}, NEW status \in Codes,
           Drop(r, label, status)
    PROVE  /\ req' \in [Requests -> Request]
           /\ req'[r].pc = label /\ req'[r].wrote = status /\ req'[r].kind = "none"
           /\ \A q \in Requests \ {r} : req'[q] = req[q]
<1> DEFINE new == [Idle EXCEPT !.on = IF label = "gone" THEN @ ELSE req[r].on,
                               !.pc = label, !.wrote = status]
<1>1. req' = [req EXCEPT ![r] = new]
  BY DEF Drop
<1>2. /\ new \in Request
      /\ new.pc = label /\ new.wrote = status /\ new.kind = "none"
  <2>1. req[r].on \in Listeners /\ Idle.on \in Listeners
    BY IdleType DEF TypeInv, Request
  <2>2. label \in Labels
    BY DEF Labels
  <2>3. Idle.kind = "none"
    BY DEF Idle
  <2> QED
    BY <2>1, <2>2, <2>3, IdleType DEF Request
<1> HIDE DEF new
<1> QED
  BY <1>1, <1>2 DEF TypeInv

LEMMA InitServer == ASSUME Init PROVE TypeInv
<1>1. req \in [Requests -> Request] /\ \A r \in Requests : req[r].pc = "idle"
  BY IdleType DEF Init, Idle
<1>2. served \in [Envs -> 0..MaxGen]
  BY DEF Init
<1>3. server \in [Listeners -> {"unbound", "open", "dead", "closed"}]
  BY DEF Init
<1>4. answer \in [Requests -> {0, 200, 400, 500, 503}]
  BY DEF Init
<1> QED
  BY <1>1, <1>2, <1>3, <1>4 DEF Init, TypeInv, TypeOK

\* The steps of a handler keep the types, each by what it writes in its slot.
LEMMA EvaluateTypes ==
    ASSUME TypeInv, NEW r \in Requests, Pin(r) \/ EvalOne(r) \/ EvalDone(r) \/ EvalPanic(r)
    PROVE  TypeInv'
<1> USE DEF storeVars, lifeVars, At
<1>0. req \in [Requests -> Request] /\ req[r] \in Request /\ served[req[r].env] \in Nat
  BY DEF TypeInv, TypeOK, Request
<1>1. UNCHANGED <<table, served, mu, answer, main, code, signal, server, wasReady>>
  BY DEF Pin, EvalOne, EvalDone, EvalPanic
<1>2. /\ req' \in [Requests -> Request] /\ req[r].pc # "build" /\ req'[r].pc # "build"
      /\ \A q \in Requests \ {r} : req'[q] = req[q]
  <2>1. CASE Pin(r)
    <3> DEFINE new == [req[r] EXCEPT !.pin = served[req[r].env], !.pc = "eval"]
    <3>1. req' = [req EXCEPT ![r] = new]
      BY <2>1 DEF Pin
    <3>2. new \in Request
      BY <1>0, RequestUpdates DEF Labels
    <3>3. new.pc # "build" /\ req[r].pc # "build"
      BY <1>0, <2>1 DEF Pin, Request
    <3> HIDE DEF new
    <3> QED
      BY <1>0, <3>1, <3>2, <3>3, OneSlot
  <2>2. CASE EvalOne(r)
    <3> DEFINE new == [req[r] EXCEPT !.results = Append(@, req[r].pin)]
    <3>0. Append(req[r].results, req[r].pin) \in Seq(Nat)
      BY <1>0 DEF Request
    <3>1. req' = [req EXCEPT ![r] = new]
      BY <2>2 DEF EvalOne
    <3>2. new \in Request
      BY <1>0, <3>0, RequestUpdates
    <3>3. new.pc # "build" /\ req[r].pc # "build"
      BY <1>0, <2>2 DEF EvalOne, Request
    <3> HIDE DEF new
    <3> QED
      BY <1>0, <3>1, <3>2, <3>3, OneSlot
  <2>3. CASE EvalDone(r)
    <3> DEFINE new == [req[r] EXCEPT !.pc = "reply", !.wrote = 200]
    <3>0. "reply" \in Labels /\ 200 \in Codes
      BY DEF Labels, Codes
    <3>1. req' = [req EXCEPT ![r] = new]
      BY <2>3 DEF EvalDone, Reply
    <3>2. new \in Request
      BY <1>0, <3>0, WroteType
    <3>3. new.pc # "build" /\ req[r].pc # "build"
      BY <1>0, <2>3 DEF EvalDone, Request
    <3> HIDE DEF new
    <3> QED
      BY <1>0, <3>1, <3>2, <3>3, OneSlot
  <2>4. CASE EvalPanic(r)
    BY <1>0, <2>4, DropFacts DEF EvalPanic, Codes
  <2> QED
    BY <2>1, <2>2, <2>3, <2>4
<1> QED
  BY <1>1, <1>2 DEF TypeInv, TypeOK

LEMMA ReadyTypes ==
    ASSUME TypeInv, NEW r \in Requests, ReadyNames(r) \/ ReadyRow(r) \/ ReadyDone(r)
    PROVE  TypeInv'
<1> USE DEF storeVars, lifeVars, At
<1>0. req \in [Requests -> Request] /\ req[r] \in Request /\ table \subseteq Envs
  BY DEF TypeInv, TypeOK
<1>1. UNCHANGED <<table, served, mu, answer, main, code, signal, server, wasReady>>
  BY DEF ReadyNames, ReadyRow, ReadyDone
<1>2. /\ req' \in [Requests -> Request] /\ req[r].pc # "build" /\ req'[r].pc # "build"
      /\ \A q \in Requests \ {r} : req'[q] = req[q]
  <2>1. CASE ReadyNames(r)
    <3> DEFINE names == IF Required # {} THEN Required ELSE table
               new == [req[r] EXCEPT !.todo = names, !.ok = names # {}, !.pc = "rows"]
    <3>1. req' = [req EXCEPT ![r] = new]
      BY <2>1 DEF ReadyNames
    <3>2. names \in Names /\ (names # {}) \in BOOLEAN /\ "rows" \in Labels
      BY <1>0 DEF Names, Labels
    <3>3. new.pc # "build" /\ req[r].pc # "build"
      BY <1>0, <2>1 DEF ReadyNames, Request
    <3> HIDE DEF names
    <3>4. new \in Request
      BY <1>0, <3>2, RequestUpdates
    <3> HIDE DEF new
    <3> QED
      BY <1>0, <3>1, <3>3, <3>4, OneSlot
  <2>2. CASE ReadyRow(r)
    <3>1. PICK e \in req[r].todo :
            req' = [req EXCEPT ![r].todo = @ \ {e}, ![r].ok = @ /\ served[e] # 0]
      BY <2>2 DEF ReadyRow
    <3> DEFINE names == req[r].todo \ {e}
               ok == req[r].ok /\ served[e] # 0
               new == [req[r] EXCEPT !.todo = names, !.ok = ok]
    <3>2. req' = [req EXCEPT ![r] = new]
      BY <3>1
    <3>3. names \in Names /\ ok \in BOOLEAN
      BY <1>0 DEF Names, Request
    <3>4. req[r].pc # "build"
      BY <2>2 DEF ReadyRow
    <3> HIDE DEF names, ok
    <3>5. new \in Request
      BY <1>0, <3>3, RequestUpdates
    <3>6. new.pc = req[r].pc
      BY <1>0 DEF Request
    <3> HIDE DEF new
    <3> QED
      BY <1>0, <3>2, <3>4, <3>5, <3>6, OneSlot
  <2>3. CASE ReadyDone(r)
    <3> DEFINE status == IF req[r].ok THEN 200 ELSE 503
               new == [req[r] EXCEPT !.pc = "reply", !.wrote = status]
    <3>1. req' = [req EXCEPT ![r].pc = "reply", ![r].wrote = status] /\ req[r].pc # "build"
      BY <2>3 DEF ReadyDone, Reply
    <3>2. status \in Codes /\ "reply" \in Labels
      BY DEF Labels, Codes
    <3> HIDE DEF status
    <3>3. new \in Request
      BY <1>0, <3>2, WroteType
    <3>5. new.pc # "build"
      BY <1>0 DEF Request
    <3>4. req' = [req EXCEPT ![r] = new]
      BY <3>1
    <3> HIDE DEF new
    <3> QED
      BY <1>0, <3>1, <3>3, <3>4, <3>5, OneSlot
  <2> QED
    BY <2>1, <2>2, <2>3
<1> QED
  BY <1>1, <1>2 DEF TypeInv, TypeOK

LEMMA ApplyTypes ==
    ASSUME TypeInv, NEW r \in Requests, ApplyLock(r) \/ ApplyBuild(r) \/ ApplyDone(r)
    PROVE  TypeInv'
<1> USE DEF storeVars, lifeVars, At
<1>0. /\ req \in [Requests -> Request] /\ req[r] \in Request /\ table \subseteq Envs
      /\ served \in [Envs -> 0..MaxGen]
  BY DEF TypeInv, TypeOK
<1>1. CASE ApplyLock(r)
  <2>1. /\ req' \in [Requests -> Request] /\ req'[r].pc = "build"
        /\ \A q \in Requests \ {r} : req'[q] = req[q]
    <3>1. req[r].todo \in Names /\ req[r].ok \in BOOLEAN /\ table \in Names /\ "build" \in Labels
      BY <1>0 DEF Request, Names, Labels
    <3>2. ASSUME NEW names \in Names, NEW ok \in BOOLEAN,
                 req' = [req EXCEPT ![r] =
                           [req[r] EXCEPT !.todo = names, !.ok = ok, !.pc = "build"]]
          PROVE  <2>1
      <4> DEFINE new == [req[r] EXCEPT !.todo = names, !.ok = ok, !.pc = "build"]
      <4>1. new \in Request
        BY <1>0, <3>1, RequestUpdates
      <4>2. new.pc = "build"
        BY <1>0 DEF Request
      <4>3. req' = [req EXCEPT ![r] = new]
        BY <3>2
      <4> HIDE DEF new
      <4> QED
        BY <1>0, <4>1, <4>2, <4>3, OneSlot
    <3>3. CASE req' = [req EXCEPT ![r].todo = table, ![r].pc = "build"]
      <4>1. req' = [req EXCEPT ![r] =
                      [req[r] EXCEPT !.todo = table, !.ok = req[r].ok, !.pc = "build"]]
        BY <1>0, <3>3 DEF Request
      <4> QED
        BY <3>1, <3>2, <4>1
    <3>4. ASSUME NEW e \in Envs, req' = [req EXCEPT ![r].todo = {e}, ![r].pc = "build"]
          PROVE  <2>1
      <4>1. req' = [req EXCEPT ![r] =
                      [req[r] EXCEPT !.todo = {e}, !.ok = req[r].ok, !.pc = "build"]]
        BY <1>0, <3>4 DEF Request
      <4>2. {e} \in Names
        BY DEF Names
      <4> QED
        BY <3>1, <3>2, <4>1, <4>2
    <3>5. CASE req' = [req EXCEPT ![r].ok = FALSE, ![r].pc = "build"]
      <4>1. req' = [req EXCEPT ![r] =
                      [req[r] EXCEPT !.todo = req[r].todo, !.ok = FALSE, !.pc = "build"]]
        BY <1>0, <3>5 DEF Request
      <4> QED
        BY <3>1, <3>2, <4>1
    <3> QED
      BY <1>1, <3>3, <3>4, <3>5 DEF ApplyLock
  <2>2. table' \subseteq Envs
    BY <1>0, <1>1 DEF ApplyLock
  <2> QED
    BY <1>1, <2>1, <2>2 DEF ApplyLock, TypeInv, TypeOK
<1>2. CASE ApplyBuild(r)
  <2>1. served' \in [Envs -> 0..MaxGen]
    <3>1. PICK e \in req[r].todo :
            \/ served[e] < MaxGen /\ served' = [served EXCEPT ![e] = @ + 1]
            \/ served' = served
      BY <1>2 DEF ApplyBuild
    <3>2. e \in Envs
      BY <1>0, <3>1 DEF Request, Names
    <3> QED
      BY <1>0, <3>1, <3>2
  <2>2. /\ req' \in [Requests -> Request] /\ req'[r].pc = "build"
        /\ \A q \in Requests \ {r} : req'[q] = req[q]
    <3>1. ASSUME NEW e \in req[r].todo, NEW ok \in BOOLEAN,
                 req' = [req EXCEPT ![r].todo = @ \ {e}, ![r].ok = ok]
          PROVE  <2>2
      <4> DEFINE names == req[r].todo \ {e}
                 new == [req[r] EXCEPT !.todo = names, !.ok = ok]
      <4>1. names \in Names
        BY <1>0 DEF Request, Names
      <4>2. req' = [req EXCEPT ![r] = new]
        BY <3>1
      <4> HIDE DEF names
      <4>3. new \in Request
        BY <1>0, <4>1, RequestUpdates
      <4>4. new.pc = "build"
        BY <1>0, <1>2 DEF ApplyBuild, Request
      <4> HIDE DEF new
      <4> QED
        BY <1>0, <4>2, <4>3, <4>4, OneSlot
    <3>2. ASSUME NEW e \in req[r].todo, NEW clean \in BOOLEAN,
                 req' = [req EXCEPT ![r].todo = @ \ {e}, ![r].ok = @ /\ clean]
          PROVE  <2>2
      <4>1. (req[r].ok /\ clean) \in BOOLEAN
        OBVIOUS
      <4>2. req' = [req EXCEPT ![r].todo = @ \ {e}, ![r].ok = req[r].ok /\ clean]
        BY <1>0, <3>2
      <4> QED
        BY <3>1, <4>1, <4>2
    <3> QED
      BY <1>2, <3>1, <3>2 DEF ApplyBuild
  <2> QED
    BY <1>2, <2>1, <2>2 DEF ApplyBuild, TypeInv, TypeOK
<1>3. CASE ApplyDone(r)
  <2>1. /\ req' \in [Requests -> Request] /\ req'[r].pc = "reply"
        /\ \A q \in Requests \ {r} : req'[q] = req[q]
    BY <1>3, DropFacts DEF ApplyDone, Codes
  <2> QED
    BY <1>3, <2>1 DEF ApplyDone, TypeInv, TypeOK
<1> QED
  BY <1>1, <1>2, <1>3

LEMMA BoundaryTypes ==
    ASSUME TypeInv, NEW r \in Requests, HandlerPanic(r) \/ Commit(r) \/ Timeout(r)
    PROVE  TypeInv'
<1> USE DEF storeVars, lifeVars, At
<1>1. CASE HandlerPanic(r)
  <2>1. /\ req' \in [Requests -> Request] /\ req'[r].pc = "reply"
        /\ \A q \in Requests \ {r} : req'[q] = req[q]
    BY <1>1, DropFacts DEF HandlerPanic, Codes
  <2> QED
    BY <1>1, <2>1 DEF HandlerPanic, Unlocked, TypeInv, TypeOK
<1>2. CASE Commit(r)
  <2>1. /\ req' \in [Requests -> Request] /\ req'[r].pc = "gone" /\ req[r].pc = "reply"
        /\ \A q \in Requests \ {r} : req'[q] = req[q]
    BY <1>2, DropFacts DEF Commit, Codes
  <2>2. answer' \in [Requests -> {0, 200, 400, 500, 503}]
    BY <1>2 DEF Commit, TypeInv, TypeOK, Request, Codes
  <2>3. wasReady' \in BOOLEAN
    BY <1>2 DEF Commit, TypeInv
  <2> QED
    BY <1>2, <2>1, <2>2, <2>3 DEF Commit, TypeInv, TypeOK
<1>3. CASE Timeout(r)
  BY <1>3 DEF Timeout, TypeInv, TypeOK
<1> QED
  BY <1>1, <1>2, <1>3

\* What the step that takes a request leaves in its slot.
Started(r, kind, env) ==
    /\ kind \in {"evaluate", "ready", "apply"}
    /\ req'[r].kind = kind /\ req'[r].env = env /\ req'[r].pc = First(kind)
    /\ req'[r].seen = (IF kind = "evaluate" THEN served[env] ELSE 0)
    /\ req'[r].sawReady = (kind = "ready" /\ wasReady)
    /\ req'[r].results = <<>>

LEMMA RefusedType ==
    ASSUME NEW l \in Listeners
    PROVE  [Idle EXCEPT !.on = l, !.pc = "reply", !.wrote = 400] \in Request
<1>1. [Idle EXCEPT !.on = l] \in Request
  BY IdleType DEF Request
<1> DEFINE taken == [Idle EXCEPT !.on = l]
           label == "reply"
           status == 400
<1>2. label \in Labels /\ status \in Codes
  BY DEF Labels, Codes
<1> HIDE DEF taken, label, status
<1>3. [taken EXCEPT !.pc = label, !.wrote = status] \in Request
  BY <1>1, <1>2, WroteType DEF taken
<1> QED
  BY <1>3 DEF taken, label, status

LEMMA AcceptFacts ==
    ASSUME TypeInv, NEW r \in Requests, NEW l \in Listeners,
           NEW kind \in Routes("eval") \cup Routes("admin"), NEW env \in Envs,
           Accept(r, l, kind, env)
    PROVE  /\ req' \in [Requests -> Request]
           /\ \A q \in Requests \ {r} : req'[q] = req[q]
           /\ \/ Started(r, kind, env)
              \/ req'[r].pc = "reply" /\ req'[r].kind = "none" /\ req'[r].wrote = 400
<1> DEFINE started == [Idle EXCEPT !.kind = kind, !.on = l, !.env = env,
                                   !.seen = IF kind = "evaluate" THEN served[env] ELSE 0,
                                   !.sawReady = kind = "ready" /\ wasReady,
                                   !.pc = First(kind)]
           refused == [Idle EXCEPT !.on = l, !.pc = "reply", !.wrote = 400]
<1>1. req' = [req EXCEPT ![r] = started] \/ req' = [req EXCEPT ![r] = refused]
  BY DEF Accept
<1>2. kind \in {"evaluate", "ready", "apply"}
  BY DEF Routes
<1>3. First(kind) \in {"pin", "names", "set"} /\ served[env] \in Nat
  BY <1>2 DEF First, TypeInv, TypeOK
<1>4. started \in Request
  <2> DEFINE seen == IF kind = "evaluate" THEN served[env] ELSE 0
             saw == kind = "ready" /\ wasReady
  <2>1. seen \in Nat /\ saw \in BOOLEAN /\ First(kind) \in Labels
    BY <1>3 DEF TypeInv, Labels
  <2> HIDE DEF seen, saw
  <2>2. [Idle EXCEPT !.kind = kind, !.on = l, !.env = env] \in Request
    BY <1>2, IdleType DEF Request
  <2>3. \A q \in Request : [q EXCEPT !.seen = seen, !.sawReady = saw, !.pc = First(kind)] \in Request
    BY <2>1 DEF Request
  <2>4. started = [[Idle EXCEPT !.kind = kind, !.on = l, !.env = env]
                     EXCEPT !.seen = seen, !.sawReady = saw, !.pc = First(kind)]
    BY DEF seen, saw
  <2> QED
    BY <2>2, <2>3, <2>4
<1>5. refused \in Request
  BY RefusedType
<1>7. refused.pc = "reply" /\ refused.kind = "none" /\ refused.wrote = 400
  BY DEF Idle
<1>6. /\ started.kind = kind /\ started.env = env /\ started.pc = First(kind)
      /\ started.seen = (IF kind = "evaluate" THEN served[env] ELSE 0)
      /\ started.sawReady = (kind = "ready" /\ wasReady)
      /\ started.results = <<>>
  BY DEF Idle
<1> HIDE DEF started, refused
<1> QED
  BY <1>1, <1>2, <1>4, <1>5, <1>6, <1>7 DEF TypeInv, Started

LEMMA AcceptTypes ==
    ASSUME TypeInv, NEW r \in Requests, NEW l \in Listeners,
           NEW kind \in Routes("eval") \cup Routes("admin"), NEW env \in Envs,
           Accept(r, l, kind, env)
    PROVE  TypeInv'
<1>1. /\ req' \in [Requests -> Request] /\ req'[r].pc # "build"
      /\ \A q \in Requests \ {r} : req'[q] = req[q]
  BY AcceptFacts DEF Started, First
<1>2. req[r].pc # "build" /\ UNCHANGED <<table, served, mu, main, code, signal, server, wasReady>>
  BY DEF Accept, At, storeVars, lifeVars
<1>3. answer' \in [Requests -> {0, 200, 400, 500, 503}]
  BY DEF Accept, TypeInv, TypeOK
<1> QED
  BY <1>1, <1>2, <1>3 DEF TypeInv, TypeOK

LEMMA ProcessTypes ==
    ASSUME TypeInv,
           \/ Start \/ MainSignal \/ MainError \/ Shutdown
           \/ \E l \in Listeners : ListenerDies(l) \/ ListenerPanics(l)
    PROVE  TypeInv'
<1> USE DEF storeVars, TypeInv, TypeOK
<1>1. CASE Start
  BY <1>1 DEF Start
<1>2. CASE MainSignal
  BY <1>2 DEF MainSignal, LeaveSelect
<1>6. CASE MainError
  BY <1>6 DEF MainError, LeaveSelect
<1>3. CASE \E l \in Listeners : StopListening(l)
  BY <1>3 DEF StopListening
<1>4. CASE Exit \/ Deadline
  BY <1>4 DEF Exit, Deadline
<1>5. CASE \E l \in Listeners : ListenerDies(l) \/ ListenerPanics(l)
  BY <1>5 DEF ListenerDies, ListenerPanics
<1> QED
  BY <1>1, <1>2, <1>3, <1>4, <1>5, <1>6 DEF Shutdown

LEMMA StepTypes ==
    ASSUME TypeInv, [Next]_vars
    PROVE  TypeInv'
<1>1. CASE UNCHANGED vars
  BY <1>1 DEF vars, storeVars, lifeVars, TypeInv, TypeOK
<1> QED
  BY <1>1, AcceptTypes, EvaluateTypes, ReadyTypes, ApplyTypes, BoundaryTypes, ProcessTypes
     DEF Next, Handle

LEMMA Types == Spec => []TypeInv
<1>1. Init => TypeInv
  BY InitServer
<1>2. TypeInv /\ [Next]_vars => TypeInv'
  BY StepTypes
<1> QED
  BY <1>1, <1>2, PTL DEF Spec

\* The state keeps its types, and Store.mu is held by exactly the push that is
\* building: a panic in the middle of a push gives it back (Set's deferred unlock).
THEOREM LockIsHeldByTheBuilder == Spec => []TypeOK
<1>1. TypeInv => TypeOK
  BY DEF TypeInv
<1> QED
  BY <1>1, Types, PTL

-----------------------------------------------------------------------------
(* What a handler holds.                                                   *)

Loaded == \A e \in Required : served[e] # 0

\* An evaluation answers from its one load, which is no older than the request.
BatchInv(q) ==
    req[q].kind = "evaluate" =>
        /\ req[q].pc \in {"pin", "eval", "reply"}
        /\ req[q].seen <= served[req[q].env]
        /\ req[q].pc = "pin" => req[q].results = <<>>
        /\ req[q].pc \in {"eval", "reply"} =>
             /\ req[q].seen <= req[q].pin /\ req[q].pin <= served[req[q].env]
             /\ \A i \in 1..Len(req[q].results) : req[q].results[i] = req[q].pin
        /\ req[q].pc = "reply" => Len(req[q].results) = BatchLen

\* A readiness check has still to look at an environment, or has seen it loaded.
ReadyInv(q) ==
    req[q].kind = "ready" =>
        /\ req[q].pc \in {"names", "rows", "reply"}
        /\ req[q].sawReady => Loaded
        /\ req[q].pc = "rows" =>
             /\ req[q].ok => \A e \in Required : e \in req[q].todo \/ served[e] # 0
             /\ Required # {} => req[q].todo \subseteq Required
             /\ Required # {} /\ req[q].sawReady => req[q].ok
        /\ req[q].pc = "reply" =>
             /\ req[q].wrote = 200 => Loaded
             /\ Required # {} /\ req[q].sawReady => req[q].wrote = 200

HandlerInv == \A q \in Requests : BatchInv(q) /\ ReadyInv(q)

\* Before its handler is over a request has no answer but that of the timeout.
AnswerInv ==
    \A q \in Requests :
        /\ req[q].pc = "idle" => answer[q] = 0
        /\ req[q].pc \notin {"idle", "gone"} => answer[q] \in {0, 503}

WasReadyInv == wasReady => Loaded

Grows == \A e \in Envs : served'[e] >= served[e]

LEMMA StepGrows == ASSUME TypeInv, [Next]_vars PROVE Grows
<1> USE DEF Grows, storeVars
<1>0. served \in [Envs -> Nat]
  BY DEF TypeInv, TypeOK
<1>1. CASE served' = served
  BY <1>0, <1>1
<1>2. ASSUME NEW r \in Requests, ApplyBuild(r) PROVE Grows
  <2>1. PICK e \in req[r].todo :
          served' = [served EXCEPT ![e] = @ + 1] \/ served' = served
    BY <1>2 DEF ApplyBuild
  <2> QED
    BY <1>0, <2>1
<1>3. ASSUME NEW r \in Requests, Handle(r), ~ApplyBuild(r) PROVE served' = served
  BY <1>3 DEF Handle, Pin, EvalOne, EvalDone, ReadyNames, ReadyRow, ReadyDone, ApplyLock,
              ApplyDone, Commit
<1>4. ASSUME NEW r \in Requests, EvalPanic(r) \/ HandlerPanic(r) \/ Timeout(r)
      PROVE  served' = served
  BY <1>4 DEF EvalPanic, HandlerPanic, Timeout
<1>5. ASSUME NEW r \in Requests, NEW l \in Listeners, NEW kind \in Routes("eval") \cup Routes("admin"),
             NEW env \in Envs, Accept(r, l, kind, env)
      PROVE  served' = served
  BY <1>5 DEF Accept
<1>6. ASSUME Start \/ MainSignal \/ MainError \/ Shutdown
             \/ \E l \in Listeners : ListenerDies(l) \/ ListenerPanics(l)
      PROVE  served' = served
  BY <1>6 DEF Start, LeaveSelect, MainSignal, MainError, Shutdown, StopListening, Exit, Deadline,
              ListenerDies, ListenerPanics
<1>7. ASSUME UNCHANGED vars PROVE served' = served
  BY <1>7 DEF vars
<1> QED
  BY <1>1, <1>2, <1>3, <1>4, <1>5, <1>6, <1>7 DEF Next

\* Pushes only add to what a request that does not move has relied on.
LEMMA Untouched ==
    ASSUME TypeInv, TypeInv', Grows, NEW q \in Requests, req'[q] = req[q],
           BatchInv(q) /\ ReadyInv(q)
    PROVE  BatchInv(q)' /\ ReadyInv(q)'
<1>1. /\ req[q].env \in Envs /\ req[q].seen \in Nat /\ req[q].pin \in Nat
      /\ served \in [Envs -> Nat] /\ served' \in [Envs -> Nat]
  BY DEF TypeInv, TypeOK, Request
<1>2. \A e \in Envs : served[e] # 0 => served'[e] # 0
  BY <1>1 DEF Grows
<1>3. Loaded => Loaded'
  BY <1>2 DEF Loaded
<1>4. served[req[q].env] <= served'[req[q].env]
  BY <1>1 DEF Grows
<1>5. BatchInv(q)'
  BY <1>1, <1>4 DEF BatchInv
<1>6. ReadyInv(q)'
  BY <1>1, <1>2, <1>3 DEF ReadyInv
<1> QED
  BY <1>5, <1>6

LEMMA EvaluateHolds ==
    ASSUME TypeInv, HandlerInv, NEW r \in Requests,
           Pin(r) \/ EvalOne(r) \/ EvalDone(r) \/ EvalPanic(r)
    PROVE  BatchInv(r)' /\ ReadyInv(r)'
<1> USE DEF At, storeVars
<1>0. /\ req \in [Requests -> Request] /\ req[r] \in Request
      /\ served[req[r].env] \in Nat /\ req[r].pin \in Nat /\ req[r].seen \in Nat
      /\ req[r].results \in Seq(Nat)
      /\ BatchInv(r) /\ ReadyInv(r)
  BY DEF TypeInv, TypeOK, Request, HandlerInv
<1>1. CASE Pin(r)
  <2>1. /\ req'[r].kind = req[r].kind /\ req'[r].env = req[r].env /\ req'[r].seen = req[r].seen
        /\ req'[r].results = req[r].results /\ req'[r].pin = served[req[r].env]
        /\ req'[r].pc = "eval" /\ req[r].pc = "pin" /\ served' = served
    BY <1>0, <1>1 DEF Pin, Request
  <2> QED
    BY <1>0, <2>1 DEF BatchInv, ReadyInv
<1>2. CASE EvalOne(r)
  <2>1. /\ req'[r].kind = req[r].kind /\ req'[r].env = req[r].env /\ req'[r].seen = req[r].seen
        /\ req'[r].results = Append(req[r].results, req[r].pin) /\ req'[r].pin = req[r].pin
        /\ req'[r].pc = "eval" /\ req[r].pc = "eval" /\ served' = served
    BY <1>0, <1>2 DEF EvalOne, Request
  <2>2. req[r].kind = "evaluate" =>
          \A i \in 1..Len(req'[r].results) : req'[r].results[i] = req'[r].pin
    BY <1>0, <2>1 DEF BatchInv
  <2> QED
    BY <1>0, <2>1, <2>2 DEF BatchInv, ReadyInv
<1>3. CASE EvalDone(r)
  <2>1. /\ req'[r].kind = req[r].kind /\ req'[r].env = req[r].env /\ req'[r].seen = req[r].seen
        /\ req'[r].results = req[r].results /\ req'[r].pin = req[r].pin
        /\ req'[r].pc = "reply" /\ req[r].pc = "eval" /\ served' = served
        /\ Len(req[r].results) = BatchLen
    BY <1>0, <1>3 DEF EvalDone, Reply, Request
  <2> QED
    BY <1>0, <2>1 DEF BatchInv, ReadyInv
<1>4. CASE EvalPanic(r)
  <2>1. req'[r].kind = "none"
    BY <1>4, DropFacts DEF EvalPanic, Codes
  <2> QED
    BY <2>1 DEF BatchInv, ReadyInv
<1> QED
  BY <1>1, <1>2, <1>3, <1>4

LEMMA ReadyHolds ==
    ASSUME TypeInv, HandlerInv, NEW r \in Requests, ReadyNames(r) \/ ReadyRow(r) \/ ReadyDone(r)
    PROVE  BatchInv(r)' /\ ReadyInv(r)'
<1> USE DEF At, storeVars
<1>0. /\ req \in [Requests -> Request] /\ req[r] \in Request
      /\ req[r].todo \subseteq Envs /\ req[r].ok \in BOOLEAN
      /\ BatchInv(r) /\ ReadyInv(r)
  BY DEF TypeInv, TypeOK, Request, Names, HandlerInv
<1>1. CASE ReadyNames(r)
  <2>1. /\ req'[r].kind = req[r].kind /\ req'[r].sawReady = req[r].sawReady
        /\ Required # {} => req'[r].todo = Required /\ req'[r].ok = TRUE
        /\ req'[r].pc = "rows" /\ req[r].pc = "names" /\ served' = served
    BY <1>0, <1>1 DEF ReadyNames, Request
  <2> QED
    BY <1>0, <2>1 DEF BatchInv, ReadyInv, Loaded
<1>2. CASE ReadyRow(r)
  <2>1. PICK e \in req[r].todo :
          req' = [req EXCEPT ![r].todo = @ \ {e}, ![r].ok = @ /\ served[e] # 0]
    BY <1>2 DEF ReadyRow
  <2>2. /\ req'[r].kind = req[r].kind /\ req'[r].sawReady = req[r].sawReady
        /\ req'[r].todo = req[r].todo \ {e} /\ req'[r].ok = (req[r].ok /\ served[e] # 0)
        /\ req'[r].pc = "rows" /\ req[r].pc = "rows" /\ served' = served
    BY <1>0, <1>2, <2>1 DEF ReadyRow, Request
  <2>3. BatchInv(r)'
    BY <1>0, <2>2 DEF BatchInv
  <2>4. ASSUME req[r].kind = "ready"
        PROVE  /\ req'[r].ok => \A f \in Required : f \in req'[r].todo \/ served'[f] # 0
               /\ Required # {} => req'[r].todo \subseteq Required
               /\ Required # {} /\ req'[r].sawReady => req'[r].ok
    <3>1. req'[r].ok => \A f \in Required : f \in req'[r].todo \/ served'[f] # 0
      BY <1>0, <2>2, <2>4 DEF ReadyInv
    <3>2. Required # {} => req'[r].todo \subseteq Required
      BY <1>0, <2>2, <2>4 DEF ReadyInv
    <3>3. Required # {} /\ req'[r].sawReady => req'[r].ok
      BY <1>0, <2>1, <2>2, <2>4 DEF ReadyInv, Loaded
    <3> QED
      BY <3>1, <3>2, <3>3
  <2>5. req[r].sawReady /\ req[r].kind = "ready" => Loaded'
    BY <1>0, <2>2 DEF ReadyInv, Loaded
  <2>6. ReadyInv(r)'
    BY <2>2, <2>4, <2>5 DEF ReadyInv
  <2> QED
    BY <2>3, <2>6
<1>3. CASE ReadyDone(r)
  <2>1. /\ req'[r].kind = req[r].kind /\ req'[r].sawReady = req[r].sawReady
        /\ req'[r].wrote = (IF req[r].ok THEN 200 ELSE 503) /\ req[r].todo = {}
        /\ req'[r].pc = "reply" /\ req[r].pc = "rows" /\ served' = served
    BY <1>0, <1>3 DEF ReadyDone, Reply, Request
  <2> QED
    BY <1>0, <2>1 DEF BatchInv, ReadyInv, Loaded
<1> QED
  BY <1>1, <1>2, <1>3

\* Taking the lock and building keep the kind of the request and the other slots.
LEMMA BuildFacts ==
    ASSUME req \in [Requests -> Request], NEW r \in Requests, ApplyLock(r) \/ ApplyBuild(r)
    PROVE  /\ req[r].pc \in {"set", "build"} /\ req'[r].pc = "build"
           /\ req'[r].kind = req[r].kind
           /\ \A q \in Requests \ {r} : req'[q] = req[q]
<1> USE DEF At
<1>1. CASE ApplyLock(r)
  <2>0. req[r].pc = "set"
    BY <1>1 DEF ApplyLock
  <2>1. CASE req' = [req EXCEPT ![r].todo = table, ![r].pc = "build"]
    BY <2>1, <2>0 DEF Request
  <2>2. ASSUME NEW e \in Envs, req' = [req EXCEPT ![r].todo = {e}, ![r].pc = "build"]
        PROVE  /\ req'[r].pc = "build" /\ req'[r].kind = req[r].kind
               /\ \A q \in Requests \ {r} : req'[q] = req[q]
    BY <2>2 DEF Request
  <2>3. CASE req' = [req EXCEPT ![r].ok = FALSE, ![r].pc = "build"]
    BY <2>3, <2>0 DEF Request
  <2> QED
    BY <1>1, <2>1, <2>2, <2>3, <2>0 DEF ApplyLock
<1>2. CASE ApplyBuild(r)
  BY <1>2 DEF ApplyBuild, Request
<1> QED
  BY <1>1, <1>2

LEMMA ApplyHolds ==
    ASSUME TypeInv, HandlerInv, NEW r \in Requests, ApplyLock(r) \/ ApplyBuild(r) \/ ApplyDone(r)
    PROVE  BatchInv(r)' /\ ReadyInv(r)'
<1> USE DEF At
<1>0. req \in [Requests -> Request] /\ req[r] \in Request /\ BatchInv(r) /\ ReadyInv(r)
  BY DEF TypeInv, HandlerInv
<1>1. req[r].pc \in {"set", "build"}
  BY DEF ApplyLock, ApplyBuild, ApplyDone
<1>2. req[r].kind \notin {"evaluate", "ready"}
  BY <1>0, <1>1 DEF BatchInv, ReadyInv
<1>3. req'[r].kind \notin {"evaluate", "ready"}
  <2>1. CASE ApplyLock(r) \/ ApplyBuild(r)
    BY <1>0, <1>2, <2>1, BuildFacts
  <2>2. CASE ApplyDone(r)
    BY <2>2, DropFacts DEF ApplyDone, Codes
  <2> QED
    BY <2>1, <2>2
<1> QED
  BY <1>3 DEF BatchInv, ReadyInv

LEMMA BoundaryHolds ==
    ASSUME TypeInv, HandlerInv, NEW r \in Requests, HandlerPanic(r) \/ Commit(r)
    PROVE  BatchInv(r)' /\ ReadyInv(r)'
<1>1. req'[r].kind = "none"
  <2>1. CASE HandlerPanic(r)
    BY <2>1, DropFacts DEF HandlerPanic, Codes
  <2>2. CASE Commit(r)
    BY <2>2, DropFacts DEF Commit, Codes
  <2> QED
    BY <2>1, <2>2
<1> QED
  BY <1>1 DEF BatchInv, ReadyInv

LEMMA AcceptHolds ==
    ASSUME TypeInv, WasReadyInv, NEW r \in Requests, NEW l \in Listeners,
           NEW kind \in Routes("eval") \cup Routes("admin"), NEW env \in Envs,
           Accept(r, l, kind, env)
    PROVE  BatchInv(r)' /\ ReadyInv(r)'
<1>1. served' = served /\ served[env] \in Nat
  BY DEF Accept, storeVars, TypeInv, TypeOK
<1>2. CASE Started(r, kind, env)
  <2>1. CASE kind = "evaluate"
    BY <1>1, <1>2, <2>1 DEF Started, First, BatchInv, ReadyInv
  <2>2. CASE kind = "ready"
    BY <1>1, <1>2, <2>2 DEF Started, First, BatchInv, ReadyInv, WasReadyInv, Loaded
  <2>3. CASE kind = "apply"
    BY <1>2, <2>3 DEF Started, BatchInv, ReadyInv
  <2> QED
    BY <1>2, <2>1, <2>2, <2>3 DEF Started
<1>3. CASE req'[r].kind = "none"
  BY <1>3 DEF BatchInv, ReadyInv
<1> QED
  BY <1>2, <1>3, AcceptFacts

\* Whose slot a step writes.
LEMMA StepHandlers ==
    ASSUME TypeInv, HandlerInv, WasReadyInv, [Next]_vars
    PROVE  HandlerInv'
<1>0. TypeInv' /\ Grows
  BY StepTypes, StepGrows
<1>1. ASSUME NEW r \in Requests, \A q \in Requests \ {r} : req'[q] = req[q],
             BatchInv(r)' /\ ReadyInv(r)'
      PROVE  HandlerInv'
  BY <1>0, <1>1, Untouched DEF HandlerInv
<1>2. ASSUME UNCHANGED req PROVE HandlerInv'
  BY <1>0, <1>2, Untouched DEF HandlerInv
<1>3. ASSUME NEW r \in Requests, Handle(r) \/ EvalPanic(r) \/ HandlerPanic(r)
      PROVE  \A q \in Requests \ {r} : req'[q] = req[q]
  <2>1. req \in [Requests -> Request]
    BY DEF TypeInv
  <2> QED
    BY <1>3, <2>1
       DEF Handle, EvalPanic, HandlerPanic, Pin, EvalOne, EvalDone, ReadyNames, ReadyRow,
           ReadyDone, ApplyLock, ApplyBuild, ApplyDone, Commit, Drop, Reply
<1>4. ASSUME NEW r \in Requests, Handle(r) \/ EvalPanic(r) \/ HandlerPanic(r)
      PROVE  BatchInv(r)' /\ ReadyInv(r)'
  BY <1>4, EvaluateHolds, ReadyHolds, ApplyHolds, BoundaryHolds DEF Handle
<1>5. ASSUME NEW r \in Requests, Handle(r) \/ EvalPanic(r) \/ HandlerPanic(r)
      PROVE  HandlerInv'
  BY <1>1, <1>3, <1>4, <1>5
<1>6. ASSUME NEW r \in Requests, NEW l \in Listeners,
             NEW kind \in Routes("eval") \cup Routes("admin"), NEW env \in Envs,
             Accept(r, l, kind, env)
      PROVE  HandlerInv'
  BY <1>1, <1>6, AcceptFacts, AcceptHolds
<1>7. ASSUME NEW r \in Requests, Timeout(r) PROVE HandlerInv'
  BY <1>2, <1>7 DEF Timeout
<1>8. ASSUME Start \/ MainSignal \/ MainError \/ Shutdown
             \/ \E l \in Listeners : ListenerDies(l) \/ ListenerPanics(l)
      PROVE  HandlerInv'
  BY <1>2, <1>8
     DEF Start, LeaveSelect, MainSignal, MainError, Shutdown, StopListening, Exit, Deadline,
         ListenerDies, ListenerPanics
<1>9. CASE UNCHANGED vars
  BY <1>2, <1>9 DEF vars
<1> QED
  BY <1>5, <1>6, <1>7, <1>8, <1>9 DEF Next

-----------------------------------------------------------------------------
(* What a client and the caller of the process have been told.             *)

LEMMA StepAnswers ==
    ASSUME TypeInv, AnswerInv, [Next]_vars
    PROVE  /\ AnswerInv'
           /\ \A q \in Requests :
                answer[q] # 0 => answer'[q] = answer[q] \/ (req[q].pc = "gone" /\ answer'[q] = 0)
<1> DEFINE Told ==
             \A q \in Requests :
               answer[q] # 0 => answer'[q] = answer[q] \/ (req[q].pc = "gone" /\ answer'[q] = 0)
<1> USE DEF AnswerInv, At
<1>0. req \in [Requests -> Request] /\ answer \in [Requests -> Codes]
  BY DEF TypeInv, TypeOK, Codes
<1>1. ASSUME UNCHANGED <<req, answer>> PROVE AnswerInv' /\ Told
  BY <1>1
<1>2. ASSUME NEW r \in Requests, UNCHANGED answer, req[r].pc \notin {"idle", "gone"},
             req'[r].pc \notin {"idle", "gone"}, \A q \in Requests \ {r} : req'[q] = req[q]
      PROVE  AnswerInv' /\ Told
  BY <1>2
<1>3. ASSUME NEW r \in Requests, Handle(r) \/ EvalPanic(r) \/ HandlerPanic(r), ~Commit(r)
      PROVE  /\ UNCHANGED answer /\ req[r].pc \notin {"idle", "gone"}
             /\ req'[r].pc \notin {"idle", "gone"}
             /\ \A q \in Requests \ {r} : req'[q] = req[q]
  <2>1. CASE Pin(r)
    BY <1>0, <2>1 DEF Pin, Request
  <2>2. CASE EvalOne(r)
    BY <1>0, <2>2 DEF EvalOne, Request
  <2>3. CASE EvalDone(r)
    BY <1>0, <2>3 DEF EvalDone, Reply, Request
  <2>4. CASE ReadyNames(r)
    <3> DEFINE names == IF Required # {} THEN Required ELSE table
               some == names # {}
    <3>1. req' = [req EXCEPT ![r].todo = names, ![r].ok = some, ![r].pc = "rows"]
      BY <2>4 DEF ReadyNames
    <3>2. UNCHANGED answer /\ req[r].pc = "names"
      BY <2>4 DEF ReadyNames
    <3> HIDE DEF names, some
    <3> QED
      BY <1>0, <3>1, <3>2 DEF Request
  <2>5. CASE ReadyRow(r)
    BY <1>0, <2>5 DEF ReadyRow, Request
  <2>6. CASE ReadyDone(r)
    BY <1>0, <2>6 DEF ReadyDone, Reply, Request
  <2>7. CASE ApplyLock(r)
    BY <1>0, <2>7, BuildFacts DEF ApplyLock
  <2>8. CASE ApplyBuild(r)
    BY <1>0, <2>8, BuildFacts DEF ApplyBuild
  <2>9. CASE ApplyDone(r)
    BY <2>9, DropFacts DEF ApplyDone, Codes
  <2>10. CASE EvalPanic(r)
    BY <2>10, DropFacts DEF EvalPanic, Codes
  <2>11. CASE HandlerPanic(r)
    BY <2>11, DropFacts DEF HandlerPanic, InHandler, Codes
  <2> QED
    BY <1>3, <2>1, <2>2, <2>3, <2>4, <2>5, <2>6, <2>7, <2>8, <2>9, <2>10, <2>11 DEF Handle
<1>4. ASSUME NEW r \in Requests, Handle(r) \/ EvalPanic(r) \/ HandlerPanic(r), ~Commit(r)
      PROVE  AnswerInv' /\ Told
  BY <1>2, <1>3, <1>4
<1>5. ASSUME NEW r \in Requests, Commit(r) PROVE AnswerInv' /\ Told
  <2>1. req'[r].pc = "gone" /\ \A q \in Requests \ {r} : req'[q] = req[q]
    BY <1>5, DropFacts DEF Commit, Codes
  <2>2. answer' = [answer EXCEPT ![r] = IF @ = 0 THEN req[r].wrote ELSE @]
    BY <1>5 DEF Commit
  <2> QED
    BY <1>0, <2>1, <2>2
<1>6. ASSUME NEW r \in Requests, Timeout(r) PROVE AnswerInv' /\ Told
  BY <1>0, <1>6 DEF Timeout
<1>7. ASSUME NEW r \in Requests, NEW l \in Listeners,
             NEW kind \in Routes("eval") \cup Routes("admin"), NEW env \in Envs,
             Accept(r, l, kind, env)
      PROVE  AnswerInv' /\ Told
  <2>1. /\ req'[r].pc # "idle" /\ \A q \in Requests \ {r} : req'[q] = req[q]
        /\ req[r].pc \in {"idle", "gone"}
    <3>1. Started(r, kind, env) => req'[r].pc # "idle"
      BY DEF Started, First
    <3>2. req[r].pc \in {"idle", "gone"}
      BY <1>7 DEF Accept
    <3> QED
      BY <1>7, <3>1, <3>2, AcceptFacts
  <2>2. answer' = [answer EXCEPT ![r] = 0]
    BY <1>7 DEF Accept
  <2> QED
    BY <1>0, <2>1, <2>2
<1>8. ASSUME Start \/ MainSignal \/ MainError \/ Shutdown
             \/ \E l \in Listeners : ListenerDies(l) \/ ListenerPanics(l)
      PROVE  AnswerInv' /\ Told
  BY <1>1, <1>8
     DEF Start, LeaveSelect, MainSignal, MainError, Shutdown, StopListening, Exit, Deadline,
         ListenerDies, ListenerPanics
<1>9. ASSUME UNCHANGED vars PROVE AnswerInv' /\ Told
  BY <1>1, <1>9 DEF vars
<1> QED
  BY <1>4, <1>5, <1>6, <1>7, <1>8, <1>9 DEF Next, Handle

LEMMA StepWasReady ==
    ASSUME TypeInv, HandlerInv, AnswerInv, WasReadyInv, [Next]_vars
    PROVE  WasReadyInv'
<1>0. Grows /\ served \in [Envs -> Nat]
  BY StepGrows DEF TypeInv, TypeOK
<1>1. Loaded => Loaded'
  BY <1>0 DEF Loaded, Grows
<1>2. ASSUME UNCHANGED wasReady PROVE WasReadyInv'
  BY <1>1, <1>2 DEF WasReadyInv
<1>3. ASSUME NEW r \in Requests, Commit(r) PROVE WasReadyInv'
  <2>1. req[r].pc = "reply" /\ answer \in [Requests -> Codes]
    BY <1>3 DEF Commit, At, TypeInv, TypeOK, Codes
  <2>2. answer'[r] = 200 => req[r].wrote = 200
    BY <1>3, <2>1 DEF Commit, AnswerInv
  <2>3. req[r].kind = "ready" /\ answer'[r] = 200 => Loaded
    BY <2>1, <2>2 DEF HandlerInv, ReadyInv
  <2> QED
    BY <1>1, <1>3, <2>3 DEF Commit, WasReadyInv
<1>4. ASSUME NEW r \in Requests, Handle(r) \/ EvalPanic(r) \/ HandlerPanic(r) \/ Timeout(r), ~Commit(r)
      PROVE  UNCHANGED wasReady
  BY <1>4 DEF Handle, EvalPanic, HandlerPanic, Timeout, Pin, EvalOne, EvalDone, ReadyNames,
              ReadyRow, ReadyDone, ApplyLock, ApplyBuild, ApplyDone
<1>5. ASSUME NEW r \in Requests, NEW l \in Listeners,
             NEW kind \in Routes("eval") \cup Routes("admin"), NEW env \in Envs,
             Accept(r, l, kind, env)
      PROVE  UNCHANGED wasReady
  BY <1>5 DEF Accept
<1>6. ASSUME Start \/ MainSignal \/ MainError \/ Shutdown
             \/ \E l \in Listeners : ListenerDies(l) \/ ListenerPanics(l)
      PROVE  UNCHANGED wasReady
  BY <1>6 DEF Start, LeaveSelect, MainSignal, MainError, Shutdown, StopListening, Exit, Deadline,
              ListenerDies, ListenerPanics
<1>7. ASSUME UNCHANGED vars PROVE UNCHANGED wasReady
  BY <1>7 DEF vars
<1> QED
  BY <1>2, <1>3, <1>4, <1>5, <1>6, <1>7 DEF Next, Handle

\* The drain is only entered on a signal.
ExitInv == CleanExit /\ (main = "drain" => signal)

LEMMA StepExit ==
    ASSUME TypeInv, ExitInv, [Next]_vars
    PROVE  ExitInv'
<1> USE DEF ExitInv, CleanExit, lifeVars, At
<1>1. ASSUME main # "exited", UNCHANGED <<main, signal>> PROVE ExitInv'
  BY <1>1
<1>2. ASSUME NEW r \in Requests, Handle(r) \/ EvalPanic(r) \/ HandlerPanic(r) \/ Timeout(r)
      PROVE  main # "exited" /\ UNCHANGED <<main, signal>>
  BY <1>2 DEF Handle, EvalPanic, HandlerPanic, InHandler, Timeout, Pin, EvalOne, EvalDone,
              ReadyNames, ReadyRow, ReadyDone, ApplyLock, ApplyBuild, ApplyDone, Commit
<1>3. ASSUME NEW r \in Requests, NEW l \in Listeners,
             NEW kind \in Routes("eval") \cup Routes("admin"), NEW env \in Envs,
             Accept(r, l, kind, env)
      PROVE  main # "exited" /\ UNCHANGED <<main, signal>>
  BY <1>3 DEF Accept
<1>4. CASE Start
  BY <1>4 DEF Start
<1>5. CASE MainSignal
  BY <1>5 DEF MainSignal, LeaveSelect
<1>6. CASE MainError
  BY <1>6 DEF MainError, LeaveSelect
<1>7. ASSUME NEW l \in Listeners, StopListening(l) \/ ListenerDies(l) \/ ListenerPanics(l)
      PROVE  main # "exited" /\ UNCHANGED <<main, signal>>
  BY <1>7 DEF StopListening, ListenerDies, ListenerPanics
<1>8. CASE Exit
  <2>1. \A r \in Requests : req[r].on \in Listeners
    BY DEF TypeInv, Request
  <2>2. \A r \in Requests : req[r].pc # "idle" => answer[r] # 0
    BY <1>8, <2>1 DEF Exit, Answered
  <2> QED
    BY <1>8, <2>2 DEF Exit
<1>9. CASE Deadline
  BY <1>9 DEF Deadline
<1>10. CASE UNCHANGED vars
  BY <1>10 DEF vars
<1> QED
  BY <1>1, <1>2, <1>3, <1>4, <1>5, <1>6, <1>7, <1>8, <1>9, <1>10 DEF Next, Shutdown

IInv == TypeInv /\ HandlerInv /\ AnswerInv /\ WasReadyInv /\ ExitInv

LEMMA Inductive == Spec => []IInv
<1>1. ASSUME Init PROVE IInv
  <2>1. \A r \in Requests : req[r].kind = "none" /\ req[r].pc = "idle" /\ answer[r] = 0
    BY <1>1 DEF Init, Idle
  <2>2. HandlerInv /\ AnswerInv
    BY <2>1 DEF HandlerInv, BatchInv, ReadyInv, AnswerInv
  <2>3. WasReadyInv /\ ExitInv
    BY <1>1 DEF Init, WasReadyInv, ExitInv, CleanExit
  <2> QED
    BY <1>1, <2>2, <2>3, InitServer DEF IInv
<1>2. IInv /\ [Next]_vars => IInv'
  BY StepTypes, StepHandlers, StepAnswers, StepWasReady, StepExit DEF IInv
<1> QED
  BY <1>1, <1>2, PTL DEF Spec

\* A batch answers from one snapshot that was live during the request, for any number
\* of requests, pushes and flags: handleBatch loads the snapshot once (CACHE-1).
THEOREM BatchesAreOfOneGeneration == Spec => []BatchOneGeneration
<1>1. IInv => BatchOneGeneration
  <2> SUFFICES ASSUME IInv, NEW r \in Requests, req[r].pc = "reply", req[r].kind = "evaluate"
               PROVE  /\ Len(req[r].results) = BatchLen
                      /\ req[r].seen <= req[r].pin /\ req[r].pin <= served[req[r].env]
                      /\ \A i \in 1..BatchLen : req[r].results[i] = req[r].pin
    BY DEF BatchOneGeneration
  <2> QED
    BY DEF IInv, HandlerInv, BatchInv
<1> QED
  BY <1>1, Inductive, PTL

\* A 200 of /ready means that every required environment has a snapshot, though the
\* rows are read one by one: no push takes an environment's snapshot away.
THEOREM ReadyIsLoaded == Spec => []ReadyMeansLoaded
<1>1. IInv => ReadyMeansLoaded
  BY DEF IInv, HandlerInv, ReadyInv, Loaded, ReadyMeansLoaded
<1> QED
  BY <1>1, Inductive, PTL

\* With required environments, a pod that was ready once stays ready whatever is pushed
\* (envHealth's list does not grow). Without them it need not.
THEOREM ReadyIsForGood == ASSUME Required # {} PROVE Spec => []ReadyStays
<1>1. IInv => ReadyStays
  BY DEF IInv, HandlerInv, ReadyInv, ReadyStays
<1> QED
  BY <1>1, Inductive, PTL

\* Exit code 0 is a signalled drain in which every request of both listeners was
\* answered (main joins both Shutdowns).
THEOREM ExitsCleanly == Spec => []CleanExit
<1>1. IInv => CleanExit
  BY DEF IInv, ExitInv
<1> QED
  BY <1>1, Inductive, PTL

\* No request is answered twice, whether its handler, its panic or its timeout is late.
THEOREM RequestsAreAnsweredOnce == Spec => AnsweredOnce
<1>1. IInv /\ [Next]_vars
        => [ \A r \in Requests :
               answer[r] # 0 => answer'[r] = answer[r] \/ (req[r].pc = "gone" /\ answer'[r] = 0) ]_vars
  BY StepAnswers DEF IInv
<1> QED
  BY <1>1, Inductive, PTL DEF Spec, AnsweredOnce
=============================================================================
