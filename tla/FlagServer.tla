---------------------------- MODULE FlagServer -----------------------------
(***************************************************************************)
(* The flagd process: two listeners, request handlers running concurrently *)
(* under the timeout and panic boundaries of wrap, the config store behind *)
(* them, and main's start, signal and shutdown sequence.                   *)
(*                                                                         *)
(* A handler is a goroutine of http.TimeoutHandler: what it writes is      *)
(* buffered until it returns, and when the deadline comes first the client *)
(* has its 503 while the handler goes on. The store is reduced to the      *)
(* generation each environment serves (0 is none); ConfigStore says which  *)
(* pushes it accepts.                                                      *)
(***************************************************************************)
EXTENDS Naturals, Sequences, FiniteSets

CONSTANTS
    Requests,     \* requests in flight at the same time; a finished one makes room for the next
    NoOne,        \* not a request
    Envs,         \* environment names a request or a layer can carry
    InitialEnvs,  \* the environments the store is created with
    Required,     \* Config.RequiredEnvs
    Asked,        \* the environments evaluation requests name
    BatchLen,     \* flags in an evaluation request
    MaxGen        \* bound on the generations of an environment

ASSUME ServerAssumption ==
    /\ NoOne \notin Requests /\ Envs # {}
    /\ InitialEnvs \subseteq Envs /\ Required \subseteq Envs
    /\ Asked \subseteq Envs
    /\ BatchLen \in Nat \ {0} /\ MaxGen \in Nat

VARIABLES
    table,     \* the environments the store knows
    served,    \* the generation each serves
    mu,        \* the request whose push holds Store.mu, or NoOne
    req,       \* per request, what its handler holds
    answer,    \* per request, the status sent, 0 before
    main,      \* where main is: init, running, drain (bounded), fatal (unbounded), exited
    code,      \* the exit code run decided on
    signal,    \* main acted on SIGTERM or SIGINT
    server,    \* per listener: unbound, open, dead (errCh has it), silent (nobody heard), closed
    wasReady   \* history: some /ready has answered 200

storeVars == <<table, served, mu>>
lifeVars == <<main, code, signal, server>>
vars == <<storeVars, req, answer, lifeVars, wasReady>>

Listeners == {"eval", "admin"}

\* The routes that reach the store or the evaluator, by listener. /v1/evaluate is
\* /v1/evaluate/batch with one flag: it pins, evaluates and answers alike. /ready, which
\* both listeners have, is taken on the first.
Routes(l) == IF l = "eval" THEN {"evaluate", "ready"} ELSE {"apply"}

\* seen and sawReady are history: the generation served, and wasReady, when the
\* request was accepted.
Idle == [kind |-> "none", on |-> "eval", env |-> CHOOSE e \in Envs : TRUE, pc |-> "idle",
         seen |-> 0, sawReady |-> FALSE, pin |-> 0, results |-> <<>>, todo |-> {},
         ok |-> TRUE, wrote |-> 0]

Init ==
    /\ table = InitialEnvs
    /\ served = [e \in Envs |-> 0]
    /\ mu = NoOne
    /\ req = [r \in Requests |-> Idle]
    /\ answer = [r \in Requests |-> 0]
    /\ main = "init"
    /\ code = 0
    /\ signal = FALSE
    /\ server = [l \in Listeners |-> "unbound"]
    /\ wasReady = FALSE

-----------------------------------------------------------------------------
(* One request. Every step needs a live process.                           *)

At(r, label) == main # "exited" /\ req[r].pc = label

First(kind) ==
    CASE kind = "evaluate" -> "pin" [] kind = "ready" -> "names" [] kind = "apply" -> "set"

\* A handler that has failed or is over drops what it held.
Drop(r, label, status) ==
    req' = [req EXCEPT ![r] = [Idle EXCEPT !.on = IF label = "gone" THEN @ ELSE req[r].on,
                                           !.pc = label, !.wrote = status]]

Reply(r, status) == req' = [req EXCEPT ![r].pc = "reply", ![r].wrote = status]

\* Until Shutdown, a server whose accept loop is over still serves the connections it
\* has.
Serving(l) == server[l] \in {"open", "dead", "silent"}

\* A server takes the request and its handler starts: decodeJSON, validateEnv, the batch
\* limits, ReadAll and the layer envelope turn it down, or it goes on to the store. Only
\* an evaluation's environment is used again.
Accept(r, l, kind, env) ==
    /\ At(r, "idle") \/ At(r, "gone")
    /\ Serving(l)
    /\ kind \in Routes(l)
    /\ IF kind = "evaluate" THEN env \in Asked ELSE env = Idle.env
    /\ LET started == [Idle EXCEPT !.kind = kind, !.on = l, !.env = env,
                                   !.seen = IF kind = "evaluate" THEN served[env] ELSE 0,
                                   !.sawReady = kind = "ready" /\ wasReady,
                                   !.pc = First(kind)]
       IN  \/ req' = [req EXCEPT ![r] = started]
           \/ /\ kind # "ready"
              /\ req' = [req EXCEPT ![r] = [Idle EXCEPT !.on = l, !.pc = "reply", !.wrote = 400]]
    /\ answer' = [answer EXCEPT ![r] = 0]
    /\ UNCHANGED <<storeVars, lifeVars, wasReady>>

\* The one load of the snapshot (CACHE-1).
Pin(r) ==
    /\ At(r, "pin")
    /\ req' = [req EXCEPT ![r].pin = served[req[r].env], ![r].pc = "eval"]
    /\ UNCHANGED <<storeVars, answer, lifeVars, wasReady>>

\* (Mutation) The snapshot is loaded again for every flag.
EvalOne_Reloads(r) ==
    /\ At(r, "eval")
    /\ Len(req[r].results) < BatchLen
    /\ req' = [req EXCEPT ![r].results = Append(@, served[req[r].env])]
    /\ UNCHANGED <<storeVars, answer, lifeVars, wasReady>>

\* One result, stamped with the generation that decided it; 0 without a snapshot,
\* where it is the caller's default.
EvalOne(r) ==
    /\ At(r, "eval")
    /\ Len(req[r].results) < BatchLen
    /\ req' = [req EXCEPT ![r].results = Append(@, req[r].pin)]
    /\ UNCHANGED <<storeVars, answer, lifeVars, wasReady>>

EvalDone(r) ==
    /\ At(r, "eval")
    /\ Len(req[r].results) = BatchLen
    /\ Reply(r, 200)
    /\ UNCHANGED <<storeVars, answer, lifeVars, wasReady>>

\* The evaluator panics inside safe.Do: the whole request is a 500.
EvalPanic(r) ==
    /\ At(r, "eval")
    /\ req[r].pin # 0
    /\ Len(req[r].results) < BatchLen
    /\ Drop(r, "reply", 500)
    /\ UNCHANGED <<storeVars, answer, lifeVars, wasReady>>

\* (Mutation) Readiness looks at every environment the store knows.
ReadyNames_AllEnvs(r) ==
    /\ At(r, "names")
    /\ req' = [req EXCEPT ![r].todo = Required \cup table,
                          ![r].ok = Required \cup table # {}, ![r].pc = "rows"]
    /\ UNCHANGED <<storeVars, answer, lifeVars, wasReady>>

\* envHealth's list: the required environments, or all the store knows.
ReadyNames(r) ==
    /\ At(r, "names")
    /\ LET names == IF Required # {} THEN Required ELSE table
       IN  req' = [req EXCEPT ![r].todo = names, ![r].ok = names # {}, ![r].pc = "rows"]
    /\ UNCHANGED <<storeVars, answer, lifeVars, wasReady>>

\* (Mutation) An environment the store knows counts as loaded, a nil snapshot included.
ReadyRow_TypedNil(r) ==
    /\ At(r, "rows")
    /\ \E e \in req[r].todo :
         req' = [req EXCEPT ![r].todo = @ \ {e}, ![r].ok = @ /\ e \in table]
    /\ UNCHANGED <<storeVars, answer, lifeVars, wasReady>>

\* One row: its snapshot is loaded on its own, while pushes go on.
ReadyRow(r) ==
    /\ At(r, "rows")
    /\ \E e \in req[r].todo :
         req' = [req EXCEPT ![r].todo = @ \ {e}, ![r].ok = @ /\ served[e] # 0]
    /\ UNCHANGED <<storeVars, answer, lifeVars, wasReady>>

ReadyDone(r) ==
    /\ At(r, "rows")
    /\ req[r].todo = {}
    /\ Reply(r, IF req[r].ok THEN 200 ELSE 503)
    /\ UNCHANGED <<storeVars, answer, lifeVars, wasReady>>

-----------------------------------------------------------------------------
(* A config push: handleApplyLayer, ApplyLayer, Store.Set.                 *)

\* Set takes Store.mu. A base layer is for every known environment, an overlay or ops
\* layer for its own, which it adds to the table; or the layer is turned down whole.
ApplyLock(r) ==
    /\ At(r, "set")
    /\ mu = NoOne
    /\ mu' = r
    /\ \/ req' = [req EXCEPT ![r].todo = table, ![r].pc = "build"] /\ UNCHANGED table
       \/ \E e \in Envs :
            /\ req' = [req EXCEPT ![r].todo = {e}, ![r].pc = "build"]
            /\ table' = table \cup {e}
       \/ req' = [req EXCEPT ![r].ok = FALSE, ![r].pc = "build"] /\ UNCHANGED table
    /\ UNCHANGED <<served, answer, lifeVars, wasReady>>

\* buildEnvLocked for one environment: published clean, published with a flag
\* quarantined, or refused.
ApplyBuild(r) ==
    /\ At(r, "build")
    /\ \E e \in req[r].todo :
         \/ /\ served[e] < MaxGen
            /\ served' = [served EXCEPT ![e] = @ + 1]
            /\ \E clean \in BOOLEAN :
                 req' = [req EXCEPT ![r].todo = @ \ {e}, ![r].ok = @ /\ clean]
         \/ /\ req' = [req EXCEPT ![r].todo = @ \ {e}, ![r].ok = FALSE]
            /\ UNCHANGED served
    /\ UNCHANGED <<table, mu, answer, lifeVars, wasReady>>

\* The report is read once the lock is gone: any rejection or quarantine is a 400,
\* whatever was published.
ApplyDone(r) ==
    /\ At(r, "build")
    /\ req[r].todo = {}
    /\ mu' = NoOne
    /\ Drop(r, "reply", IF req[r].ok THEN 200 ELSE 400)
    /\ UNCHANGED <<table, served, answer, lifeVars, wasReady>>

-----------------------------------------------------------------------------
(* The boundaries around a handler.                                        *)

InHandler(r) == main # "exited" /\ req[r].pc \notin {"idle", "reply", "gone"}

Unlocked(r) == IF mu = r THEN NoOne ELSE mu

\* (Mutation) A push that panics leaves Store.mu locked.
HandlerPanic_KeepsLock(r) ==
    /\ InHandler(r)
    /\ Drop(r, "reply", 500)
    /\ UNCHANGED <<storeVars, answer, lifeVars, wasReady>>

\* A panic anywhere in the handler: TimeoutHandler raises it again on the outer
\* goroutine, and Middleware answers 500. Set's deferred unlock has run.
HandlerPanic(r) ==
    /\ InHandler(r)
    /\ mu' = Unlocked(r)
    /\ Drop(r, "reply", 500)
    /\ UNCHANGED <<table, served, answer, lifeVars, wasReady>>

\* (Mutation) A handler that returns late overwrites the timeout's answer.
Commit_Late(r) ==
    /\ At(r, "reply")
    /\ answer' = [answer EXCEPT ![r] = req[r].wrote]
    /\ Drop(r, "gone", 0)
    /\ UNCHANGED <<storeVars, lifeVars, wasReady>>

\* The handler has returned: its answer is sent unless the timeout's already was.
Commit(r) ==
    /\ At(r, "reply")
    /\ answer' = [answer EXCEPT ![r] = IF @ = 0 THEN req[r].wrote ELSE @]
    /\ wasReady' = (wasReady \/ (req[r].kind = "ready" /\ answer'[r] = 200))
    /\ Drop(r, "gone", 0)
    /\ UNCHANGED <<storeVars, lifeVars>>

\* (Mutation) Without TimeoutHandler only a handler that returns is ever answered.
Timeout_Absent(r) ==
    /\ At(r, "reply")
    /\ answer[r] = 0
    /\ answer' = [answer EXCEPT ![r] = 503]
    /\ UNCHANGED <<storeVars, req, lifeVars, wasReady>>

\* HandlerTimeout: the client gets a 503, the handler goes on.
Timeout(r) ==
    /\ main # "exited"
    /\ req[r].pc # "idle"
    /\ answer[r] = 0
    /\ answer' = [answer EXCEPT ![r] = 503]
    /\ UNCHANGED <<storeVars, req, lifeVars, wasReady>>

-----------------------------------------------------------------------------
(* The process.                                                            *)

\* Start binds both ports before anything is served; a port that cannot be bound
\* ends the process, with the other one given back.
Start ==
    /\ main = "init"
    /\ \/ /\ server' = [l \in Listeners |-> "open"]
          /\ main' = "running"
          /\ UNCHANGED code
       \/ main' = "exited" /\ code' = 1 /\ UNCHANGED server
    /\ UNCHANGED <<storeVars, req, answer, signal, wasReady>>

\* Serve returns an error and errCh has it, in a slot of its own.
ListenerDies(l) ==
    /\ main = "running"
    /\ server[l] = "open"
    /\ server' = [server EXCEPT ![l] = "dead"]
    /\ UNCHANGED <<storeVars, req, answer, main, code, signal, wasReady>>

\* The accept loop panics: Serve closes its listener on the way out, safe.Go's Recover
\* swallows the panic, and neither send on errCh is reached.
ListenerPanics(l) ==
    /\ main = "running"
    /\ server[l] = "open"
    /\ server' = [server EXCEPT ![l] = "silent"]
    /\ UNCHANGED <<storeVars, req, answer, main, code, signal, wasReady>>

\* main leaves its select. Nobody reads errCh from here on, and Shutdown treats a
\* server alike whatever became of its accept loop.
LeaveSelect(next) ==
    /\ main = "running"
    /\ main' = next
    /\ server' = [l \in Listeners |-> "open"]
    /\ UNCHANGED <<storeVars, req, answer, code, wasReady>>

\* A signal, in hand or just arriving, leads to the bounded drain.
MainSignal == LeaveSelect("drain") /\ signal' = TRUE

Reported == \E l \in Listeners : server[l] = "dead"

\* An error in errCh leads to Shutdown with a background context and then exit code 1.
MainError == Reported /\ LeaveSelect("fatal") /\ UNCHANGED signal

\* Each http.Server stops accepting, the two in no particular order.
StopListening(l) ==
    /\ main \in {"drain", "fatal"}
    /\ Serving(l)
    /\ server' = [server EXCEPT ![l] = "closed"]
    /\ UNCHANGED <<storeVars, req, answer, main, code, signal, wasReady>>

Answered(l) == \A r \in Requests : req[r].pc # "idle" /\ req[r].on = l => answer[r] # 0

\* (Mutation) The admin server's drain is not joined.
Exit_EvalOnly ==
    /\ main \in {"drain", "fatal"}
    /\ \A l \in Listeners : server[l] = "closed"
    /\ Answered("eval")
    /\ main' = "exited"
    /\ code' = IF main = "drain" THEN 0 ELSE 1
    /\ UNCHANGED <<storeVars, req, answer, signal, server, wasReady>>

\* Each http.Server.Shutdown returns when no request of its server is left, and both
\* are joined before run returns.
Exit ==
    /\ main \in {"drain", "fatal"}
    /\ \A l \in Listeners : server[l] = "closed" /\ Answered(l)
    /\ main' = "exited"
    /\ code' = IF main = "drain" THEN 0 ELSE 1
    /\ UNCHANGED <<storeVars, req, answer, signal, server, wasReady>>

\* shutdown-timeout passes: Shutdown gives up and run returns its error.
Deadline ==
    /\ main = "drain"
    /\ \A l \in Listeners : server[l] = "closed"
    /\ \E l \in Listeners : ~Answered(l)
    /\ main' = "exited"
    /\ code' = 1
    /\ UNCHANGED <<storeVars, req, answer, signal, server, wasReady>>

-----------------------------------------------------------------------------
Handle(r) ==
    \/ Pin(r) \/ EvalOne(r) \/ EvalDone(r)
    \/ ReadyNames(r) \/ ReadyRow(r) \/ ReadyDone(r)
    \/ ApplyLock(r) \/ ApplyBuild(r) \/ ApplyDone(r)
    \/ Commit(r)

Shutdown == (\E l \in Listeners : StopListening(l)) \/ Exit \/ Deadline

Next ==
    \/ \E r \in Requests :
         \/ \E l \in Listeners, kind \in Routes("eval") \cup Routes("admin"), env \in Envs :
              Accept(r, l, kind, env)
         \/ Handle(r) \/ EvalPanic(r) \/ HandlerPanic(r) \/ Timeout(r)
    \/ Start \/ MainSignal \/ MainError \/ Shutdown
    \/ \E l \in Listeners : ListenerDies(l) \/ ListenerPanics(l)

Spec == Init /\ [][Next]_vars

\* Timers fire and main runs. No fairness on requests, signals, panics or handlers:
\* any handler may be stuck for ever, with Store.mu held or not.
FairSpec ==
    /\ Spec
    /\ \A r \in Requests : WF_vars(Timeout(r))
    /\ WF_vars(MainError \/ Shutdown)

-----------------------------------------------------------------------------
(* Properties.                                                             *)

\* The variables have their types, and Store.mu is held exactly by a push that is
\* building.
TypeOK ==
    /\ table \subseteq Envs
    /\ served \in [Envs -> 0..MaxGen]
    /\ mu # NoOne => req[mu].pc = "build"
    /\ \A r \in Requests : req[r].pc = "build" => mu = r
    /\ answer \in [Requests -> {0, 200, 400, 500, 503}]
    /\ main \in {"init", "running", "drain", "fatal", "exited"}
    /\ signal \in BOOLEAN /\ code \in {0, 1}
    /\ server \in [Listeners -> {"unbound", "open", "dead", "silent", "closed"}]

\* A batch about to be answered 200 has a result for every flag, all of the one
\* generation, and that generation was live at some moment of the request (CACHE-1: a
\* swap landing mid-batch cannot mix generations).
BatchOneGeneration ==
    \A r \in Requests :
        req[r].pc = "reply" /\ req[r].wrote = 200 /\ req[r].kind = "evaluate" =>
            /\ Len(req[r].results) = BatchLen
            /\ req[r].seen <= req[r].pin /\ req[r].pin <= served[req[r].env]
            /\ \A i \in 1..BatchLen : req[r].results[i] = req[r].pin

\* /ready answers 200 only when every required environment has a snapshot, though the
\* rows are read one by one while pushes land (hazard H6).
ReadyMeansLoaded ==
    \A r \in Requests :
        req[r].pc = "reply" /\ req[r].wrote = 200 /\ req[r].kind = "ready" =>
            \A e \in Required : served[e] # 0

\* A pod with required environments that has once reported ready is never turned away
\* by a later push, whatever it holds and whichever environment it names.
ReadyStays ==
    \A r \in Requests :
        req[r].kind = "ready" /\ req[r].pc = "reply" /\ req[r].sawReady => req[r].wrote # 503

\* A request is answered once: a handler that returns after its timeout changes nothing
\* for the client.
AnsweredOnce ==
    [][ \A r \in Requests :
            answer[r] # 0 => answer'[r] = answer[r] \/ (req[r].pc = "gone" /\ answer'[r] = 0) ]_vars

\* Exit code 0 is for a signalled drain that lost nothing: every accepted request was
\* answered. An error of a listener that main acts on, or a blown deadline, exits 1.
CleanExit ==
    main = "exited" /\ code = 0 =>
        signal /\ \A r \in Requests : req[r].pc # "idle" => answer[r] # 0

\* A listener whose death errCh reports takes the process down, even though that drain
\* has no deadline and a handler may be wedged with Store.mu held. It is not so for a
\* silent one (server.go:263 says of any that it "is as loud as a SIGTERM"): nothing wakes
\* main when safe.Go has swallowed the accept loop's panic.
ReportedDeathIsFatal == Reported ~> (main = "exited")
=============================================================================
