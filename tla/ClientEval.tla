----------------------------- MODULE ClientEval -----------------------------
(***************************************************************************)
(* The read path of src/pkg/client/client.go: BatchAppend and detail on    *)
(* the caller's own goroutine, the recover boundary around each element,   *)
(* the caller's hooks inside it, and one cell of the lock-free logLimiter  *)
(* that every caller shares.                                               *)
(*                                                                         *)
(* A single evaluation is a batch of one: detail has the control of        *)
(* evalGuarded and a load of its own. L1 is what cache.load returns; who   *)
(* stores it, and in which order, is FlagClient's subject. The limiter's   *)
(* 256 cells are independent, and all flags here hash to the same one. A   *)
(* logger and a Metrics hook are installed, and so is a third-party        *)
(* evaluator that may panic or label its answers badly (WithEvaluator).    *)
(***************************************************************************)
EXTENDS Integers, FiniteSets

CONSTANTS
    Threads,   \* the goroutines that evaluate flags
    MaxBatch,  \* the longest batch
    MaxGen,    \* bound on the generations L1 may hold
    MaxTime,   \* bound on the readings of the clock
    Interval,  \* logLimiter.interval
    MaxCalls   \* bound on the calls each goroutine makes

ASSUME ThreadsAssumption == IsFiniteSet(Threads)
ASSUME IntervalAssumption == Interval \in Nat \ {0}
ASSUME BoundAssumption ==
    MaxBatch \in Nat \ {0} /\ MaxGen \in Nat /\ MaxTime \in Nat /\ MaxCalls \in Nat

Slots == 1..MaxBatch
Times == 0..MaxTime
Gens == 0..MaxGen   \* 0: the nil entry, and a Result that names no generation

VARIABLES
    l1,          \* cache.l1: the generation it serves
    pc,          \* where each call is
    size, at,    \* the length of the batch, the element it is at
    entry,       \* e: what the call loaded
    res,         \* evalGuarded's named result
    out,         \* BatchAppend's result slice
    ran,         \* history: what the engine did with each element
    calls,       \* how many calls each goroutine has made
    stamp,       \* allow's now
    seen,        \* the next that allow has loaded
    next,        \* limCell.next: the earliest permitted emit
    suppressed,  \* limCell.suppressed
    owed         \* history: events counted by no sampled_of so far

callVars == <<size, at, entry, out, ran, calls>>
limVars == <<stamp, seen, next, suppressed, owed>>
vars == <<l1, pc, res, callVars, limVars>>

\* core.Result. Which value goes with a reason is fixed: RESOLVED stands for the
\* reasons that carry a configured value, FALLBACK for the engine's own fallbacks.
Result == [reason : {"UNKNOWN", "RESOLVED", "FALLBACK", "ERROR"}, gen : Gens]
Zero == [reason |-> "UNKNOWN", gen |-> 0]
Default == [reason |-> "ERROR", gen |-> 0]

Goto(t, label) == pc' = [pc EXCEPT ![t] = label]

Init ==
    /\ l1 = 0
    /\ pc = [t \in Threads |-> "idle"]
    /\ size = [t \in Threads |-> 0]
    /\ at = [t \in Threads |-> 1]
    /\ entry = [t \in Threads |-> 0]
    /\ res = [t \in Threads |-> Zero]
    /\ out = [t \in Threads |-> [i \in Slots |-> Zero]]
    /\ ran = [t \in Threads |-> [i \in Slots |-> "nothing"]]
    /\ calls = [t \in Threads |-> 0]
    /\ stamp = [t \in Threads |-> 0]
    /\ seen = [t \in Threads |-> 0]
    /\ next = 0
    /\ suppressed = 0
    /\ owed = 0

-----------------------------------------------------------------------------
(* BatchAppend and evalGuarded.                                            *)

\* applyUpdate stores what a source sends: any generation, a restarted source's.
Swap ==
    /\ l1' \in Gens \ {0, l1}
    /\ UNCHANGED <<pc, res, callVars, limVars>>

\* The pre-fill: every element holds its default before anything is evaluated.
Call(t, n) ==
    /\ pc[t] = "idle"
    /\ calls[t] < MaxCalls
    /\ calls' = [calls EXCEPT ![t] = @ + 1]
    /\ size' = [size EXCEPT ![t] = n]
    /\ at' = [at EXCEPT ![t] = 1]
    /\ out' = [out EXCEPT ![t] = [i \in Slots |-> Default]]
    /\ Goto(t, "load")
    /\ UNCHANGED <<l1, res, entry, ran, limVars>>

Load(t) ==
    /\ pc[t] = "load"
    /\ entry' = [entry EXCEPT ![t] = l1]
    /\ Goto(t, "evaluate")
    /\ UNCHANGED <<l1, res, size, at, out, ran, calls, limVars>>

\* evaluate, on the answer the engine gave and the generation it stamped.
labelled(e, reason, gen) ==
    [reason |-> IF reason = "UNKNOWN" THEN "ERROR" ELSE reason,
     gen    |-> IF gen = 0 THEN e ELSE gen]

\* The engine returns, or panics and leaves the named result as it was.
evaluateOn(t, e) ==
    /\ pc[t] = "evaluate"
    /\ \/ /\ e = 0
          /\ res' = [res EXCEPT ![t] = Default]
          /\ Goto(t, "record")
          /\ UNCHANGED ran
       \/ /\ e # 0
          /\ \E reason \in {"RESOLVED", "FALLBACK", "UNKNOWN"}, gen \in {0, e} :
                /\ ran' = [ran EXCEPT ![t][at[t]] = reason]
                /\ res' = [res EXCEPT ![t] = labelled(e, reason, gen)]
          /\ Goto(t, "record")
       \/ /\ e # 0
          /\ ran' = [ran EXCEPT ![t][at[t]] = "panic"]
          /\ Goto(t, "recover")
          /\ UNCHANGED res
    /\ UNCHANGED <<l1, size, at, entry, out, calls, limVars>>

\* (Mutation) The pointer is loaded for every element.
evaluate_Reloads(t) == evaluateOn(t, l1)

evaluate(t) == evaluateOn(t, entry[t])

\* record: the unwrapped hot-path hook returns or panics; fallbacks are logged.
record(t) ==
    /\ pc[t] = "record"
    /\ \/ Goto(t, IF res[t].reason = "RESOLVED" THEN "store" ELSE "log")
       \/ Goto(t, "recover")
    /\ UNCHANGED <<l1, res, callVars, limVars>>

\* (Mutation) A wrapper whose recover sits one frame too deep.
guarded_Helper(hook) == hook

\* guardedMetrics: what its caller sees of a hook.
guarded(hook) == "returns"

\* (Mutation) Every recovered panic costs the answer.
recovered_Always(r) == Default

\* A result that was produced stands.
recovered(r) == IF r.reason = "UNKNOWN" THEN Default ELSE r

\* The deferred recover, and onPanic, whose hooks are guarded.
recover(t) ==
    /\ pc[t] = "recover"
    /\ res' = [res EXCEPT ![t] = recovered(@)]
    /\ \E hook \in {"returns", "panics"} :
          Goto(t, IF guarded(hook) = "returns" THEN "log" ELSE "escaped")
    /\ UNCHANGED <<l1, callVars, limVars>>

\* out[i] = evalGuarded(...), and the next element of the range.
Store(t) ==
    /\ pc[t] = "store"
    /\ out' = [out EXCEPT ![t][at[t]] = res[t]]
    /\ IF at[t] < size[t]
          THEN /\ at' = [at EXCEPT ![t] = @ + 1]
               /\ res' = [res EXCEPT ![t] = Zero]
               /\ Goto(t, "evaluate")
          ELSE /\ Goto(t, "returned")
               /\ UNCHANGED <<at, res>>
    /\ UNCHANGED <<l1, size, entry, ran, calls, limVars>>

\* The caller has its slice, and may pool it for its next call.
Return(t) ==
    /\ pc[t] = "returned"
    /\ size' = [size EXCEPT ![t] = 0]
    /\ entry' = [entry EXCEPT ![t] = 0]
    /\ res' = [res EXCEPT ![t] = Zero]
    /\ out' = [out EXCEPT ![t] = [i \in Slots |-> Zero]]
    /\ ran' = [ran EXCEPT ![t] = [i \in Slots |-> "nothing"]]
    /\ Goto(t, "idle")
    /\ UNCHANGED <<l1, at, calls, limVars>>

-----------------------------------------------------------------------------
(* logLimiter.allow, one atomic operation at a time. The clock is the wall *)
(* clock: two calls may read it in any order, and it may be set back.      *)

\* Its locals go out of scope, and its caller returns to evalGuarded's caller.
AllowReturn(t) ==
    /\ stamp' = [stamp EXCEPT ![t] = 0]
    /\ seen' = [seen EXCEPT ![t] = 0]
    /\ Goto(t, "store")

AllowCall(t) ==
    /\ pc[t] = "log"
    /\ \E now \in Times : stamp' = [stamp EXCEPT ![t] = now]
    /\ owed' = owed + 1
    /\ Goto(t, "next")
    /\ UNCHANGED <<l1, res, callVars, seen, next, suppressed>>

AllowLoad(t) ==
    /\ pc[t] = "next"
    /\ seen' = [seen EXCEPT ![t] = next]
    /\ Goto(t, IF stamp[t] < next THEN "suppress" ELSE "cas")
    /\ UNCHANGED <<l1, res, callVars, stamp, next, suppressed, owed>>

AllowSuppress(t) ==
    /\ pc[t] = "suppress"
    /\ suppressed' = suppressed + 1
    /\ AllowReturn(t)
    /\ UNCHANGED <<l1, res, callVars, next, owed>>

\* (Mutation) A plain store in place of the compare-and-swap.
AllowCas_Store(t) ==
    /\ pc[t] = "cas"
    /\ next' = stamp[t] + Interval
    /\ Goto(t, "take")
    /\ UNCHANGED <<l1, res, callVars, stamp, seen, suppressed, owed>>

AllowCas(t) ==
    /\ pc[t] = "cas"
    /\ IF next = seen[t]
          THEN next' = stamp[t] + Interval /\ Goto(t, "take")
          ELSE UNCHANGED next /\ Goto(t, "next")
    /\ UNCHANGED <<l1, res, callVars, stamp, seen, suppressed, owed>>

\* (Mutation) The count is read and not reset.
AllowTake_NoReset(t) ==
    /\ pc[t] = "take"
    /\ owed' = owed - (suppressed + 1)
    /\ AllowReturn(t)
    /\ UNCHANGED <<l1, res, callVars, next, suppressed>>

\* Swap(0) + 1 is the event's sampled_of; logf contains a logger that panics.
AllowTake(t) ==
    /\ pc[t] = "take"
    /\ suppressed' = 0
    /\ owed' = owed - (suppressed + 1)
    /\ AllowReturn(t)
    /\ UNCHANGED <<l1, res, callVars, next>>

-----------------------------------------------------------------------------
Allow(t) ==
    AllowCall(t) \/ AllowLoad(t) \/ AllowSuppress(t) \/ AllowCas(t) \/ AllowTake(t)

Evaluation(t) ==
    \/ \E n \in Slots : Call(t, n)
    \/ Load(t) \/ evaluate(t) \/ record(t) \/ recover(t) \/ Store(t) \/ Return(t)

Next == Swap \/ \E t \in Threads : Evaluation(t) \/ Allow(t)

Spec == Init /\ [][Next]_vars

-----------------------------------------------------------------------------
(* Properties.                                                             *)

\* One result set is one configuration: whatever is swapped in during a batch, all
\* its answers name the generation the call pinned, and a batch does not mix
\* elements the engine saw with elements it did not (invariant CACHE-1).
BatchOneSnapshot ==
    \A t \in Threads : pc[t] = "returned" =>
        \A i \in 1..size[t] :
            /\ (ran[t][i] = "nothing") <=> (entry[t] = 0)
            /\ out[t][i].gen # 0 => out[t][i].gen = entry[t]

\* What each element of a returned call must hold, from what the engine did.
Promised(did) == IF did \in {"RESOLVED", "FALLBACK"} THEN did ELSE "ERROR"

\* Never throw, and never lose a good answer: every call returns, an element whose
\* evaluation panicked holds its default and an ERROR, and every other element
\* holds what the engine said, whichever hooks panicked on the way.
AnswersSurviveHooks ==
    \A t \in Threads :
        /\ pc[t] # "escaped"
        /\ pc[t] = "returned" =>
              \A i \in 1..size[t] : out[t][i].reason = Promised(ran[t][i])

\* The calls of allow that have been counted neither as suppressed nor as sampled.
InAllow == {t \in Threads : pc[t] \in {"next", "suppress", "cas", "take"}}

\* "True volume is reconstructible from sampled_of": no event of the cell is lost or
\* counted twice between suppressed.Add and suppressed.Swap, whoever races.
VolumeReconstructible == owed = suppressed + Cardinality(InAllow)

\* At most one event per interval goes out of a cell: the one that wins the swap is
\* never earlier than the earliest permitted emit that is then in force.
EmitsSpaced ==
    [][ \A t \in Threads :
          pc[t] = "cas" /\ pc'[t] = "take" => stamp[t] >= next ]_vars
=============================================================================
