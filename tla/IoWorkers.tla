------------------------------ MODULE IoWorkers ------------------------------
(***************************************************************************)
(* IoContextManager (io_context_manager.hpp): worker threads run one       *)
(* io_context and restart it when run() returns or a handler throws, until *)
(* stop(), which any thread may call, a worker from a handler included.    *)
(***************************************************************************)
EXTENDS Integers, FiniteSets

CONSTANTS
    Workers, Main,      \* Main: the thread that owns the manager
    MaxThrows           \* handlers that throw

ASSUME WorkersAssumption == Main \notin Workers /\ MaxThrows \in Nat

VARIABLES
    stopped,            \* stopped_
    guard,              \* work_guard
    halted,             \* the io_context is stopped
    work,               \* an operation is outstanding that no handler will end
    wpc,                \* each worker: test, run, returned, restart, ended
    caller,             \* the threads inside stop()
    spc,                \* where the first of them is: idle, guard, halt, join, done
    throws,
    lateRestart,        \* restart() after ioc_.stop(): a history variable
    destroyed           \* ~IoContextManager is past stop()

workerVars == <<stopped, guard, halted, work, wpc, caller, spc, throws, lateRestart, destroyed>>

WorkersInit ==
    /\ stopped = FALSE /\ guard = TRUE /\ halted = FALSE /\ work \in BOOLEAN
    /\ wpc = [w \in Workers |-> "test"]
    /\ caller = Main /\ spc = "idle"
    /\ throws = 0 /\ lateRestart = FALSE /\ destroyed = FALSE

(* A worker tests stopped_ before run() and after it.                      *)
Test(w) ==
    /\ wpc[w] = "test"
    /\ wpc' = [wpc EXCEPT ![w] = IF stopped THEN "ended" ELSE "run"]
    /\ UNCHANGED <<stopped, guard, halted, work, caller, spc, throws, lateRestart, destroyed>>

(* run() returns when the context is stopped or out of work.               *)
RunReturns(w) ==
    /\ wpc[w] = "run"
    /\ halted \/ (~guard /\ ~work)
    /\ wpc' = [wpc EXCEPT ![w] = "returned"]
    /\ halted' = TRUE
    /\ UNCHANGED <<stopped, guard, work, caller, spc, throws, lateRestart, destroyed>>

HandlerThrows(w) ==
    /\ wpc[w] = "run" /\ ~halted /\ throws < MaxThrows /\ ~(caller = w /\ spc # "idle")
    /\ throws' = throws + 1
    /\ wpc' = [wpc EXCEPT ![w] = "returned"]
    /\ UNCHANGED <<stopped, guard, halted, work, caller, spc, lateRestart, destroyed>>

AfterRun(w) ==
    /\ wpc[w] = "returned"
    /\ wpc' = [wpc EXCEPT ![w] = IF stopped THEN "ended" ELSE "restart"]
    /\ UNCHANGED <<stopped, guard, halted, work, caller, spc, throws, lateRestart, destroyed>>

Restart(w) ==
    /\ wpc[w] = "restart"
    /\ halted' = FALSE /\ lateRestart' = (lateRestart \/ spc \in {"join", "done"})
    /\ wpc' = [wpc EXCEPT ![w] = "test"]
    /\ UNCHANGED <<stopped, guard, work, caller, spc, throws, destroyed>>

-----------------------------------------------------------------------------
(* stop(), by the owner or in a handler; later calls return at once.       *)

StopFlag(t) ==
    /\ ~stopped /\ (t \in Workers => wpc[t] = "run" /\ ~halted)
    /\ stopped' = TRUE /\ caller' = t /\ spc' = "guard"
    /\ UNCHANGED <<guard, halted, work, wpc, throws, lateRestart, destroyed>>

StopGuard ==
    /\ spc = "guard" /\ spc' = "halt" /\ guard' = FALSE
    /\ UNCHANGED <<stopped, halted, work, wpc, caller, throws, lateRestart, destroyed>>

\* Mutant: the context is not stopped; it ends when it is out of work.
StopHaltSkipped ==
    /\ spc = "halt" /\ spc' = "join"
    /\ UNCHANGED <<stopped, guard, halted, work, wpc, caller, throws, lateRestart, destroyed>>

StopHalt ==
    /\ spc = "halt" /\ spc' = "join" /\ halted' = TRUE
    /\ UNCHANGED <<stopped, guard, work, wpc, caller, throws, lateRestart, destroyed>>

\* Mutant: the threads are detached.
StopDetach ==
    /\ spc = "join" /\ spc' = "done"
    /\ UNCHANGED <<stopped, guard, halted, work, wpc, caller, throws, lateRestart, destroyed>>

(* Every thread is joined but the caller's own, which is detached.         *)
StopJoin ==
    /\ spc = "join" /\ \A w \in Workers \ {caller} : wpc[w] = "ended"
    /\ spc' = "done"
    /\ UNCHANGED <<stopped, guard, halted, work, wpc, caller, throws, lateRestart, destroyed>>

(* The owner destroys the manager: its stop() returns at once if another   *)
(* thread's is under way.                                                  *)
Destroy ==
    /\ ~destroyed /\ stopped /\ (caller = Main => spc = "done")
    /\ destroyed' = TRUE
    /\ UNCHANGED <<stopped, guard, halted, work, wpc, caller, spc, throws, lateRestart>>

Loop(w) == Test(w) \/ (RunReturns(w) /\ ~(caller = w /\ spc \notin {"idle", "done"})) \/ AfterRun(w) \/ Restart(w)
Stop == StopGuard \/ StopHalt \/ StopJoin

WorkersNext ==
    \/ \E w \in Workers : Loop(w) \/ HandlerThrows(w)
    \/ \E t \in Workers \cup {Main} : StopFlag(t)
    \/ Stop \/ Destroy

-----------------------------------------------------------------------------
(* stop() returns, and every worker ends, unless a worker that had already *)
(* tested stopped_ restarts the context after ioc_.stop(): then the others *)
(* may wait in run() for ever.                                             *)
StopEnds ==
    stopped ~> \/ spc = "done" /\ \A w \in Workers : wpc[w] = "ended"
               \/ lateRestart

(* The members are destroyed when no worker uses them any more, if it was  *)
(* the owner who stopped the manager.                                      *)
DestroyedQuiet == (destroyed /\ caller = Main) => \A w \in Workers : wpc[w] = "ended"
=============================================================================
