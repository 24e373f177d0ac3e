--------------------------- MODULE CollectParallel ---------------------------
(***************************************************************************)
(* collect_io_parallel, its bounded variant, and collect_result_parallel   *)
(* (include/io_monad.hpp): run N IOs, at most Concurrency at a time in     *)
(* chunks, and call the continuation with all the results.                 *)
(*                                                                         *)
(* The IOs may call back on different threads, so every access of a        *)
(* callback to what the callbacks share is a step of its own.  Concurrency *)
(* >= N is the unbounded variant; Concurrency = 1 gives the steps of the   *)
(* sequential collect_io and collect_result_io.                            *)
(***************************************************************************)
EXTENDS Integers, FiniteSets

CONSTANTS
    N,              \* items.size()
    Concurrency,    \* concurrency
    FirstErrorWins  \* TRUE: collect_io_parallel; FALSE: collect_result_parallel

ASSUME CollectAssumption ==
    /\ N \in Nat
    /\ Concurrency \in Nat \ {0}
    /\ FirstErrorWins \in BOOLEAN

Items == 1 .. N

VARIABLES
    lo,         \* first item of the chunk that is running
    next,       \* the loop that starts the IOs: the item it has reached
    pc,         \* where the callback of each item stands
    out,        \* what each IO ended with
    slot,       \* items whose entry of results is engaged
    remaining,  \* remaining of the running chunk
    done,       \* done of the running chunk
    calls,      \* how often the caller's continuation was called
    answer      \* what it was called with

vars == <<lo, next, pc, out, slot, remaining, done, calls, answer>>

\* "counted" is past fetch_sub, "quit" returned without it.
Pcs == {"idle", "running", "checked", "stored", "last", "counted", "quit"}

\* Mutant: one item too many.
ChunkOver(l) == {i \in Items : l <= i /\ i <= l + Concurrency}

\* The chunk that starts at item l.
Chunk(l) == {i \in Items : l <= i /\ i < l + Concurrency}

Init ==
    /\ lo = 1
    /\ next = 1
    /\ pc = [i \in Items |-> "idle"]
    /\ out = [i \in Items |-> "none"]
    /\ slot = {}
    /\ remaining = Cardinality(Chunk(1))
    /\ done = FALSE
    /\ calls = IF N = 0 THEN 1 ELSE 0
    /\ answer = IF N = 0 THEN "ok" ELSE "none"

Goto(i, where) == pc' = [pc EXCEPT ![i] = where]

Call(result) == calls' = calls + 1 /\ answer' = result

\* The loop goes on to start the chunk's IOs when some have ended already.
Start ==
    /\ next \in Chunk(lo)
    /\ Goto(next, "running")
    /\ next' = next + 1
    /\ UNCHANGED <<lo, out, slot, remaining, done, calls, answer>>

\* An IO calls back, and the callback loads done.
Complete(i, result) ==
    /\ pc[i] = "running"
    /\ out' = [out EXCEPT ![i] = result]
    /\ Goto(i, IF FirstErrorWins /\ done THEN "quit" ELSE "checked")
    /\ UNCHANGED <<lo, next, slot, remaining, done, calls, answer>>

\* Mutants: done is set and not compared; the failed item is counted down too.
ReportErrorAlways(i) ==
    /\ pc[i] = "checked" /\ FirstErrorWins /\ out[i] = "err"
    /\ done' = TRUE /\ Call("err")
    /\ Goto(i, "quit")
    /\ UNCHANGED <<lo, next, out, slot, remaining>>

ReportErrorCounts(i) ==
    /\ pc[i] = "checked" /\ FirstErrorWins /\ out[i] = "err"
    /\ IF done THEN UNCHANGED <<done, calls, answer>>
               ELSE done' = TRUE /\ Call("err")
    /\ remaining' = remaining - 1
    /\ Goto(i, IF remaining = 1 THEN "last" ELSE "counted")
    /\ UNCHANGED <<lo, next, out, slot>>

\* compare_exchange on done; the winner reports its error.
ReportError(i) ==
    /\ pc[i] = "checked" /\ FirstErrorWins /\ out[i] = "err"
    /\ IF done THEN UNCHANGED <<done, calls, answer>>
               ELSE done' = TRUE /\ Call("err")
    /\ Goto(i, "quit")
    /\ UNCHANGED <<lo, next, out, slot, remaining>>

\* emplace, under the mutex.
Store(i) ==
    /\ pc[i] = "checked"
    /\ out[i] = "ok" \/ ~FirstErrorWins
    /\ slot' = slot \cup {i}
    /\ Goto(i, "stored")
    /\ UNCHANGED <<lo, next, out, remaining, done, calls, answer>>

\* The last one of the chunk goes on to finalize.
CountDown(i) ==
    /\ pc[i] = "stored"
    /\ remaining' = remaining - 1
    /\ Goto(i, IF remaining = 1 THEN "last" ELSE "counted")
    /\ UNCHANGED <<lo, next, out, slot, done, calls, answer>>

(***************************************************************************)
(* compare_exchange on done (not in collect_result_parallel), then the     *)
(* chunk's results are moved out.  After the last chunk the continuation   *)
(* is called, otherwise collect_io starts the next one.                    *)
(***************************************************************************)
Finalize(i) ==
    /\ pc[i] = "last"
    /\ Goto(i, "counted")
    /\ UNCHANGED <<out, slot>>
    /\ IF FirstErrorWins /\ done
       THEN UNCHANGED <<lo, next, remaining, done, calls, answer>>
       ELSE IF lo + Concurrency > N
       THEN done' = TRUE /\ Call("ok") /\ UNCHANGED <<lo, next, remaining>>
       ELSE /\ lo' = lo + Concurrency
            /\ remaining' = Cardinality(Chunk(lo + Concurrency))
            /\ done' = FALSE
            /\ UNCHANGED <<next, calls, answer>>

Callback(i) == ReportError(i) \/ Store(i) \/ CountDown(i) \/ Finalize(i)

Next ==
    \/ Start
    \/ \E i \in Items, r \in {"ok", "err"} : Complete(i, r)
    \/ \E i \in Items : Callback(i)

Spec == Init /\ [][Next]_vars

(***************************************************************************)
(* The starting loop and the callbacks run to their end, and every IO      *)
(* calls back, which is what running an IO promises.                       *)
(***************************************************************************)
Fairness ==
    /\ WF_vars(Start)
    /\ \A i \in Items : /\ WF_vars(Complete(i, "ok") \/ Complete(i, "err"))
                        /\ WF_vars(Callback(i))

FairSpec == Spec /\ Fairness

-----------------------------------------------------------------------------
\* The variables have their types.
TypeOK ==
    /\ lo \in Nat /\ next \in Nat
    /\ pc \in [Items -> Pcs]
    /\ out \in [Items -> {"none", "ok", "err"}]
    /\ slot \subseteq Items
    /\ remaining \in Nat
    /\ done \in BOOLEAN
    /\ calls \in Nat
    /\ answer \in {"none", "ok", "err"}

\* The continuation is called at most once, however the callbacks race: two
\* failures, or a failure and the last success, never both win.
CalledOnce == calls <= 1 /\ (calls = 0 <=> answer = "none")

\* The callback that counts down to zero finds every slot of its chunk engaged,
\* so that slot.value() does not throw, and no failure reported before it.
LastFindsAll ==
    \A i \in Items : pc[i] = "last" => Chunk(lo) \subseteq slot /\ ~done

\* A vector is delivered only when every IO succeeded (collect_io_parallel) or
\* ended (collect_result_parallel), and an error only when one failed.
AnswerJustified ==
    /\ answer = "ok" => \A i \in Items : i \in slot /\ (FirstErrorWins => out[i] = "ok")
    /\ answer = "err" => \E i \in Items : out[i] = "err"

\* No more than Concurrency IOs run at once, and none of a later chunk is
\* started while the chunk runs or after it failed.
BoundedAndStopped ==
    /\ Cardinality({i \in Items : pc[i] = "running"}) <= Concurrency
    /\ \A i \in Items : i >= lo + Concurrency => pc[i] = "idle"
    /\ \A i \in Items : i < lo => pc[i] = "counted"

\* If every IO calls back, the continuation is called.
EventuallyCalled == <>(calls = 1)

-----------------------------------------------------------------------------
(***************************************************************************)
(* What the combinator promises is Aggregate, with the callbacks' steps    *)
(* hidden.                                                                 *)
(***************************************************************************)
A == INSTANCE Aggregate WITH ended <- out

Implements == A!Spec
=============================================================================
