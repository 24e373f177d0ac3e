-------------------------------- MODULE IoChain --------------------------------
(***************************************************************************)
(* Running a chain of combinators: map, map_to, then, catch_then, map_err, *)
(* finally and finally_then of IO<T> and IO<void> (io_monad.hpp).  A stage *)
(* is a handler that is called with the result so far, may call the user's *)
(* function, and calls the next stage, on the same stack or later.  What   *)
(* makes this hard is exceptions: the try block of a stage encloses all    *)
(* the stages after it, so an exception of a later stage comes back to an  *)
(* earlier one, whose own continuation may have been moved away.           *)
(***************************************************************************)
EXTENDS Integers, Sequences

CONSTANTS
    N,          \* number of stages
    Throwing    \* functions that no try block guards, and the continuation, may throw

Stages == 1 .. N
StageKinds == {"map", "map_to", "then", "catch_then", "map_err", "finally", "finally_then"}

(* What a stage's function does: it returns a value or an IO that succeeds *)
(* ("value"), an IO that fails ("error"), or throws.                       *)
Outcomes(k) ==
    {"value"}
    \cup (IF k \in {"then", "catch_then"} THEN {"error"} ELSE {})
    \cup (IF k \in {"map_err", "finally"} /\ ~Throwing THEN {} ELSE {"throw"})

VARIABLES
    kind, out,  \* the chain, and the outcome of each stage's function
    source,     \* the result of the IO at the head of the chain
    pc,         \* "call" of stage at with r; "later": an IO is under way; "throw"; "over"
    at, r,
    tries,      \* stages whose try block is on the stack, innermost last
    moved,      \* stages whose continuation was moved into the IO they ran
    invoked,    \* calls of each stage's function
    delivered,  \* results the chain's continuation was called with
    leaked      \* an exception has left run()

vars == <<kind, out, source, pc, at, r, tries, moved, invoked, delivered, leaked>>

(* pure, fail and from_result call back at once.                           *)
Sources == {"ok", "failed"}

Init ==
    /\ kind \in [Stages -> StageKinds]
    /\ out \in [Stages -> {"value", "error", "throw"}]
    /\ \A i \in Stages : out[i] \in Outcomes(kind[i])
    /\ source \in Sources
    /\ pc = "call" /\ at = 1 /\ r = source
    /\ tries = <<>> /\ moved = {} /\ invoked = [i \in Stages |-> 0]
    /\ delivered = <<>> /\ leaked = FALSE

(* The code an exception in stage i's function becomes.                    *)
Caught(i) == CASE kind[i] = "then" -> "then threw"
               [] kind[i] = "catch_then" -> "catch threw"
               [] OTHER -> "map threw"

(* cb(result): the next stage is called, unless cb was moved away, when    *)
(* calling it throws bad_function_call.                                    *)
Continue(i, result) ==
    /\ IF i \in moved THEN pc' = "throw" /\ UNCHANGED <<at, r>>
       ELSE pc' = "call" /\ at' = i + 1 /\ r' = result

Invoke(i) == invoked' = [invoked EXCEPT ![i] = @ + 1]
Idle == UNCHANGED invoked
Keep == UNCHANGED <<tries, moved>>
Guard(i) == tries' = Append(tries, i)

(* The function and the continuation are in one try block.                 *)
Apply(i) ==
    IF r # "ok" THEN Continue(i, r) /\ Idle /\ Keep
    ELSE /\ Invoke(i)
         /\ IF out[i] = "throw" THEN Continue(i, Caught(i)) /\ Keep
            ELSE Continue(i, "ok") /\ Guard(i) /\ UNCHANGED moved

CallMap(i) == kind[i] = "map" /\ Apply(i)

(* map and map_to of IO<void>.                                             *)
CallMapTo(i) == kind[i] = "map_to" /\ Apply(i)

(* std::invoke(fn).run(std::move(cb)): the IO calls back at once, inside   *)
(* the try block, or later, on an empty stack.                             *)
RunInner(i, result) ==
    /\ moved' = moved \cup {i}
    /\ \/ Continue(i, result) /\ Guard(i)
       \/ /\ i \notin moved /\ pc' = "later" /\ at' = i + 1 /\ r' = result /\ tries' = <<>>

InnerResult(i) == IF out[i] = "error" THEN "failed" ELSE "ok"

CallThen(i) ==
    /\ kind[i] = "then"
    /\ IF r # "ok" THEN Continue(i, r) /\ Idle /\ Keep
       ELSE /\ Invoke(i)
            /\ IF out[i] = "throw" THEN Continue(i, Caught(i)) /\ Keep
               ELSE RunInner(i, InnerResult(i))

\* Mutant: the handler runs on success too.
CallCatchThenAlways(i) ==
    /\ kind[i] = "catch_then" /\ Invoke(i)
    /\ IF out[i] = "throw" THEN Continue(i, Caught(i)) /\ Keep
       ELSE RunInner(i, InnerResult(i))

CallCatchThen(i) ==
    /\ kind[i] = "catch_then"
    /\ IF r = "ok" THEN Continue(i, r) /\ Idle /\ Keep
       ELSE /\ Invoke(i)
            /\ IF out[i] = "throw" THEN Continue(i, Caught(i)) /\ Keep
               ELSE RunInner(i, InnerResult(i))

(* map_err has no try block.                                               *)
CallMapErr(i) ==
    /\ kind[i] = "map_err"
    /\ IF r = "ok" THEN Continue(i, r) /\ Idle
       ELSE /\ Invoke(i)
            /\ IF out[i] = "throw" THEN pc' = "throw" /\ UNCHANGED <<at, r>>
               ELSE Continue(i, "mapped")
    /\ Keep

\* Mutant: the cleanup is skipped when there was an error.
CallFinallyOnSuccess(i) ==
    /\ kind[i] = "finally"
    /\ IF r # "ok" THEN Continue(i, r) /\ Idle ELSE Invoke(i) /\ Continue(i, r)
    /\ Keep

CallFinally(i) ==
    /\ kind[i] = "finally" /\ Invoke(i)
    /\ IF out[i] = "throw" THEN pc' = "throw" /\ UNCHANGED <<at, r>> ELSE Continue(i, r)
    /\ Keep

(* finally_then: whatever the cleanup IO does, the result is passed on.    *)
CallFinallyThen(i) ==
    /\ kind[i] = "finally_then" /\ Invoke(i)
    /\ IF out[i] = "throw" THEN Continue(i, r) /\ Keep ELSE RunInner(i, r)

CallStage ==
    /\ pc = "call" /\ at <= N
    /\ \/ CallMap(at) \/ CallMapTo(at) \/ CallThen(at) \/ CallCatchThen(at)
       \/ CallMapErr(at) \/ CallFinally(at) \/ CallFinallyThen(at)
    /\ UNCHANGED <<kind, out, source, delivered, leaked>>

(* The continuation given to run().                                        *)
Deliver ==
    /\ pc = "call" /\ at = N + 1
    /\ delivered' = Append(delivered, r)
    /\ pc' \in {"over"} \cup (IF Throwing THEN {"throw"} ELSE {})
    /\ UNCHANGED <<kind, out, source, at, r, tries, moved, invoked, leaked>>

(* The asynchronous IO of a stage calls back.                              *)
Resume ==
    /\ pc = "later" /\ pc' = "call"
    /\ UNCHANGED <<kind, out, source, at, r, tries, moved, invoked, delivered, leaked>>

(* The innermost try block catches and calls its continuation with an      *)
(* error; without one the exception leaves run().                          *)
Unwind ==
    /\ pc = "throw"
    /\ IF tries = <<>>
       THEN pc' = "over" /\ leaked' = TRUE /\ UNCHANGED <<at, r, tries>>
       ELSE LET i == tries[Len(tries)] IN
            /\ Continue(i, Caught(i))
            /\ tries' = SubSeq(tries, 1, Len(tries) - 1)
            /\ UNCHANGED leaked
    /\ UNCHANGED <<kind, out, source, moved, invoked, delivered>>

Next == CallStage \/ Deliver \/ Resume \/ Unwind

Spec == Init /\ [][Next]_vars

-----------------------------------------------------------------------------
(* What the chain means: the result after i stages, errors as values.      *)
StageMeaning(i, in) ==
    LET ran == IF out[i] = "throw" THEN Caught(i) ELSE InnerResult(i)
    IN CASE kind[i] \in {"map", "map_to", "then"} -> IF in = "ok" THEN ran ELSE in
         [] kind[i] = "catch_then" -> IF in = "ok" THEN in ELSE ran
         [] kind[i] = "map_err" -> IF in = "ok" THEN in ELSE "mapped"
         [] OTHER -> in

Meaning[i \in 0 .. N] == IF i = 0 THEN source ELSE StageMeaning(i, Meaning[i - 1])

Guarded == \A i \in Stages : out[i] = "throw" => kind[i] \notin {"map_err", "finally"}

(* When only guarded functions throw, what is delivered first is what the  *)
(* chain means, however its stages wait and whatever the continuation does. *)
DeliversMeaning == Guarded => delivered = <<>> \/ delivered[1] = Meaning[N]

(* When nothing escapes, neither from an unguarded function nor from the   *)
(* continuation, every cleanup has run exactly once, on success and on     *)
(* error, whether the stages around it throw or wait.                      *)
CleanupRan ==
    Guarded /\ pc = "over" /\ ~leaked /\ Len(delivered) = 1 =>
        \A i \in Stages : kind[i] \in {"finally", "finally_then"} => invoked[i] = 1

(* Whatever throws, a result that does not reach the continuation leaves   *)
(* run() as an exception: nothing is lost in silence.                      *)
LossIsLoud == (pc = "over" /\ delivered = <<>>) => leaked
=============================================================================
