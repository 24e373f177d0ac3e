----------------------------- MODULE SequentialIO -----------------------------
(***************************************************************************)
(* IOs run one after another (io_monad.hpp): collect_io, collect_result_io *)
(* and all_ok_io keep an index and a closure, step, that starts the next   *)
(* IO and that the callback of an IO calls again; zip_io and               *)
(* zip_io_skip_void nest then() and map().  An IO may call back inside     *)
(* run() or later, when the calls that started it have returned.           *)
(***************************************************************************)
EXTENDS Integers, Sequences

CONSTANT N      \* number of IOs

Kinds == {"collect", "collect_result", "all_ok", "zip", "zip_skip_void"}
Items == 1 .. N

VARIABLES
    kind,
    res,        \* how each IO will end
    voids,      \* the IO<void> among them
    idx,        \* *idx: IOs that have ended well, or just ended
    pc,         \* "step": the next IO is due; "running"; "ended"; "over"; "lost"
    frames,     \* calls of step, or of a callback that holds it, on the stack
    keep,       \* the pending callback owns step (step_keepalive)
    out,        \* the IOs whose results were collected, in order
    calls, answer

vars == <<kind, res, voids, idx, pc, frames, keep, out, calls, answer>>

Init ==
    /\ kind \in Kinds /\ res \in [Items -> {"ok", "err"}]
    /\ voids \in (IF kind = "zip_skip_void" THEN SUBSET Items ELSE {{}})
    /\ idx = 0 /\ pc = "step" /\ frames = 1 /\ keep = FALSE
    /\ out = <<>> /\ calls = 0 /\ answer = "none"

(* all_ok_io's step captures itself; the others are captured weakly.  The  *)
(* nested lambdas of zip_io own what they need.                            *)
Cycle == kind \in {"all_ok", "zip", "zip_skip_void"}
Alive == frames > 0 \/ keep \/ Cycle

Call(a) == answer' = a /\ calls' = calls + 1 /\ pc' = "over"

\* Mutant: the callback holds step weakly, too.
KeepsNothing == FALSE

(* step_keepalive = weak_step.lock()                                       *)
Keeps == kind \in {"collect", "collect_result"} /\ Alive

(* Every step starts one IO or, after the last, answers.                   *)
Step ==
    /\ pc = "step"
    /\ IF idx >= N THEN Call("ok") /\ UNCHANGED keep
       ELSE pc' = "running" /\ keep' = Keeps /\ UNCHANGED <<calls, answer>>
    /\ UNCHANGED <<kind, res, voids, idx, frames, out>>

\* Mutant: the result of an IO<void> takes a slot.
CollectedAll(i) == Append(out, i)

(* push_back, tuple_cat; all_ok_io and void slots have no value.           *)
Collected(i) == IF kind = "all_ok" \/ i \in voids THEN out ELSE Append(out, i)

(* collect_result_io takes an error for a result like any other.           *)
Fails(i) == kind # "collect_result" /\ res[i] = "err"

(* The IO ends: its thunk calls back, now or from the io_context.          *)
IoEnds ==
    /\ pc = "running" /\ pc' = "ended"
    /\ UNCHANGED <<kind, res, voids, idx, frames, keep, out, calls, answer>>

\* Mutant: the error is reported and the sequence goes on.
CallbackGoesOn ==
    /\ pc = "ended"
    /\ frames' = frames + 1 /\ keep' = FALSE
    /\ out' = Collected(idx + 1) /\ idx' = idx + 1
    /\ IF Fails(idx + 1) THEN answer' = "err" /\ calls' = calls + 1
                         ELSE UNCHANGED <<calls, answer>>
    /\ pc' = IF Alive THEN "step" ELSE "lost"
    /\ UNCHANGED <<kind, res, voids>>

(* Its callback: the error is passed on, or the result is kept and step    *)
(* called, if it is still there.                                           *)
Callback ==
    /\ pc = "ended"
    /\ frames' = frames + 1 /\ keep' = FALSE
    /\ IF Fails(idx + 1)
       THEN Call("err") /\ UNCHANGED <<out, idx>>
       ELSE /\ out' = Collected(idx + 1) /\ idx' = idx + 1
            /\ pc' = IF Alive THEN "step" ELSE "lost"
            /\ UNCHANGED <<calls, answer>>
    /\ UNCHANGED <<kind, res, voids>>

FrameReturns ==
    /\ frames > (IF pc = "step" THEN 1 ELSE 0)
    /\ frames' = frames - 1
    /\ UNCHANGED <<kind, res, voids, idx, pc, keep, out, calls, answer>>

Next == Step \/ IoEnds \/ Callback \/ FrameReturns

(* Every IO calls back, and calls return.                                  *)
Spec == Init /\ [][Next]_vars /\ WF_vars(Next)

-----------------------------------------------------------------------------
(* The values keep the order of the IOs, one for each that has a value,    *)
(* and none is collected from beyond an error.                             *)
OrderKept ==
    /\ \A a, b \in DOMAIN out : a < b => out[a] < out[b]
    /\ answer = "ok" => \A i \in Items :
          (\E a \in DOMAIN out : out[a] = i) <=> (i \notin voids /\ kind # "all_ok")
    /\ \A a \in DOMAIN out : \A i \in 1 .. out[a] : ~Fails(i)

(* The continuation is called in the end: step outlives the calls that     *)
(* started an asynchronous IO.                                             *)
Answered == <>(calls = 1)

(* Running in sequence keeps the promise of collecting (module Aggregate). *)
A == INSTANCE Aggregate WITH
        FirstErrorWins <- TRUE,
        ended <- [i \in Items |-> IF i <= idx \/ (i = idx + 1 /\ (pc = "ended" \/ answer = "err"))
                                  THEN IF Fails(i) THEN "err" ELSE "ok" ELSE "none"]

Implements == A!Spec
=============================================================================
