----------------------------- MODULE MCOperators -----------------------------
(***************************************************************************)
(* The operators of one IO, one family at a time: the loops of Attempts,   *)
(* a timed IO inside a retry, or a chain of stages.  The variables of the  *)
(* families that are not running keep one initial value.                   *)
(***************************************************************************)
EXTENDS Attempts

CONSTANTS
    MaxRuns,    \* of the timed IO in its retry
    Length      \* of the chain

ASSUME OperatorsAssumption == MaxRuns \in Nat /\ Length \in Nat

AllKinds == {"retry", "retry_void", "retry_legacy", "poll", "poll_ex",
             "poll_void", "poll_void_ex", "poll_state", "poll_legacy"}
Limits == -1 .. 3

VARIABLES
    part,
    op, started, job, timer, handler, flag, stored, elapsed, answers,
    stages, out, source, where, at, r, tries, moved, invoked, delivered, leaked

T == INSTANCE TimedIO WITH Ops <- {"timeout", "delay", "delay_for"}, Threads <- 1
C == INSTANCE IoChain WITH N <- Length, Throwing <- TRUE, kind <- stages, pc <- where

timedVars == <<op, started, job, timer, handler, flag, stored, elapsed, answers>>
chainVars == <<stages, out, source, where, at, r, tries, moved, invoked, delivered, leaked>>
allVars == <<part, vars, timedVars, chainVars>>

MCInit ==
    /\ Init /\ T!Init
    /\ part \in {"attempts", "timed", "chain"}
    /\ part # "attempts" => kind = "poll" /\ max = 1
    /\ part # "timed" => op = "timeout"
    /\ C!Init
    /\ part # "chain" => /\ stages = [i \in C!Stages |-> "map"]
                         /\ out = [i \in C!Stages |-> "value"] /\ source = "ok"

OfAttempts(act) == part = "attempts" /\ act /\ UNCHANGED <<part, timedVars, chainVars>>
OfTimed(act) == part = "timed" /\ act /\ UNCHANGED <<part, vars, chainVars>>
OfChain(act) == part = "chain" /\ act /\ UNCHANGED <<part, vars, timedVars>>

MCNext == OfAttempts(Next) \/ OfTimed(T!Next) \/ OfChain(C!Next)

MCSpec ==
    /\ MCInit /\ [][MCNext]_allVars
    /\ WF_allVars(OfAttempts(Progress)) /\ WF_allVars(OfTimed(T!Progress))

-----------------------------------------------------------------------------
(* Attempts: every loop of retry_exponential_if, poll_if and               *)
(* poll_with_state calls its continuation.                                 *)
LoopAnswered == part = "attempts" => Answered

(* TimedIO: the late result of a run that was timed out is nobody's answer, *)
(* and delay() delivers nothing before its time, nor without a result.     *)
OnTime == T!LateResultIgnored /\ T!NotEarly

(* TimedIO: timeout() answers when the job hangs, delay() when it ends.    *)
TimedAnswered == part = "timed" => T!Answered

(* IoChain: what the chain delivers is what its stages mean, and what it   *)
(* does not deliver leaves run() as an exception.                          *)
DeliversMeaning == C!DeliversMeaning /\ C!LossIsLoud

(* IoChain: finally and finally_then run their cleanup exactly once.       *)
CleanupRan == C!CleanupRan
=============================================================================
