------------------------------- MODULE Attempts -------------------------------
(***************************************************************************)
(* The combinators of io_monad.hpp and io_monad_poll_with_state.hpp that   *)
(* run a job again after a wait.  A closure (try_run or do_attempt) starts *)
(* the job; the result handler answers or starts a timer; the timer        *)
(* handler calls the closure again, which it holds weakly.  What can go    *)
(* wrong is the counting at the limit, and the life of the closure: it     *)
(* must outlive the wait and must not outlive the answer.                  *)
(*                                                                         *)
(* Kinds of combinator:                                                    *)
(*   retry        retry_exponential_if of IO<T>                            *)
(*   retry_void   retry_exponential_if of IO<void>                         *)
(*   poll, poll_ex            poll_if of IO<T>, io_context or executor     *)
(*   poll_void, poll_void_ex  poll_if of IO<void>, the same                *)
(*   poll_state   poll_with_state                                          *)
(*   retry_legacy, poll_legacy   the ones of io_monad_poll_if_legacy.hpp   *)
(***************************************************************************)
EXTENDS Integers, FiniteSets

CONSTANTS
    Kinds,          \* the kinds of combinator of this instance
    MaxAttempts,    \* the values of max_attempts, any integers
    OneThread,      \* the caller's thread is the one that runs the io_context
    Faults          \* "timer_error", "shutdown" of the io_context, "callback_throws"

ASSUME AttemptsAssumption ==
    /\ Kinds \subseteq {"retry", "retry_void", "retry_legacy",
                        "poll", "poll_ex", "poll_void", "poll_void_ex",
                        "poll_state", "poll_legacy"}
    /\ MaxAttempts \subseteq Int
    /\ OneThread \in BOOLEAN
    /\ Faults \subseteq {"timer_error", "shutdown", "callback_throws"}

VARIABLES
    kind, max,      \* the combinator and its max_attempts
    attempt,        \* *attempt: runs of the job so far
    pc,             \* where the loop stands
    frames,         \* calls of the closure that have not returned
    held,           \* who else owns the closure: its own cycle, a wait
    posted,         \* a cleanup is queued on the io_context
    answer,         \* what the continuation was given first
    calls,          \* how often the continuation was called
    threw           \* history: its first call threw

vars == <<kind, max, attempt, pc, frames, held, posted, answer, calls, threw>>

Retrying == {"retry", "retry_void", "retry_legacy"}
Answers == {"none", "ok", "soft", "hard", "exhausted", "timer", "thrown"}

Alive == frames > 0 \/ held # {}

-----------------------------------------------------------------------------
\* Mutant: the closure is captured weakly everywhere.
InitialOwnersWeak(k) == {}

(* The closure captures itself, directly or through keep_alive_holder,     *)
(* except in the legacy poll_if, where only the first call's frame owns it. *)
InitialOwners(k) == IF k = "poll_legacy" THEN {} ELSE {"cycle"}

Init ==
    /\ kind \in Kinds /\ max \in MaxAttempts
    /\ attempt = 0 /\ pc = "begin" /\ frames = 1
    /\ held = InitialOwners(kind)
    /\ posted = FALSE /\ answer = "none" /\ calls = 0 /\ threw = FALSE

(* What is released with the answer.  retry leaves its cycle when the      *)
(* timer reports an error; the legacy retry never breaks it; poll posts    *)
(* the release to the io_context.                                          *)
CycleKept(a) ==
    \/ kind \in {"retry_legacy", "poll"}
    \/ kind = "retry" /\ a = "timer"

(* The continuation is called.  The try block of poll_with_state encloses  *)
(* the run of the job, and so the result handler and the continuation when *)
(* the job calls back before its run returns: a continuation that throws   *)
(* a std::exception there is caught and called again with it.  (A job that *)
(* ends on another thread meanwhile is outside of the block.)  From every  *)
(* other place the exception leaves after the cleanup and changes nothing. *)
CallBack ==
    \E t \in (IF "callback_throws" \in Faults THEN BOOLEAN ELSE {FALSE}) :
        /\ threw' = t
        /\ \/ calls' = calls + 1
           \/ /\ t /\ kind = "poll_state" /\ pc = "running" /\ frames > 0
              /\ calls' = calls + 2

\* Mutant: the cycle is never broken.
AnswerKeepsCycle(a) ==
    /\ answer' = a /\ CallBack /\ pc' = "over"
    /\ held' = held \ {"timer"}
    /\ posted' = (posted \/ kind = "poll")

Answer(a) ==
    /\ answer' = a /\ CallBack /\ pc' = "over"
    /\ held' = held \ (IF CycleKept(a) THEN {"timer"} ELSE {"cycle", "timer"})
    /\ posted' = (posted \/ kind = "poll")

(* A timer is started.  Its handler owns a copy of the closure or, in      *)
(* retry and in the legacy poll_if, a weak reference only.                 *)
Wait ==
    /\ pc' = "waiting"
    /\ held' = IF kind \in {"retry", "poll_legacy"} THEN held ELSE held \cup {"timer"}
    /\ UNCHANGED <<posted, answer, calls, threw>>

(* The closure runs: a poll first looks whether attempts are left; a job   *)
(* of poll_with_state may throw before it returns an IO.                   *)
DoAttempt ==
    /\ pc = "begin"
    /\ IF kind \notin Retrying /\ attempt >= max
       THEN Answer("exhausted") /\ UNCHANGED attempt
       ELSE /\ attempt' = attempt + 1
            /\ \/ /\ pc' = "running"
                  /\ UNCHANGED <<held, posted, answer, calls, threw>>
               \/ kind = "poll_state" /\ Answer("thrown")
    /\ UNCHANGED <<kind, max, frames>>

(* The job's result: "ok" ends the loop, "unsatisfied" is a success that   *)
(* the predicate of a poll refuses, "soft" and "hard" are errors that the  *)
(* predicate wants retried or not.                                         *)
RetryEnds(r) == r = "ok" \/ attempt >= max \/ r = "hard"
PollEnds(r) == r = "ok" \/ r = "hard" \/ (r = "soft" /\ attempt >= max)

HandleRetry(r) ==
    /\ kind = "retry" /\ r # "unsatisfied"
    /\ IF RetryEnds(r) THEN Answer(r) ELSE Wait

HandleRetryVoid(r) ==
    /\ kind = "retry_void" /\ r # "unsatisfied"
    /\ IF RetryEnds(r) THEN Answer(r) ELSE Wait

\* Mutant: a retryable error ends the poll like any other.
HandlePollEager(r) ==
    /\ kind = "poll"
    /\ IF r \in {"ok", "hard", "soft"} THEN Answer(r) ELSE Wait

HandlePoll(r) == kind = "poll" /\ IF PollEnds(r) THEN Answer(r) ELSE Wait

HandlePollEx(r) == kind = "poll_ex" /\ IF PollEnds(r) THEN Answer(r) ELSE Wait

HandlePollVoid(r) == kind = "poll_void" /\ IF PollEnds(r) THEN Answer(r) ELSE Wait

HandlePollVoidEx(r) == kind = "poll_void_ex" /\ IF PollEnds(r) THEN Answer(r) ELSE Wait

(* The legacy handlers decide alike; they differ in what they own.         *)
HandleRetryLegacy(r) ==
    /\ kind = "retry_legacy" /\ r # "unsatisfied"
    /\ IF RetryEnds(r) THEN Answer(r) ELSE Wait

HandlePollLegacy(r) == kind = "poll_legacy" /\ IF PollEnds(r) THEN Answer(r) ELSE Wait

(* decide() of poll_with_state: done or fail ("ok", "hard"), retry (any    *)
(* result), or an exception.                                               *)
HandlePollState(r) ==
    /\ kind = "poll_state"
    /\ \/ r \in {"ok", "hard"} /\ Answer(r)
       \/ r \in {"unsatisfied", "soft"} /\ attempt < max /\ Wait
       \/ r \in {"unsatisfied", "soft"} /\ attempt >= max /\ Answer("exhausted")
       \/ Answer("thrown")

JobEnds ==
    /\ pc = "running"
    /\ \E r \in {"ok", "unsatisfied", "soft", "hard"} :
          \/ HandleRetry(r) \/ HandleRetryVoid(r) \/ HandlePollState(r)
          \/ HandlePoll(r) \/ HandlePollEx(r) \/ HandlePollVoid(r) \/ HandlePollVoidEx(r)
          \/ HandleRetryLegacy(r) \/ HandlePollLegacy(r)
    /\ UNCHANGED <<kind, max, attempt, frames>>

(* Handlers of the io_context run when its thread is free.                 *)
IoFree == OneThread => frames = 0

(* The wait is over.  The handler locks the weak reference and, when the   *)
(* closure is still there, calls it; otherwise it does nothing.            *)
TimerFires ==
    /\ pc = "waiting" /\ IoFree
    /\ IF Alive THEN pc' = "begin" /\ frames' = frames + 1
                ELSE pc' = "lost" /\ UNCHANGED frames
    /\ held' = held \ {"timer"}
    /\ UNCHANGED <<kind, max, attempt, posted, answer, calls, threw>>

TimerFails ==
    /\ "timer_error" \in Faults
    /\ pc = "waiting" /\ IoFree
    /\ Answer("timer")
    /\ UNCHANGED <<kind, max, attempt, frames>>

(* A call of the closure returns to the caller or to the timer handler.    *)
FrameReturns ==
    /\ frames > (IF pc = "begin" THEN 1 ELSE 0)
    /\ frames' = frames - 1
    /\ UNCHANGED <<kind, max, attempt, pc, held, posted, answer, calls, threw>>

(* The posted cleanup of poll empties the function object.                 *)
RunCleanup ==
    /\ posted /\ IoFree
    /\ posted' = FALSE /\ held' = held \ {"cycle"}
    /\ UNCHANGED <<kind, max, attempt, pc, frames, answer, calls, threw>>

(* The io_context goes away with the handlers it still has.                *)
Shutdown ==
    /\ "shutdown" \in Faults /\ frames = 0
    /\ pc = "waiting" \/ posted
    /\ pc' = "shut"
    /\ held' = held \ {"timer"} /\ posted' = FALSE
    /\ UNCHANGED <<kind, max, attempt, frames, answer, calls, threw>>

Next ==
    \/ DoAttempt \/ JobEnds \/ TimerFires \/ TimerFails
    \/ FrameReturns \/ RunCleanup \/ Shutdown

(* The job calls back, timers fire and queued handlers run.  Every loop is *)
(* finite, so that fairness need not tell these steps apart.               *)
Progress == DoAttempt \/ JobEnds \/ TimerFires \/ FrameReturns \/ RunCleanup

Spec == Init /\ [][Next]_vars /\ WF_vars(Progress)

-----------------------------------------------------------------------------
(* Types of the variables.                                                 *)
TypeOK ==
    /\ kind \in Kinds /\ max \in MaxAttempts
    /\ attempt \in Nat /\ frames \in Nat /\ calls \in Nat
    /\ pc \in {"begin", "running", "waiting", "over", "lost", "shut"}
    /\ held \subseteq {"cycle", "timer"}
    /\ posted \in BOOLEAN /\ threw \in BOOLEAN /\ answer \in Answers

(* The job runs at most max_attempts times; retry_exponential_if runs it   *)
(* once even when max_attempts is not positive, a poll never does.         *)
AtMostMaxRuns ==
    attempt <= IF kind \in Retrying /\ max < 1 THEN 1 ELSE IF max < 0 THEN 0 ELSE max

(* The continuation is called once, or twice when it throws out of its     *)
(* first call inside the try block of poll_with_state; after that no job   *)
(* runs and no timer waits.  Its first answer is one the runs account for: *)
(* a retryable error or "exhausted" only when every attempt was used.      *)
AnswerJustified ==
    /\ calls <= IF threw /\ kind = "poll_state" THEN 2 ELSE 1
    /\ pc = "over" => calls >= 1
    /\ calls >= 1 => pc \in {"over", "shut"}
    /\ calls >= 1 <=> answer # "none"
    /\ answer \in {"soft", "exhausted"} => attempt >= max
    /\ answer \in {"ok", "soft", "hard", "timer", "thrown"} => attempt >= 1

(* The job runs no more than max_attempts allows, and the answer of a loop *)
(* is one that its runs account for.                                       *)
LoopJustified == AtMostMaxRuns /\ AnswerJustified

(* The closure, and the job it owns, are gone when the loop has answered   *)
(* and its handlers have run.  Two paths clean nothing up: the timer error *)
(* of retry_exponential_if of IO<T>, and the legacy retry.                 *)
Released ==
    /\ pc = "over" /\ frames = 0 /\ ~posted
    /\ ~(kind = "retry" /\ answer = "timer") /\ kind # "retry_legacy"
    => ~Alive

(* The cleanup that poll_if posts does not destroy the function object     *)
(* while a call of it is executing.                                        *)
NotDestroyedInUse == [][(posted /\ ~posted') => frames = 0]_vars

(* Every loop ends by calling the continuation, unless the io_context is   *)
(* destroyed first: the closure outlives each wait.  The legacy poll_if,   *)
(* whose closure only the first call owns, is the exception.               *)
Answered == kind # "poll_legacy" => <>(calls >= 1 \/ pc = "shut")
=============================================================================
