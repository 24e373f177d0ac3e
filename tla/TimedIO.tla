-------------------------------- MODULE TimedIO --------------------------------
(***************************************************************************)
(* timeout() and delay() of IO<T> and IO<void> (io_monad.hpp): a job and a *)
(* steady_timer, started together, meet in plain flags that both handlers  *)
(* read and write.  delay_for and the free function delay start the job    *)
(* when the timer has fired.  A handler is two steps, the test of the flag *)
(* and what follows from it, so that handlers on two threads interleave.   *)
(*                                                                         *)
(* The timed IO is run again by a retry when it answers with an error      *)
(* (module Attempts), each run on a clone with flags of its own: the job   *)
(* of a run that was timed out may end while a later run is under way.     *)
(***************************************************************************)
EXTENDS Naturals, Sequences

CONSTANTS
    Ops,        \* the combinators: "timeout", "delay", "delay_for"
    MaxRuns,    \* max_attempts of the retry around it
    Threads     \* threads that run the handlers of one run

Runs == 1 .. MaxRuns
Handlers == {"timer", "job"}

VARIABLES
    op,
    started,    \* runs so far
    job,        \* job[r]: "unstarted", "running", "ok", "err"; "dropped": no callback
    timer,      \* timer[r]: "off", "armed"; handler queued: "fired", "aborted"; "spent"
    handler,    \* handler[r][h]: "idle", "passed" the test of the flag, "over"
    flag,       \* flag[r]: *fired of timeout, *delivered of delay
    stored,     \* stored[r]: *result of delay has a value
    elapsed,    \* elapsed[r]: *timer_fired of delay
    answers     \* calls of the continuation: run and result, in order

vars == <<op, started, job, timer, handler, flag, stored, elapsed, answers>>

(* The timer is armed before the job is run.                               *)
Begin(j, t, r) ==
    /\ job' = [j EXCEPT ![r] = IF op = "delay_for" THEN "unstarted" ELSE "running"]
    /\ timer' = [t EXCEPT ![r] = "armed"]

Init ==
    /\ op \in Ops /\ started = 0
    /\ job = [r \in Runs |-> "unstarted"] /\ timer = [r \in Runs |-> "off"]
    /\ handler = [r \in Runs |-> [h \in Handlers |-> "idle"]]
    /\ flag = [r \in Runs |-> FALSE] /\ stored = [r \in Runs |-> FALSE]
    /\ elapsed = [r \in Runs |-> FALSE] /\ answers = <<>>

AnswersOf(r) == {i \in DOMAIN answers : answers[i].run = r}

(* The first run, or the next one when the first answer of this one is an  *)
(* error.                                                                  *)
Run ==
    /\ started < MaxRuns
    /\ started > 0 => \E i \in AnswersOf(started) :
                          /\ answers[i].what # "ok"
                          /\ \A j \in AnswersOf(started) : i <= j
    /\ started' = started + 1 /\ Begin(job, timer, started + 1)
    /\ UNCHANGED <<op, handler, flag, stored, elapsed, answers>>

Expire(r) ==
    /\ timer[r] = "armed" /\ timer' = [timer EXCEPT ![r] = "fired"]
    /\ UNCHANGED <<op, started, job, handler, flag, stored, elapsed, answers>>

JobEnds(r) ==
    /\ job[r] = "running"
    /\ \E result \in {"ok", "err"} : job' = [job EXCEPT ![r] = result]
    /\ UNCHANGED <<op, started, timer, handler, flag, stored, elapsed, answers>>

(* Only the job's callback owns the timer of timeout(): when the callback  *)
(* is destroyed, called or not, a pending wait is cancelled.  The wait of  *)
(* delay() owns its timer itself.                                          *)
Cancelled(r) == IF op = "timeout" /\ timer[r] = "armed" THEN "aborted" ELSE timer[r]

JobDrops(r) ==
    /\ job[r] = "running" /\ job' = [job EXCEPT ![r] = "dropped"]
    /\ timer' = [timer EXCEPT ![r] = Cancelled(r)]
    /\ UNCHANGED <<op, started, handler, flag, stored, elapsed, answers>>

Queued(r, h) == IF h = "timer" THEN timer[r] \in {"fired", "aborted"}
                               ELSE job[r] \in {"ok", "err"}

\* Mutant: the flag is shared by all runs.
PassesShared(r) == \A s \in Runs : ~flag[s]

\* Mutant: the flag is not tested.
PassesAlways(r) == TRUE

(* if ( *fired ) return; if ( *delivered ) return;                         *)
Passes(r) == ~flag[r]

Test(r, h) ==
    /\ Queued(r, h) /\ handler[r][h] = "idle"
    /\ Threads = 1 => \A g \in Handlers : handler[r][g] # "passed"
    /\ handler' = [handler EXCEPT ![r][h] = IF Passes(r) THEN "passed" ELSE "over"]
    /\ UNCHANGED <<op, started, job, timer, flag, stored, elapsed, answers>>

Deliver(r, a) ==
    /\ flag' = [flag EXCEPT ![r] = TRUE]
    /\ answers' = Append(answers, [run |-> r, what |-> a])
Silent == UNCHANGED <<flag, answers>>

Spent(r) == timer' = [timer EXCEPT ![r] = "spent"]

(* timeout: the timer answers unless its wait was cancelled.               *)
TimeoutTimer(r) ==
    /\ IF timer[r] = "fired" THEN Deliver(r, "timed_out")
       ELSE flag' = [flag EXCEPT ![r] = TRUE] /\ UNCHANGED answers
    /\ Spent(r) /\ UNCHANGED <<job, stored, elapsed>>

(* timeout: the result cancels a wait that is not over and is delivered.   *)
TimeoutJob(r) ==
    /\ Deliver(r, job[r])
    /\ timer' = [timer EXCEPT ![r] = Cancelled(r)] /\ UNCHANGED <<job, stored, elapsed>>

(* delay: a timer error answers; otherwise whoever comes second delivers.  *)
DelayTimer(r) ==
    /\ elapsed' = [elapsed EXCEPT ![r] = (timer[r] = "fired")]
    /\ IF timer[r] = "aborted" THEN Deliver(r, "timer_error")
       ELSE IF stored[r] THEN Deliver(r, job[r]) ELSE Silent
    /\ Spent(r) /\ UNCHANGED <<job, stored>>

DelayJob(r) ==
    /\ stored' = [stored EXCEPT ![r] = TRUE]
    /\ IF elapsed[r] THEN Deliver(r, job[r]) ELSE Silent
    /\ UNCHANGED <<job, timer, elapsed>>

(* delay_for(...).then(io): the timer's handler runs the job.              *)
DelayForTimer(r) ==
    /\ IF timer[r] = "fired"
       THEN /\ job' = [job EXCEPT ![r] = "running"]
            /\ elapsed' = [elapsed EXCEPT ![r] = TRUE] /\ Silent
       ELSE Deliver(r, "timer_error") /\ UNCHANGED <<job, elapsed>>
    /\ Spent(r) /\ UNCHANGED stored

DelayForJob(r) == Deliver(r, job[r]) /\ UNCHANGED <<job, timer, stored, elapsed>>

Act(r, h) ==
    /\ handler[r][h] = "passed"
    /\ handler' = [handler EXCEPT ![r][h] = "over"]
    /\ \/ op = "timeout" /\ IF h = "timer" THEN TimeoutTimer(r) ELSE TimeoutJob(r)
       \/ op = "delay" /\ IF h = "timer" THEN DelayTimer(r) ELSE DelayJob(r)
       \/ op = "delay_for" /\ IF h = "timer" THEN DelayForTimer(r) ELSE DelayForJob(r)
    /\ UNCHANGED <<op, started>>

Next ==
    \/ Run
    \/ \E r \in Runs :
          \/ Expire(r) \/ JobEnds(r) \/ JobDrops(r)
          \/ \E h \in Handlers : Test(r, h) \/ Act(r, h)

(* Timers expire and queued handlers run.  Whether a job ends is up to it. *)
Progress == Run \/ \E r \in Runs : Expire(r) \/ \E h \in Handlers : Test(r, h) \/ Act(r, h)

Spec == Init /\ [][Next]_vars /\ WF_vars(Progress)

-----------------------------------------------------------------------------
(* The late result of a run that was timed out is nobody's answer: each    *)
(* run answers once, whichever of timer and result comes first, the        *)
(* answers come in the order of the runs, and nothing follows a success.   *)
LateResultIgnored ==
    \A i \in DOMAIN answers :
        answers[i].run = i /\ (answers[i].what = "ok" => i = Len(answers))

(* A delayed result is not delivered before its delay has passed and the   *)
(* job has ended.                                                          *)
NotEarly ==
    \A i \in DOMAIN answers :
        (op # "timeout" /\ answers[i].what \in {"ok", "err"})
            => elapsed[answers[i].run] /\ job[answers[i].run] = answers[i].what

(* timeout() answers even when the job hangs, unless the job destroys its  *)
(* callback; every combinator answers when the job does.                   *)
Answered ==
    \A r \in Runs :
        /\ (op = "timeout" /\ started >= r /\ [](job[r] # "dropped")) ~> (AnswersOf(r) # {})
        /\ (job[r] \in {"ok", "err"}) ~> (AnswersOf(r) # {})
=============================================================================
