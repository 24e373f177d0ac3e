-------------------------- MODULE Operators_proofs --------------------------
(***************************************************************************)
(* Proofs about the operators of one IO: the retry and poll loops, for     *)
(* every kind of loop and any max_attempts; a timed IO, for any number of  *)
(* runs; and a chain of any length.  The parts of MCOperators do not touch *)
(* each other, so what is proved of each holds of all (OperatorsSafe).     *)
(***************************************************************************)
EXTENDS MCOperators, Sequences, WellFoundedInduction, TLAPS

-----------------------------------------------------------------------------
(* Attempts: any number of threads and any faults of the timer.            *)

Loops == {"retry", "retry_void", "retry_legacy", "poll", "poll_ex",
          "poll_void", "poll_void_ex", "poll_state", "poll_legacy"}

(***************************************************************************)
(* LoopJustified is not inductive alone.  An answer from a running job or  *)
(* a wait needs that the job ran; a retry, which does not look at the      *)
(* limit before it runs, needs that it waits only below the limit.         *)
(***************************************************************************)
Counted ==
    /\ pc \in {"running", "waiting"} => attempt >= 1
    /\ kind \in Retrying /\ pc = "waiting" => attempt < max
    /\ kind \in Retrying /\ pc = "begin" => attempt = 0 \/ attempt < max

\* The answer leaves a timer's reference to nobody, and the closure's own one
\* only to the posted cleanup of poll and to the two paths without a cleanup.
Owners ==
    pc = "over" =>
        /\ "timer" \notin held
        /\ "cycle" \in held => \/ kind = "poll" /\ posted
                               \/ kind = "retry" /\ answer = "timer"
                               \/ kind = "retry_legacy"

\* While the loop goes on the closure owns itself, except in the legacy poll_if.
OwnsItself ==
    /\ posted => pc = "over"
    /\ pc \in {"begin", "running", "waiting"} /\ kind # "poll_legacy" => "cycle" \in held
    /\ pc = "lost" => kind = "poll_legacy"

LoopInv == TypeOK /\ LoopJustified /\ Counted /\ Owners /\ OwnsItself

\* What the continuation is given from a loop that goes on, for a justified answer.
LEMMA AnswerStep ==
    ASSUME LoopInv, NEW a \in Answers \ {"none"}, Answer(a),
           pc \in {"begin", "running", "waiting"},
           kind' = kind, max' = max, frames' \in Nat,
           attempt' \in Nat, AtMostMaxRuns',
           a \in {"soft", "exhausted"} => attempt' >= max,
           a \in {"ok", "soft", "hard", "timer", "thrown"} => attempt' >= 1
    PROVE  LoopInv'
<1>1. calls = 0
    BY DEF LoopInv, TypeOK, LoopJustified, AnswerJustified
<1>0. /\ threw' \in BOOLEAN
      /\ \/ calls' = 1
         \/ calls' = 2 /\ threw' = TRUE /\ kind = "poll_state"
    <2>1. PICK t \in BOOLEAN :
            /\ threw' = t
            /\ \/ calls' = calls + 1
               \/ t /\ kind = "poll_state" /\ pc = "running" /\ frames > 0 /\ calls' = calls + 2
        BY DEF Answer, CallBack
    <2>2. CASE calls' = calls + 1
        <3>1. calls' = 1
            BY <1>1, <2>2
        <3> QED
            BY <2>1, <3>1, Zenon
    <2>3. CASE t /\ kind = "poll_state" /\ calls' = calls + 2
        <3>1. calls' = 2
            BY <1>1, <2>3
        <3>2. t = TRUE
            BY <2>1, <2>3, Zenon
        <3> QED
            BY <2>1, <2>3, <3>1, <3>2, Zenon
    <2> QED
        BY <2>1, <2>2, <2>3, Zenon
<1>2. /\ answer' = a /\ pc' = "over"
      /\ held' = held \ (IF CycleKept(a) THEN {"timer"} ELSE {"cycle", "timer"})
      /\ posted' = (posted \/ kind = "poll")
    BY DEF Answer
<1>3. posted' \in BOOLEAN
    BY <1>2, Zenon DEF LoopInv, TypeOK
<1>4. TypeOK'
    BY <1>0, <1>2, <1>3 DEF LoopInv, TypeOK
<1>5. LoopJustified'
    BY <1>0, <1>2 DEF LoopJustified, AnswerJustified
<1>6. Counted'
    BY <1>2 DEF Counted
<1>7. Owners'
    BY <1>2, <1>3 DEF Owners, CycleKept
<1>8. OwnsItself'
    BY <1>2 DEF OwnsItself
<1> QED
    BY <1>4, <1>5, <1>6, <1>7, <1>8 DEF LoopInv

\* Starting a timer below the limit.
LEMMA WaitStep ==
    ASSUME LoopInv, Wait, pc = "running",
           UNCHANGED <<kind, max, attempt, frames>>,
           kind \in Retrying => attempt < max
    PROVE  LoopInv'
<1>1. /\ pc' = "waiting"
      /\ held \subseteq held' /\ held' \subseteq held \cup {"timer"}
      /\ posted' = posted /\ answer' = answer /\ calls' = calls /\ threw' = threw
    BY DEF Wait
<1>2. TypeOK'
    BY <1>1 DEF LoopInv, TypeOK
<1>3. LoopJustified'
    BY <1>1 DEF LoopInv, TypeOK, LoopJustified, AnswerJustified, AtMostMaxRuns
<1>4. Counted'
    BY <1>1 DEF LoopInv, Counted
<1>5. Owners' /\ OwnsItself'
    BY <1>1 DEF LoopInv, Owners, OwnsItself
<1> QED
    BY <1>2, <1>3, <1>4, <1>5 DEF LoopInv

LEMMA LoopStep == LoopInv /\ [Next]_vars => LoopInv'
<1> SUFFICES ASSUME LoopInv, [Next]_vars PROVE LoopInv'
    OBVIOUS
<1>1. /\ attempt \in Nat /\ max \in Int /\ frames \in Nat
      /\ posted \in BOOLEAN /\ kind \in Loops
    BY AttemptsAssumption DEF LoopInv, TypeOK, Loops
<1>2. CASE DoAttempt
    <2>1. pc = "begin" /\ UNCHANGED <<kind, max, frames>>
        BY <1>2 DEF DoAttempt
    <2>2. CASE kind \notin Retrying /\ attempt >= max
        <3>1. Answer("exhausted") /\ attempt' = attempt
            BY <1>2, <2>2 DEF DoAttempt
        <3>2. AtMostMaxRuns'
            BY <2>1, <3>1 DEF LoopInv, LoopJustified, AtMostMaxRuns
        <3> QED
            BY <1>1, <2>1, <2>2, <3>1, <3>2, AnswerStep DEF Answers
    <2>3. CASE ~(kind \notin Retrying /\ attempt >= max)
        <3>1. attempt' = attempt + 1
            BY <1>2, <2>3 DEF DoAttempt
        <3>2. AtMostMaxRuns'
            BY <1>1, <2>1, <2>3, <3>1 DEF LoopInv, LoopJustified, AtMostMaxRuns, Counted
        <3>3. CASE Answer("thrown")
            BY <1>1, <2>1, <3>1, <3>2, <3>3, AnswerStep DEF Answers
        <3>4. CASE pc' = "running" /\ UNCHANGED <<held, posted, answer, calls, threw>>
            <4>1. TypeOK'
                BY <2>1, <3>1, <3>4 DEF LoopInv, TypeOK
            <4>2. AnswerJustified'
                BY <2>1, <3>1, <3>4 DEF LoopInv, TypeOK, LoopJustified, AnswerJustified
            <4>3. Counted' /\ Owners' /\ OwnsItself'
                BY <1>1, <2>1, <3>1, <3>4 DEF LoopInv, Counted, Owners, OwnsItself
            <4> QED
                BY <3>2, <4>1, <4>2, <4>3 DEF LoopInv, LoopJustified
        <3> QED
            BY <1>2, <2>3, <3>3, <3>4 DEF DoAttempt
    <2> QED
        BY <2>2, <2>3
<1>3. CASE JobEnds
    <2>1. pc = "running" /\ UNCHANGED <<kind, max, attempt, frames>> /\ attempt >= 1
        BY <1>3 DEF JobEnds, LoopInv, Counted
    <2>2. AtMostMaxRuns'
        BY <2>1 DEF LoopInv, LoopJustified, AtMostMaxRuns
    <2>3. \/ Wait /\ (kind \in Retrying => attempt < max)
          \/ \E a \in {"ok", "soft", "hard", "thrown", "exhausted"} :
                Answer(a) /\ (a \in {"soft", "exhausted"} => attempt >= max)
        <3>1. PICK res \in {"ok", "unsatisfied", "soft", "hard"} :
                \/ HandleRetry(res) \/ HandleRetryVoid(res) \/ HandlePollState(res)
                \/ HandlePoll(res) \/ HandlePollEx(res) \/ HandlePollVoid(res) \/ HandlePollVoidEx(res)
                \/ HandleRetryLegacy(res) \/ HandlePollLegacy(res)
            BY <1>3 DEF JobEnds
        <3>2. CASE HandleRetry(res) \/ HandleRetryVoid(res) \/ HandleRetryLegacy(res)
            BY <1>1, <3>2 DEF HandleRetry, HandleRetryVoid, HandleRetryLegacy, RetryEnds
        <3>3. CASE HandlePollState(res)
            BY <1>1, <3>3 DEF HandlePollState, Retrying
        <3>4. CASE HandlePoll(res) \/ HandlePollEx(res) \/ HandlePollVoid(res) \/ HandlePollVoidEx(res)
                    \/ HandlePollLegacy(res)
            BY <1>1, <3>4 DEF HandlePoll, HandlePollEx, HandlePollVoid, HandlePollVoidEx,
                              HandlePollLegacy, PollEnds, Retrying
        <3> QED
            BY <3>1, <3>2, <3>3, <3>4
    <2>4. CASE Wait /\ (kind \in Retrying => attempt < max)
        BY <2>1, <2>4, WaitStep
    <2>5. ASSUME NEW a \in {"ok", "soft", "hard", "thrown", "exhausted"}, Answer(a),
                 a \in {"soft", "exhausted"} => attempt >= max
          PROVE  LoopInv'
        BY <1>1, <2>1, <2>2, <2>5, AnswerStep DEF Answers
    <2> QED
        BY <2>3, <2>4, <2>5
<1>4. CASE TimerFires
    <2>1. /\ pc = "waiting"
          /\ held' = held \ {"timer"}
          /\ UNCHANGED <<kind, max, attempt, posted, answer, calls, threw>>
        BY <1>4 DEF TimerFires
    <2>2. \/ pc' = "begin" /\ frames' = frames + 1
          \/ pc' = "lost" /\ frames' = frames /\ held = {}
        BY <1>4 DEF TimerFires, Alive
    <2>3. TypeOK'
        BY <1>1, <2>1, <2>2 DEF LoopInv, TypeOK
    <2>4. LoopJustified'
        BY <2>1, <2>2 DEF LoopInv, TypeOK, LoopJustified, AnswerJustified, AtMostMaxRuns
    <2>5. Counted'
        BY <2>1, <2>2 DEF LoopInv, Counted
    <2>6. Owners' /\ OwnsItself'
        BY <2>1, <2>2 DEF LoopInv, Owners, OwnsItself
    <2> QED
        BY <2>3, <2>4, <2>5, <2>6 DEF LoopInv
<1>5. CASE TimerFails
    <2>1. pc = "waiting" /\ Answer("timer") /\ UNCHANGED <<kind, max, attempt, frames>>
        BY <1>5 DEF TimerFails
    <2>2. AtMostMaxRuns' /\ attempt >= 1
        BY <2>1 DEF LoopInv, LoopJustified, AtMostMaxRuns, Counted
    <2> QED
        BY <1>1, <2>1, <2>2, AnswerStep DEF Answers
<1>6. CASE FrameReturns
    <2>1. /\ frames' \in Nat
          /\ UNCHANGED <<kind, max, attempt, pc, held, posted, answer, calls, threw>>
        BY <1>1, <1>6 DEF FrameReturns
    <2> QED
        BY <2>1 DEF LoopInv, TypeOK, LoopJustified, AtMostMaxRuns, AnswerJustified,
                    Counted, Owners, OwnsItself
<1>7. CASE RunCleanup \/ Shutdown
    <2>1. /\ posted' = FALSE
          /\ pc' = pc \/ pc' = "shut"
          /\ held' = held \ {"cycle"} \/ pc' = "shut"
          /\ held' \subseteq held
          /\ UNCHANGED <<kind, max, attempt, frames, answer, calls, threw>>
        BY <1>7 DEF RunCleanup, Shutdown
    <2>2. pc \in {"waiting", "over"} /\ (pc = "over" \/ pc' = "shut")
        BY <1>7 DEF RunCleanup, Shutdown, LoopInv, OwnsItself
    <2>3. TypeOK'
        <3>1. posted' \in BOOLEAN
            BY <2>1, Zenon
        <3> QED
            BY <2>1, <3>1 DEF LoopInv, TypeOK
    <2>4. LoopJustified'
        BY <2>1, <2>2 DEF LoopInv, TypeOK, LoopJustified, AnswerJustified, AtMostMaxRuns
    <2>5. Counted' /\ Owners' /\ OwnsItself'
        BY <2>1, <2>2 DEF LoopInv, Counted, Owners, OwnsItself
    <2> QED
        BY <2>3, <2>4, <2>5 DEF LoopInv
<1>8. CASE UNCHANGED vars
    BY <1>8 DEF vars, LoopInv, TypeOK, LoopJustified, AtMostMaxRuns, AnswerJustified,
                Counted, Owners, OwnsItself
<1> QED
    BY <1>2, <1>3, <1>4, <1>5, <1>6, <1>7, <1>8 DEF Next

LEMMA LoopStart == Init => LoopInv
<1> SUFFICES ASSUME Init PROVE LoopInv
    OBVIOUS
<1>1. posted \in BOOLEAN /\ threw \in BOOLEAN
    BY Zenon DEF Init
<1>2. max \in Int
    BY AttemptsAssumption DEF Init
<1> QED
    BY <1>1, <1>2 DEF Init, InitialOwners, LoopInv, TypeOK, Answers, LoopJustified,
        AtMostMaxRuns, AnswerJustified, Counted, Owners, OwnsItself

LEMMA LoopInductive == Spec => []LoopInv
BY LoopStart, LoopStep, PTL DEF Spec

\* The variables of every loop keep their types.
THEOREM LoopTypes == Spec => []TypeOK
BY LoopInductive, PTL DEF LoopInv

\* For every max_attempts, zero and negative ones too: no loop runs its job more
\* often than allowed, and its first answer is one its runs account for.  No loop
\* answers twice but poll_with_state, and only a continuation that threw.
THEOREM LoopsJustified == Spec => []LoopJustified
BY LoopInductive, PTL DEF LoopInv

LEMMA LoopReleases == LoopInv => Released
<1> SUFFICES ASSUME LoopInv, pc = "over", frames = 0, ~posted,
                    ~(kind = "retry" /\ answer = "timer"), kind # "retry_legacy"
             PROVE  ~Alive
    BY DEF Released
<1>1. "timer" \notin held /\ "cycle" \notin held
    BY DEF LoopInv, Owners
<1>2. held = {}
    BY <1>1 DEF LoopInv, TypeOK
<1> QED
    BY <1>2 DEF Alive

\* Once a loop has answered and its handlers have run, nothing owns the closure.
THEOREM ClosuresReleased == Spec => []Released
BY LoopReleases, LoopInductive, PTL

\* A timer handler that finds its closure gone is one of the legacy poll_if: the
\* closure of every other loop outlives each of its waits.
THEOREM ClosureOutlivesWait == Spec => [](pc = "lost" => kind = "poll_legacy")
BY LoopInductive, PTL DEF LoopInv, OwnsItself

\* On an io_context with one thread, the cleanup that poll_if posts never empties
\* the function object while a call of it is executing.
THEOREM CleanupAfterCalls == OneThread = TRUE => (Spec => NotDestroyedInUse)
<1> SUFFICES ASSUME OneThread = TRUE PROVE Spec => NotDestroyedInUse
    OBVIOUS
<1>1. [Next]_vars => [(posted /\ ~posted') => frames = 0]_vars
    <2> SUFFICES ASSUME Next, posted, ~posted' PROVE frames = 0
        OBVIOUS
    <2>1. CASE RunCleanup
        BY <2>1 DEF RunCleanup, IoFree
    <2>2. CASE Shutdown
        BY <2>2 DEF Shutdown
    <2>3. CASE TimerFires \/ FrameReturns
        BY <2>3 DEF TimerFires, FrameReturns
    <2>4. ASSUME NEW a, Answer(a) PROVE FALSE
        BY <2>4 DEF Answer
    <2>5. ~Wait
        BY DEF Wait
    <2>6. CASE DoAttempt \/ TimerFails
        BY <2>4, <2>6 DEF DoAttempt, TimerFails
    <2>7. CASE JobEnds
        BY <2>4, <2>5, <2>7 DEF JobEnds, HandleRetry, HandleRetryVoid, HandlePollState, HandlePoll,
            HandlePollEx, HandlePollVoid, HandlePollVoidEx, HandleRetryLegacy, HandlePollLegacy
    <2> QED
        BY <2>1, <2>2, <2>3, <2>6, <2>7 DEF Next
<1> QED
    BY <1>1, PTL DEF Spec, NotDestroyedInUse

-----------------------------------------------------------------------------
(* TimedIO: one thread, any number of runs.                                *)

Results == {"ok", "err", "timed_out", "timer_error"}
RunAnswers == [run : T!Runs, what : Results]

TimedTypes ==
    /\ op \in {"timeout", "delay", "delay_for"}
    /\ started \in 0 .. MaxRuns
    /\ job \in [T!Runs -> {"unstarted", "running", "ok", "err", "dropped"}]
    /\ timer \in [T!Runs -> {"off", "armed", "fired", "aborted", "spent"}]
    /\ handler \in [T!Runs -> [T!Handlers -> {"idle", "passed", "over"}]]
    /\ flag \in [T!Runs -> BOOLEAN]
    /\ stored \in [T!Runs -> BOOLEAN]
    /\ elapsed \in [T!Runs -> BOOLEAN]
    /\ answers \in Seq(RunAnswers)

\* Every run before the last one has answered, each once and in order, and only
\* the last one may have answered with a success.
InOrder ==
    /\ started - 1 <= Len(answers) /\ Len(answers) <= started
    /\ \A i \in DOMAIN answers : answers[i].run = i /\ (answers[i].what = "ok" => i = started)

\* The flag of a run is raised when it answers, and is down while one of its
\* handlers, having passed the test, is about to act.
FlagRaised == \A i \in DOMAIN answers : flag[i]
PassedAlone ==
    \A n \in T!Runs : \A h \in T!Handlers : handler[n][h] = "passed" =>
        /\ ~flag[n] /\ n <= started
        /\ \A g \in T!Handlers : handler[n][g] = "passed" => g = h

\* A run that was not started has no timer and no job.
Unstarted == \A n \in T!Runs : n > started => job[n] = "unstarted" /\ timer[n] = "off"

\* A handler acts on a wait that is over, or on a result that is there.
HandlerReady ==
    \A n \in T!Runs :
        /\ handler[n]["timer"] = "passed" => timer[n] \in {"fired", "aborted"}
        /\ handler[n]["job"] = "passed" => job[n] \in {"ok", "err"}
        /\ stored[n] => op = "delay" /\ job[n] \in {"ok", "err"}

\* delay_for starts its job in the handler of its timer.
JobAfterTimer ==
    op = "delay_for" => \A n \in T!Runs :
        /\ job[n] # "unstarted" => elapsed[n]
        /\ handler[n]["timer"] # "over" => job[n] = "unstarted"

TimedInv ==
    /\ TimedTypes /\ InOrder /\ FlagRaised /\ PassedAlone /\ Unstarted /\ HandlerReady
    /\ JobAfterTimer /\ T!NotEarly

-----------------------------------------------------------------------------
LEMMA AnsweredRuns ==
    ASSUME TimedInv
    PROVE  \A i \in DOMAIN answers : i \in T!Runs
<1> SUFFICES ASSUME NEW i \in DOMAIN answers PROVE i \in T!Runs
    OBVIOUS
<1>1. answers \in Seq(RunAnswers)
    BY DEF TimedInv, TimedTypes
<1>2. answers[i] \in RunAnswers
    BY <1>1
<1>3. answers[i].run \in T!Runs
    BY <1>2 DEF RunAnswers
<1>4. answers[i].run = i
    BY DEF TimedInv, InOrder
<1> QED
    BY <1>3, <1>4

\* A handler that passed the test and answers is of the last run, which has not
\* answered yet.
LEMMA DeliverStep ==
    ASSUME TimedInv, NEW n \in T!Runs, NEW h \in T!Handlers,
           handler[n][h] = "passed", started' = started,
           NEW a \in Results, T!Deliver(n, a)
    PROVE  /\ flag' \in [T!Runs -> BOOLEAN] /\ flag'[n]
           /\ \A m \in T!Runs \ {n} : flag'[m] = flag[m]
           /\ answers' \in Seq(RunAnswers)
           /\ \A i \in DOMAIN answers' :
                \/ i \in DOMAIN answers /\ answers'[i] = answers[i] /\ i # n
                \/ i = n /\ answers'[i] = [run |-> n, what |-> a]
           /\ InOrder' /\ FlagRaised'
<1> USE OperatorsAssumption
<1>1. /\ n \in Nat \ {0} /\ started \in Nat
      /\ answers \in Seq(RunAnswers)
      /\ flag \in [T!Runs -> BOOLEAN]
    BY DEF TimedInv, TimedTypes, T!Runs
<1>2. n <= started /\ ~flag[n]
    BY DEF TimedInv, PassedAlone
<1>3. n \notin DOMAIN answers
    BY <1>2 DEF TimedInv, FlagRaised
<1>4. Len(answers) = started - 1 /\ n = started
    <2>1. ~(n <= Len(answers)) /\ Len(answers) \in Nat
        BY <1>1, <1>3
    <2>2. started - 1 <= Len(answers) /\ Len(answers) <= started
        BY DEF TimedInv, InOrder
    <2> QED
        BY <1>1, <1>2, <2>1, <2>2
<1>5. flag' = [flag EXCEPT ![n] = TRUE] /\ answers' = Append(answers, [run |-> n, what |-> a])
    BY DEF T!Deliver
<1>6. /\ answers' \in Seq(RunAnswers)
      /\ Len(answers') = Len(answers) + 1
      /\ \A i \in DOMAIN answers' :
                \/ i \in DOMAIN answers /\ answers'[i] = answers[i] /\ i # n
                \/ i = n /\ answers'[i] = [run |-> n, what |-> a]
    <2> DEFINE new == [run |-> n, what |-> a]
    <2>1. new \in RunAnswers
        BY DEF RunAnswers
    <2> HIDE DEF new
    <2>2. answers' = Append(answers, new)
        BY <1>5 DEF new
    <2>3. /\ answers' \in Seq(RunAnswers)
          /\ Len(answers') = Len(answers) + 1
          /\ \A i \in DOMAIN answers' : \/ i \in DOMAIN answers /\ answers'[i] = answers[i]
                                        \/ i = Len(answers) + 1 /\ answers'[i] = new
        BY <1>1, <2>1, <2>2
    <2>4. n = Len(answers) + 1
        BY <1>1, <1>4
    <2> QED
        BY <1>3, <2>3, <2>4 DEF new
<1>7. /\ flag' \in [T!Runs -> BOOLEAN] /\ flag'[n]
      /\ \A m \in T!Runs \ {n} : flag'[m] = flag[m]
    BY <1>1, <1>5
<1>8. InOrder'
    BY <1>1, <1>4, <1>6 DEF TimedInv, InOrder
<1>9. FlagRaised'
    <2> SUFFICES ASSUME NEW i \in DOMAIN answers' PROVE flag'[i]
        BY DEF FlagRaised
    <2>1. CASE i = n
        BY <1>7, <2>1
    <2>2. CASE i # n
        <3>1. i \in DOMAIN answers /\ i \in T!Runs
            BY <1>6, <2>2, AnsweredRuns
        <3>2. flag[i]
            BY <3>1 DEF TimedInv, FlagRaised
        <3> QED
            BY <1>7, <2>2, <3>1, <3>2
    <2> QED
        BY <2>1, <2>2
<1> QED
    BY <1>6, <1>7, <1>8, <1>9

\* A handler that acts: what every combinator does with a run leaves the others
\* alone, and each kind of handler has its own effect.
LEMMA ActStep ==
    ASSUME TimedInv, NEW n \in T!Runs, NEW h \in T!Handlers, T!Act(n, h)
    PROVE  TimedInv'
<1> USE OperatorsAssumption
<1>1. /\ handler[n][h] = "passed"
      /\ handler' = [handler EXCEPT ![n][h] = "over"]
      /\ UNCHANGED <<op, started>>
    BY DEF T!Act
<1>2. TimedTypes
    BY DEF TimedInv
<1>3. /\ handler' \in [T!Runs -> [T!Handlers -> {"idle", "passed", "over"}]]
      /\ \A m \in T!Runs, g \in T!Handlers :
            handler'[m][g] = IF m = n /\ g = h THEN "over" ELSE handler[m][g]
    BY <1>1, <1>2 DEF TimedTypes, T!Handlers
<1>4. /\ ~flag[n] /\ n <= started
      /\ \A g \in T!Handlers : g # h => handler[n][g] # "passed"
    BY <1>1 DEF TimedInv, PassedAlone
<1>5. n \notin DOMAIN answers
    BY <1>4 DEF TimedInv, FlagRaised
\* What holds after any step that touches run n only.
<1>6. ASSUME NEW e \in {"none"} \cup Results,
             IF e = "none" THEN answers' = answers /\ (flag' = flag \/ flag' = [flag EXCEPT ![n] = TRUE])
                           ELSE T!Deliver(n, e)
      PROVE  /\ flag' \in [T!Runs -> BOOLEAN]
             /\ answers' \in Seq(RunAnswers)
             /\ InOrder' /\ FlagRaised' /\ PassedAlone'
             /\ \A i \in DOMAIN answers' :
                    \/ i \in DOMAIN answers /\ answers'[i] = answers[i] /\ i # n
                    \/ i = n /\ answers'[i] = [run |-> n, what |-> e] /\ e # "none"
    <2>1. CASE e = "none"
        <3>1. answers' = answers /\ (flag' = flag \/ flag' = [flag EXCEPT ![n] = TRUE])
            BY <1>6, <2>1
        <3>2. \A m \in T!Runs : m # n => flag'[m] = flag[m]
            BY <1>2, <3>1 DEF TimedTypes
        <3>3. flag' \in [T!Runs -> BOOLEAN]
            BY <1>2, <3>1 DEF TimedTypes
        <3>4. InOrder'
            BY <1>1, <3>1 DEF TimedInv, InOrder
        <3>5. FlagRaised'
            BY <1>5, <3>1, <3>2, AnsweredRuns DEF TimedInv, FlagRaised
        <3>6. PassedAlone'
            BY <1>1, <1>3, <1>4, <3>2 DEF TimedInv, PassedAlone
        <3> QED
            BY <1>2, <1>5, <3>1, <3>3, <3>4, <3>5, <3>6 DEF TimedTypes
    <2>2. CASE e # "none"
        <3>1. T!Deliver(n, e) /\ e \in Results
            BY <1>6, <2>2
        <3>2. /\ flag' \in [T!Runs -> BOOLEAN]
              /\ \A m \in T!Runs \ {n} : flag'[m] = flag[m]
              /\ answers' \in Seq(RunAnswers)
              /\ \A i \in DOMAIN answers' :
                    \/ i \in DOMAIN answers /\ answers'[i] = answers[i] /\ i # n
                    \/ i = n /\ answers'[i] = [run |-> n, what |-> e]
              /\ InOrder' /\ FlagRaised'
            BY <1>1, <3>1, DeliverStep
        <3>3. PassedAlone'
            BY <1>1, <1>3, <1>4, <3>2 DEF TimedInv, PassedAlone
        <3> QED
            BY <2>2, <3>2, <3>3
    <2> QED
        BY <2>1, <2>2
<1>7. /\ job \in [T!Runs -> {"unstarted", "running", "ok", "err", "dropped"}]
      /\ timer \in [T!Runs -> {"off", "armed", "fired", "aborted", "spent"}]
      /\ stored \in [T!Runs -> BOOLEAN]
      /\ elapsed \in [T!Runs -> BOOLEAN]
      /\ n \in Int /\ started \in Int
    BY <1>2 DEF TimedTypes, T!Runs
<1>8. /\ h = "timer" => timer[n] \in {"fired", "aborted"}
      /\ h = "job" => job[n] \in {"ok", "err"}
      /\ stored[n] => op = "delay" /\ job[n] \in {"ok", "err"}
    BY <1>1 DEF TimedInv, HandlerReady
<1>9. CASE op = "timeout" /\ h = "timer"
    <2>1. /\ timer' = [timer EXCEPT ![n] = "spent"]
          /\ UNCHANGED <<job, stored, elapsed>>
          /\ IF timer[n] = "fired" THEN T!Deliver(n, "timed_out")
             ELSE flag' = [flag EXCEPT ![n] = TRUE] /\ UNCHANGED answers
        BY <1>9 DEF T!Act, T!TimeoutTimer, T!Spent
    <2>2. /\ flag' \in [T!Runs -> BOOLEAN] /\ answers' \in Seq(RunAnswers)
          /\ InOrder' /\ FlagRaised' /\ PassedAlone'
        BY <1>6, <2>1 DEF Results
    <2>3. TimedTypes'
        BY <1>1, <1>2, <1>3, <1>7, <2>1, <2>2 DEF TimedTypes
    <2>4. Unstarted'
        BY <1>1, <1>4, <1>7, <2>1 DEF TimedInv, Unstarted
    <2>5. HandlerReady'
        BY <1>1, <1>3, <1>7, <1>9, <2>1 DEF TimedInv, HandlerReady, T!Handlers
    <2>6. JobAfterTimer' /\ T!NotEarly'
        BY <1>1, <1>9 DEF JobAfterTimer, T!NotEarly
    <2> QED
        BY <2>2, <2>3, <2>4, <2>5, <2>6 DEF TimedInv
<1>10. CASE op = "timeout" /\ h = "job"
    <2>1. /\ T!Deliver(n, job[n])
          /\ timer' = [timer EXCEPT ![n] = T!Cancelled(n)]
          /\ UNCHANGED <<job, stored, elapsed>>
        BY <1>10 DEF T!Act, T!TimeoutJob
    <2>2. /\ flag' \in [T!Runs -> BOOLEAN] /\ answers' \in Seq(RunAnswers)
          /\ InOrder' /\ FlagRaised' /\ PassedAlone'
        BY <1>6, <1>8, <1>10, <2>1 DEF Results
    <2>3. T!Cancelled(n) \in {"aborted", timer[n]}
        BY DEF T!Cancelled
    <2>4. TimedTypes'
        BY <1>1, <1>2, <1>3, <1>7, <2>1, <2>2, <2>3 DEF TimedTypes
    <2>5. Unstarted'
        BY <1>1, <1>4, <1>7, <2>1 DEF TimedInv, Unstarted
    <2>6. HandlerReady'
        BY <1>1, <1>3, <1>7, <1>10, <2>1, <2>3 DEF TimedInv, HandlerReady, T!Handlers
    <2>7. JobAfterTimer' /\ T!NotEarly'
        BY <1>1, <1>10 DEF JobAfterTimer, T!NotEarly
    <2> QED
        BY <2>2, <2>4, <2>5, <2>6, <2>7 DEF TimedInv
\* An answer of delay or delay_for is not early.
<1>11. ASSUME NEW e \in {"none"} \cup Results, InOrder',
              \A i \in DOMAIN answers' :
                    \/ i \in DOMAIN answers /\ answers'[i] = answers[i] /\ i # n
                    \/ i = n /\ answers'[i] = [run |-> n, what |-> e] /\ e # "none",
              \A m \in T!Runs : m # n => job'[m] = job[m] /\ elapsed'[m] = elapsed[m],
              e \in {"ok", "err"} => elapsed'[n] /\ job'[n] = e
       PROVE  T!NotEarly'
    <2> SUFFICES ASSUME NEW i \in DOMAIN answers', op # "timeout", answers'[i].what \in {"ok", "err"}
                 PROVE  elapsed'[i] /\ job'[i] = answers'[i].what
        BY <1>1, <1>11 DEF T!NotEarly, InOrder
    <2>1. CASE i = n
        <3>1. answers'[i].what = e
            BY <1>11, <2>1
        <3> QED
            BY <1>11, <2>1, <3>1
    <2>2. CASE i # n
        <3>1. i \in DOMAIN answers /\ answers'[i] = answers[i] /\ i \in T!Runs
            BY <1>11, <2>2, AnsweredRuns
        <3>2. answers[i].run = i
            BY <3>1 DEF TimedInv, InOrder
        <3>3. elapsed[i] /\ job[i] = answers[i].what
            BY <3>1, <3>2 DEF TimedInv, T!NotEarly
        <3> QED
            BY <1>11, <2>2, <3>1, <3>3
    <2> QED
        BY <2>1, <2>2
<1>12. CASE op = "delay" /\ h = "timer"
    <2>1. /\ elapsed' = [elapsed EXCEPT ![n] = (timer[n] = "fired")]
          /\ timer' = [timer EXCEPT ![n] = "spent"]
          /\ UNCHANGED <<job, stored>>
        BY <1>12 DEF T!Act, T!DelayTimer, T!Spent
    <2>2. PICK e \in {"none"} \cup Results :
            /\ IF e = "none" THEN answers' = answers /\ flag' = flag ELSE T!Deliver(n, e)
            /\ e \in {"ok", "err"} => e = job[n] /\ timer[n] = "fired"
        BY <1>8, <1>12 DEF T!Act, T!DelayTimer, T!Silent, Results
    <2>3. /\ flag' \in [T!Runs -> BOOLEAN] /\ answers' \in Seq(RunAnswers)
          /\ InOrder' /\ FlagRaised' /\ PassedAlone'
          /\ \A i \in DOMAIN answers' :
                    \/ i \in DOMAIN answers /\ answers'[i] = answers[i] /\ i # n
                    \/ i = n /\ answers'[i] = [run |-> n, what |-> e] /\ e # "none"
        BY <1>6, <2>2
    <2>4. TimedTypes'
        <3>1. (timer[n] = "fired") \in BOOLEAN
            OBVIOUS
        <3>2. elapsed' \in [T!Runs -> BOOLEAN]
            BY <1>7, <2>1, <3>1
        <3> QED
            BY <1>1, <1>2, <1>3, <1>7, <2>1, <2>3, <3>2 DEF TimedTypes
    <2>5. Unstarted'
        BY <1>1, <1>4, <1>7, <2>1 DEF TimedInv, Unstarted
    <2>6. HandlerReady'
        BY <1>1, <1>3, <1>7, <1>12, <2>1 DEF TimedInv, HandlerReady, T!Handlers
    <2>7. JobAfterTimer'
        BY <1>1, <1>12 DEF JobAfterTimer
    <2>8. T!NotEarly'
        BY <1>7, <1>11, <2>1, <2>2, <2>3
    <2> QED
        BY <2>3, <2>4, <2>5, <2>6, <2>7, <2>8 DEF TimedInv
<1>13. CASE op = "delay" /\ h = "job"
    <2>1. /\ stored' = [stored EXCEPT ![n] = TRUE]
          /\ UNCHANGED <<job, timer, elapsed>>
        BY <1>13 DEF T!Act, T!DelayJob
    <2>2. PICK e \in {"none"} \cup Results :
            /\ IF e = "none" THEN answers' = answers /\ flag' = flag ELSE T!Deliver(n, e)
            /\ e \in {"ok", "err"} => e = job[n] /\ elapsed[n]
        BY <1>8, <1>13 DEF T!Act, T!DelayJob, T!Silent, Results
    <2>3. /\ flag' \in [T!Runs -> BOOLEAN] /\ answers' \in Seq(RunAnswers)
          /\ InOrder' /\ FlagRaised' /\ PassedAlone'
          /\ \A i \in DOMAIN answers' :
                    \/ i \in DOMAIN answers /\ answers'[i] = answers[i] /\ i # n
                    \/ i = n /\ answers'[i] = [run |-> n, what |-> e] /\ e # "none"
        BY <1>6, <2>2
    <2>4. TimedTypes'
        BY <1>1, <1>2, <1>3, <1>7, <2>1, <2>3 DEF TimedTypes
    <2>5. Unstarted'
        BY <1>1, <1>4, <1>7, <2>1 DEF TimedInv, Unstarted
    <2>6. HandlerReady'
        BY <1>1, <1>3, <1>7, <1>8, <1>13, <2>1 DEF TimedInv, HandlerReady, T!Handlers
    <2>7. JobAfterTimer'
        BY <1>1, <1>13 DEF JobAfterTimer
    <2>8. T!NotEarly'
        BY <1>7, <1>11, <2>1, <2>2, <2>3
    <2> QED
        BY <2>3, <2>4, <2>5, <2>6, <2>7, <2>8 DEF TimedInv
<1>14. CASE op = "delay_for" /\ h = "timer"
    <2>1. /\ \/ /\ timer[n] = "fired"
                /\ job' = [job EXCEPT ![n] = "running"] /\ elapsed' = [elapsed EXCEPT ![n] = TRUE]
                /\ answers' = answers /\ flag' = flag
             \/ T!Deliver(n, "timer_error") /\ UNCHANGED <<job, elapsed>>
          /\ timer' = [timer EXCEPT ![n] = "spent"]
          /\ UNCHANGED stored
        BY <1>14 DEF T!Act, T!DelayForTimer, T!Spent, T!Silent
    <2>2. PICK e \in {"none", "timer_error"} :
            IF e = "none" THEN answers' = answers /\ flag' = flag ELSE T!Deliver(n, e)
        BY <2>1
    <2>3. /\ flag' \in [T!Runs -> BOOLEAN] /\ answers' \in Seq(RunAnswers)
          /\ InOrder' /\ FlagRaised' /\ PassedAlone'
          /\ \A i \in DOMAIN answers' :
                    \/ i \in DOMAIN answers /\ answers'[i] = answers[i] /\ i # n
                    \/ i = n /\ answers'[i] = [run |-> n, what |-> e] /\ e # "none"
        BY <1>6, <2>2 DEF Results
    <2>4. TimedTypes'
        BY <1>1, <1>2, <1>3, <1>7, <2>1, <2>3 DEF TimedTypes
    <2>5. Unstarted'
        BY <1>1, <1>4, <1>7, <2>1 DEF TimedInv, Unstarted
    <2>6. handler[n]["job"] # "passed" /\ ~stored[n]
        BY <1>4, <1>8, <1>14 DEF T!Handlers
    <2>7. HandlerReady'
        BY <1>1, <1>3, <1>7, <1>14, <2>1, <2>6 DEF TimedInv, HandlerReady, T!Handlers
    <2>8. JobAfterTimer'
        BY <1>1, <1>3, <1>7, <1>14, <2>1 DEF TimedInv, JobAfterTimer, T!Handlers
    <2>9. T!NotEarly'
        BY <1>7, <1>11, <2>1, <2>2, <2>3 DEF Results
    <2> QED
        BY <2>3, <2>4, <2>5, <2>7, <2>8, <2>9 DEF TimedInv
<1>15. CASE op = "delay_for" /\ h = "job"
    <2>1. T!Deliver(n, job[n]) /\ UNCHANGED <<job, timer, stored, elapsed>>
        BY <1>15 DEF T!Act, T!DelayForJob
    <2>2. PICK e \in Results : e = job[n]
        BY <1>8, <1>15 DEF Results
    <2>3. /\ flag' \in [T!Runs -> BOOLEAN] /\ answers' \in Seq(RunAnswers)
          /\ InOrder' /\ FlagRaised' /\ PassedAlone'
          /\ \A i \in DOMAIN answers' :
                    \/ i \in DOMAIN answers /\ answers'[i] = answers[i] /\ i # n
                    \/ i = n /\ answers'[i] = [run |-> n, what |-> e] /\ e # "none"
        BY <1>6, <2>1, <2>2 DEF Results
    <2>4. TimedTypes'
        BY <1>1, <1>2, <1>3, <1>7, <2>1, <2>3 DEF TimedTypes
    <2>5. Unstarted'
        BY <1>1, <1>4, <1>7, <2>1 DEF TimedInv, Unstarted
    <2>6. HandlerReady'
        BY <1>1, <1>3, <1>7, <1>15, <2>1 DEF TimedInv, HandlerReady, T!Handlers
    <2>7. JobAfterTimer' /\ elapsed[n]
        BY <1>1, <1>3, <1>7, <1>8, <1>15, <2>1 DEF TimedInv, JobAfterTimer, T!Handlers
    <2>8. T!NotEarly'
        BY <1>7, <1>11, <2>1, <2>2, <2>3, <2>7 DEF Results
    <2> QED
        BY <2>3, <2>4, <2>5, <2>6, <2>7, <2>8 DEF TimedInv
<1> QED
    BY <1>2, <1>9, <1>10, <1>12, <1>13, <1>14, <1>15 DEF TimedTypes, T!Handlers

\* A retry starts the next run only after the last one has answered with an error.
LEMMA RunStep ==
    ASSUME TimedInv, T!Run
    PROVE  TimedInv'
<1> USE OperatorsAssumption
<1> DEFINE n == started + 1
<1>1. /\ started < MaxRuns /\ started' = started + 1
      /\ job' = [job EXCEPT ![n] = IF op = "delay_for" THEN "unstarted" ELSE "running"]
      /\ timer' = [timer EXCEPT ![n] = "armed"]
      /\ UNCHANGED <<op, handler, flag, stored, elapsed, answers>>
    BY DEF T!Run, T!Begin
<1>2. TimedTypes
    BY DEF TimedInv
<1>3. started \in Nat /\ n \in T!Runs
    BY <1>1, <1>2 DEF TimedTypes, T!Runs
<1>4. job[n] = "unstarted" /\ timer[n] = "off"
    BY <1>3 DEF TimedInv, Unstarted
<1>5. Len(answers) = started /\ \A i \in DOMAIN answers : answers[i].what # "ok"
    <2>1. answers \in Seq(RunAnswers) /\ Len(answers) \in Nat /\ DOMAIN answers = 1 .. Len(answers)
        BY <1>2 DEF TimedTypes
    <2>2. started - 1 <= Len(answers) /\ Len(answers) <= started
        BY DEF TimedInv, InOrder
    <2>3. CASE started = 0
        BY <2>1, <2>2, <2>3
    <2>4. CASE started > 0
        <3>1. PICK i \in DOMAIN answers : answers[i].run = started /\ answers[i].what # "ok"
            BY <2>4 DEF T!Run, T!AnswersOf
        <3>2. i = started
            BY <3>1 DEF TimedInv, InOrder
        <3>3. \A j \in DOMAIN answers : answers[j].what = "ok" => j = Len(answers)
            BY DEF TimedInv, InOrder
        <3>4. i <= Len(answers)
            BY <2>1
        <3>5. Len(answers) = started
            <4>1. started <= Len(answers)
                BY <3>2, <3>4
            <4>2. Len(answers) \in Nat
                BY <2>1
            <4> QED
                BY <1>3, <2>2, <4>1, <4>2
        <3>6. i = Len(answers)
            BY <3>2, <3>5
        <3>7. answers[i].what # "ok"
            BY <3>1
        <3>8. \A j \in DOMAIN answers : answers[j].what # "ok"
            BY <3>3, <3>6, <3>7, Zenon
        <3> QED
            BY <3>5, <3>8
    <2> QED
        BY <1>3, <2>3, <2>4
<1> HIDE DEF n
<1>6. TimedTypes'
    <2>1. started' \in 0 .. MaxRuns
        BY <1>1, <1>3 DEF n
    <2> QED
        BY <1>1, <1>2, <1>3, <2>1 DEF TimedTypes
<1>7. InOrder' /\ FlagRaised'
    <2>1. FlagRaised'
        BY <1>1 DEF TimedInv, FlagRaised
    <2>2. InOrder'
        BY <1>1, <1>3, <1>5 DEF TimedInv, InOrder
    <2> QED
        BY <2>1, <2>2
<1>8. PassedAlone'
    BY <1>1, <1>3 DEF TimedInv, PassedAlone, T!Runs
<1>9. Unstarted'
    BY <1>1, <1>2, <1>3 DEF TimedInv, Unstarted, TimedTypes, T!Runs, n
<1>10. HandlerReady'
    BY <1>1, <1>2, <1>3, <1>4 DEF TimedInv, HandlerReady, TimedTypes
<1>11. JobAfterTimer'
    BY <1>1, <1>2, <1>3 DEF TimedInv, JobAfterTimer, TimedTypes
<1>12. T!NotEarly'
    <2> SUFFICES ASSUME NEW i \in DOMAIN answers, op # "timeout", answers[i].what \in {"ok", "err"}
                 PROVE  elapsed[answers[i].run] /\ job'[answers[i].run] = answers[i].what
        BY <1>1 DEF T!NotEarly
    <2>1. elapsed[answers[i].run] /\ job[answers[i].run] = answers[i].what
        BY DEF TimedInv, T!NotEarly
    <2>2. answers[i].run # n
        BY <1>4, <2>1
    <2>3. answers[i].run = i /\ i \in T!Runs
        BY AnsweredRuns DEF TimedInv, InOrder
    <2> QED
        BY <1>1, <1>2, <2>1, <2>2, <2>3 DEF TimedTypes
<1> QED
    BY <1>6, <1>7, <1>8, <1>9, <1>10, <1>11, <1>12 DEF TimedInv

\* Timers expire and jobs end without an answer of their own.
LEMMA EventStep ==
    ASSUME TimedInv, NEW n \in T!Runs, T!Expire(n) \/ T!JobEnds(n) \/ T!JobDrops(n)
    PROVE  TimedInv'
<1> USE OperatorsAssumption
<1>1. UNCHANGED <<op, started, handler, flag, stored, elapsed, answers>>
    BY DEF T!Expire, T!JobEnds, T!JobDrops
<1>2. TimedTypes
    BY DEF TimedInv
<1>3. /\ \A m \in T!Runs : m # n => job'[m] = job[m] /\ timer'[m] = timer[m]
      /\ job'[n] = job[n] \/ (job[n] = "running" /\ job'[n] \in {"ok", "err", "dropped"})
      /\ timer'[n] = timer[n] \/ (timer[n] = "armed" /\ timer'[n] \in {"fired", "aborted"})
      /\ job' \in [T!Runs -> {"unstarted", "running", "ok", "err", "dropped"}]
      /\ timer' \in [T!Runs -> {"off", "armed", "fired", "aborted", "spent"}]
    BY <1>2 DEF T!Expire, T!JobEnds, T!JobDrops, T!Cancelled, TimedTypes
<1>4. TimedTypes'
    BY <1>1, <1>2, <1>3 DEF TimedTypes
<1>5. InOrder' /\ FlagRaised' /\ PassedAlone'
    BY <1>1 DEF TimedInv, InOrder, FlagRaised, PassedAlone
<1>6. Unstarted'
    BY <1>1, <1>3 DEF TimedInv, Unstarted
<1>7. HandlerReady'
    BY <1>1, <1>3 DEF TimedInv, HandlerReady
<1>8. JobAfterTimer'
    BY <1>1, <1>3 DEF TimedInv, JobAfterTimer
<1>9. T!NotEarly'
    <2> SUFFICES ASSUME NEW i \in DOMAIN answers, op # "timeout", answers[i].what \in {"ok", "err"}
                 PROVE  elapsed[answers[i].run] /\ job'[answers[i].run] = answers[i].what
        BY <1>1 DEF T!NotEarly
    <2>1. elapsed[answers[i].run] /\ job[answers[i].run] = answers[i].what
        BY DEF TimedInv, T!NotEarly
    <2>2. answers[i].run = i /\ i \in T!Runs
        BY AnsweredRuns DEF TimedInv, InOrder
    <2> QED
        BY <1>3, <2>1, <2>2
<1> QED
    BY <1>4, <1>5, <1>6, <1>7, <1>8, <1>9 DEF TimedInv

\* The test of the flag: on one thread no other handler of the run is between
\* its test and its action.
LEMMA TestStep ==
    ASSUME TimedInv, NEW n \in T!Runs, NEW h \in T!Handlers, T!Test(n, h)
    PROVE  TimedInv'
<1> USE OperatorsAssumption
<1>1. /\ T!Queued(n, h)
      /\ handler[n][h] = "idle"
      /\ \A g \in T!Handlers : handler[n][g] # "passed"
      /\ handler' = [handler EXCEPT ![n][h] = IF ~flag[n] THEN "passed" ELSE "over"]
      /\ UNCHANGED <<op, started, job, timer, flag, stored, elapsed, answers>>
    BY DEF T!Test, T!Passes
<1>2. TimedTypes
    BY DEF TimedInv
<1>3. /\ handler' \in [T!Runs -> [T!Handlers -> {"idle", "passed", "over"}]]
      /\ \A m \in T!Runs, g \in T!Handlers :
            handler'[m][g] = IF m = n /\ g = h THEN IF ~flag[n] THEN "passed" ELSE "over"
                             ELSE handler[m][g]
    BY <1>1, <1>2 DEF TimedTypes, T!Handlers
<1>4. TimedTypes'
    BY <1>1, <1>2, <1>3 DEF TimedTypes
<1>5. InOrder' /\ FlagRaised' /\ Unstarted' /\ T!NotEarly'
    BY <1>1 DEF TimedInv, InOrder, FlagRaised, Unstarted, T!NotEarly
<1>6. n <= started
    BY <1>1, <1>2 DEF TimedInv, Unstarted, T!Queued, TimedTypes, T!Runs
<1>7. PassedAlone'
    BY <1>1, <1>3, <1>6 DEF TimedInv, PassedAlone
<1>8. HandlerReady'
    BY <1>1, <1>3 DEF TimedInv, HandlerReady, T!Handlers, T!Queued
<1>9. JobAfterTimer'
    BY <1>1, <1>3 DEF TimedInv, JobAfterTimer, T!Handlers
<1> QED
    BY <1>4, <1>5, <1>7, <1>8, <1>9 DEF TimedInv

LEMMA TimedStep == TimedInv /\ [T!Next]_timedVars => TimedInv'
<1> USE OperatorsAssumption
<1> SUFFICES ASSUME TimedInv, [T!Next]_timedVars PROVE TimedInv'
    OBVIOUS
<1>1. CASE UNCHANGED timedVars
    BY <1>1 DEF timedVars, TimedInv, TimedTypes, InOrder, FlagRaised, PassedAlone, Unstarted,
                HandlerReady, JobAfterTimer, T!NotEarly
<1> QED
    BY <1>1, RunStep, EventStep, TestStep, ActStep DEF T!Next

LEMMA TimedStart == T!Init => TimedInv
BY OperatorsAssumption DEF T!Init, TimedInv, TimedTypes, InOrder, FlagRaised, PassedAlone, Unstarted,
       HandlerReady, JobAfterTimer, T!NotEarly, T!Runs, T!Handlers

LEMMA TimedImplies == TimedInv => OnTime
<1> SUFFICES ASSUME TimedInv PROVE T!LateResultIgnored
    BY DEF OnTime, TimedInv
<1>1. started \in Int /\ Len(answers) \in Int /\ DOMAIN answers = 1 .. Len(answers)
    BY DEF TimedInv, TimedTypes
<1> QED
    BY <1>1 DEF TimedInv, InOrder, T!LateResultIgnored

\* However timer and result race on one thread, and however many times a retry
\* runs the timed IO: every run answers at most once and in order, the late
\* result of a timed-out run is dropped, and a delayed result is not early.
THEOREM TimedOnTime == T!Spec => []OnTime
BY TimedStart, TimedImplies, TimedStep, PTL DEF T!Spec, T!vars, timedVars

-----------------------------------------------------------------------------
(* IoChain: any number of stages.                                          *)

(* The least-number principle, which the inductions below rest on.         *)
LEMMA LeastExists ==
    ASSUME NEW S, S \subseteq Nat, S # {}
    PROVE  \E i \in S : \A j \in S : i <= j
<1> DEFINE R == OpToRel(<, Nat)
<1>1. PICK x \in S : \A y \in S : ~ (<<y, x>> \in R)
    BY NatLessThanWellFounded, WFMin
<1>2. \A y \in S : <<y, x>> \in R <=> y < x
    BY DEF OpToRel
<1> HIDE DEF R
<1>3. \A y \in S : ~(y < x)
    BY <1>1, <1>2
<1>4. \A y \in S : x <= y
    <2>1. x \in Nat /\ \A y \in S : y \in Nat
        OBVIOUS
    <2> QED BY <1>3, <2>1
<1> QED BY <1>4

(* A chain's first n stages have a meaning.                                *)
Means(g, n) ==
    g = [i \in 0 .. n |-> IF i = 0 THEN source ELSE C!StageMeaning(i, g[i - 1])]

LEMMA MeaningExists == \E g : Means(g, Length)
<1> DEFINE Bad == {n \in 0 .. Length : ~ \E g : Means(g, n)}
<1> USE OperatorsAssumption
<1>1. SUFFICES ASSUME Bad # {} PROVE FALSE
    OBVIOUS
<1>2. PICK n \in Bad : \A m \in Bad : n <= m
    <2>1. Bad \subseteq Nat
        OBVIOUS
    <2> HIDE DEF Bad
    <2> QED BY <1>1, <2>1, LeastExists
<1>3. CASE n = 0
    <2> DEFINE g == [i \in 0 .. 0 |-> source]
    <2>1. Means(g, 0)
        BY DEF Means
    <2> QED BY <1>2, <1>3, <2>1
<1>4. CASE n # 0
    <2>1. n \in Nat /\ n - 1 \in 0 .. Length /\ n - 1 \notin Bad
        BY <1>2, <1>4
    <2>2. PICK g : Means(g, n - 1)
        BY <2>1
    <2> DEFINE h == [i \in 0 .. n |-> IF i = n THEN C!StageMeaning(n, g[n - 1]) ELSE g[i]]
    <2>3. \A i \in 0 .. n : h[i] = IF i = 0 THEN source ELSE C!StageMeaning(i, h[i - 1])
        <3>1. \A i \in 0 .. n - 1 : g[i] = IF i = 0 THEN source ELSE C!StageMeaning(i, g[i - 1])
            BY <2>2 DEF Means
        <3> QED BY <1>4, <2>1, <3>1
    <2>4. Means(h, n)
        BY <2>3 DEF Means
    <2> QED BY <1>2, <2>4
<1> QED BY <1>3, <1>4

MeaningStepwise ==
    \A i \in 0 .. Length :
        C!Meaning[i] = IF i = 0 THEN source ELSE C!StageMeaning(i, C!Meaning[i - 1])

LEMMA MeaningDef == MeaningStepwise
<1>1. C!Meaning = CHOOSE g : Means(g, Length)
    BY DEF C!Meaning, Means
<1>2. Means(C!Meaning, Length)
    BY <1>1, MeaningExists
<1> QED BY <1>2 DEF Means, MeaningStepwise

(* What a chain means does not change while it runs.                       *)
LEMMA MeaningKept ==
    ASSUME UNCHANGED <<stages, out, source>>
    PROVE  \A i \in 0 .. Length : C!Meaning'[i] = C!Meaning[i]
<1> DEFINE Bad == {i \in 0 .. Length : C!Meaning'[i] # C!Meaning[i]}
<1> USE OperatorsAssumption
<1>1. SUFFICES ASSUME Bad # {} PROVE FALSE
    OBVIOUS
<1>2. PICK n \in Bad : \A m \in Bad : n <= m
    <2>1. Bad \subseteq Nat
        OBVIOUS
    <2> HIDE DEF Bad
    <2> QED BY <1>1, <2>1, LeastExists
<1>3. MeaningStepwise'
    BY MeaningDef, PTL
<1>4. n \in 0 .. Length /\ C!Meaning'[n] # C!Meaning[n]
    BY <1>2
<1>5. CASE n = 0
    BY <1>3, <1>4, <1>5, MeaningDef DEF MeaningStepwise
<1>6. CASE n # 0
    <2>1. n - 1 \in 0 .. Length /\ n - 1 \notin Bad
        BY <1>2, <1>4, <1>6
    <2>2. C!Meaning'[n - 1] = C!Meaning[n - 1]
        BY <2>1
    <2>3. C!StageMeaning(n, C!Meaning[n - 1])' = C!StageMeaning(n, C!Meaning[n - 1])
        BY <2>2 DEF C!StageMeaning, C!Caught, C!InnerResult
    <2> QED BY <1>3, <1>4, <1>6, <2>3, MeaningDef DEF MeaningStepwise
<1> QED BY <1>5, <1>6

-----------------------------------------------------------------------------
ChainResults == {"ok", "failed", "mapped", "then threw", "catch threw", "map threw"}

ChainTypes ==
    /\ stages \in [C!Stages -> C!StageKinds] /\ out \in [C!Stages -> {"value", "error", "throw"}]
    /\ \A i \in C!Stages : out[i] \in C!Outcomes(stages[i])
    /\ source \in C!Sources /\ r \in ChainResults /\ at \in 1 .. Length + 1
    /\ where \in {"call", "later", "throw", "over"}
    /\ tries \in Seq(C!Stages) /\ moved \subseteq C!Stages
    /\ invoked \in [C!Stages -> Nat] /\ delivered \in Seq(ChainResults) /\ leaked \in BOOLEAN

(* Until the continuation is called, a chain whose functions are guarded   *)
(* goes from stage to stage with the result so far: nothing was thrown     *)
(* across stages, the continuations moved away are behind, and the         *)
(* cleanups behind ran once and those ahead not yet.                       *)
FirstPass ==
    C!Guarded /\ delivered = <<>> =>
        /\ where \in {"call", "later"} /\ moved \subseteq 1 .. at - 1
        /\ r = C!Meaning[at - 1]
        /\ \A i \in C!Stages : stages[i] \in {"finally", "finally_then"} =>
              invoked[i] = IF i < at THEN 1 ELSE 0

ChainInv == ChainTypes /\ FirstPass /\ DeliversMeaning /\ CleanupRan

LEMMA CallTypes ==
    ASSUME ChainTypes, C!CallStage
    PROVE  ChainTypes'
<1> USE OperatorsAssumption DEF ChainTypes
<1>1. at \in C!Stages /\ UNCHANGED <<stages, out, source, delivered, leaked>>
    BY DEF C!CallStage, C!Stages
<1>2. /\ C!Caught(at) \in ChainResults /\ C!InnerResult(at) \in ChainResults
      /\ "ok" \in ChainResults /\ "mapped" \in ChainResults
    BY DEF C!Caught, C!InnerResult, ChainResults
<1>3. \A x \in ChainResults : C!Continue(at, x) =>
          where' \in {"call", "throw"} /\ at' \in 1 .. Length + 1 /\ r' \in ChainResults
    BY <1>1 DEF C!Continue, C!Stages
<1>4. C!Guard(at) => tries' \in Seq(C!Stages)
    BY <1>1 DEF C!Guard
<1>5. C!Invoke(at) \/ C!Idle => invoked' \in [C!Stages -> Nat]
    BY <1>1 DEF C!Invoke, C!Idle
<1>6. C!Keep => tries' \in Seq(C!Stages) /\ moved' \subseteq C!Stages
    BY DEF C!Keep
<1>7. \A x \in ChainResults : C!RunInner(at, x) =>
          /\ where' \in {"call", "throw", "later"} /\ at' \in 1 .. Length + 1 /\ r' \in ChainResults
          /\ tries' \in Seq(C!Stages) /\ moved' \subseteq C!Stages
    <2>1. <<>> \in Seq(C!Stages) /\ at + 1 \in 1 .. Length + 1 /\ moved \cup {at} \subseteq C!Stages
        BY <1>1 DEF C!Stages
    <2> HIDE DEF ChainTypes
    <2> QED BY <1>3, <1>4, <2>1 DEF C!RunInner
<1> HIDE DEF ChainTypes
<1> DEFINE Rest == /\ where' \in {"call", "throw", "later"} /\ at' \in 1 .. Length + 1 /\ r' \in ChainResults
                   /\ tries' \in Seq(C!Stages) /\ moved' \subseteq C!Stages
                   /\ invoked' \in [C!Stages -> Nat]
<1>8. r \in ChainResults /\ moved \subseteq C!Stages /\ at \in 1 .. Length + 1
    BY DEF ChainTypes
<1>9. CASE C!CallMap(at) \/ C!CallMapTo(at)
    <2>1. Rest
        BY <1>2, <1>3, <1>4, <1>5, <1>6, <1>8, <1>9 DEF C!CallMap, C!CallMapTo, C!Apply
    <2> QED BY <1>1, <2>1 DEF ChainTypes
<1>10. CASE C!CallThen(at) \/ C!CallCatchThen(at)
    <2>1. Rest
        BY <1>2, <1>3, <1>5, <1>6, <1>7, <1>8, <1>10 DEF C!CallThen, C!CallCatchThen
    <2> QED BY <1>1, <2>1 DEF ChainTypes
<1>11. CASE C!CallMapErr(at) \/ C!CallFinally(at)
    <2>1. Rest
        BY <1>2, <1>3, <1>5, <1>6, <1>8, <1>11 DEF C!CallMapErr, C!CallFinally
    <2> QED BY <1>1, <2>1 DEF ChainTypes
<1>12. CASE C!CallFinallyThen(at)
    <2>1. Rest
        BY <1>2, <1>3, <1>5, <1>6, <1>7, <1>8, <1>12 DEF C!CallFinallyThen
    <2> QED BY <1>1, <2>1 DEF ChainTypes
<1> QED BY <1>9, <1>10, <1>11, <1>12 DEF C!CallStage

(* A stage of the first pass hands the next one what it means.             *)
LEMMA StagePasses ==
    ASSUME ChainTypes, FirstPass, C!CallStage, C!Guarded, delivered = <<>>
    PROVE  /\ where' \in {"call", "later"} /\ at' = at + 1
           /\ r' = C!StageMeaning(at, r) /\ moved' \subseteq moved \cup {at}
           /\ \/ invoked' = [invoked EXCEPT ![at] = @ + 1]
              \/ invoked' = invoked /\ stages[at] \notin {"finally", "finally_then"}
<1>1. at \in C!Stages /\ at \notin moved /\ stages[at] \in C!StageKinds
    BY OperatorsAssumption DEF C!CallStage, C!Stages, ChainTypes, FirstPass
<1>2. /\ out[at] \in {"value", "error", "throw"}
      /\ stages[at] \in {"map", "map_to"} => out[at] # "error"
    BY <1>1 DEF ChainTypes, C!Outcomes
<1>3. \A x : C!Continue(at, x) => where' = "call" /\ at' = at + 1 /\ r' = x
    BY <1>1 DEF C!Continue
<1>4. \A x : C!RunInner(at, x) =>
          where' \in {"call", "later"} /\ at' = at + 1 /\ r' = x /\ moved' = moved \cup {at}
    BY <1>3 DEF C!RunInner
<1>5. CASE C!CallMap(at) \/ C!CallMapTo(at)
    BY <1>1, <1>2, <1>3, <1>5
       DEF C!CallMap, C!CallMapTo, C!Apply, C!Keep, C!Idle, C!Invoke, C!StageMeaning, C!InnerResult
<1>6. CASE C!CallThen(at)
    BY <1>1, <1>2, <1>3, <1>4, <1>6 DEF C!CallThen, C!Keep, C!Idle, C!Invoke, C!StageMeaning
<1>7. CASE C!CallCatchThen(at)
    BY <1>1, <1>2, <1>3, <1>4, <1>7 DEF C!CallCatchThen, C!Keep, C!Idle, C!Invoke, C!StageMeaning
<1>8. CASE C!CallMapErr(at)
    <2>1. out[at] # "throw"
        BY <1>1, <1>8 DEF C!Guarded, C!CallMapErr
    <2> QED BY <1>1, <1>3, <1>8, <2>1 DEF C!CallMapErr, C!Keep, C!Idle, C!Invoke, C!StageMeaning
<1>9. CASE C!CallFinally(at)
    <2>1. out[at] # "throw"
        BY <1>1, <1>9 DEF C!Guarded, C!CallFinally
    <2> QED BY <1>1, <1>3, <1>9, <2>1 DEF C!CallFinally, C!Keep, C!Invoke, C!StageMeaning
<1>10. CASE C!CallFinallyThen(at)
    BY <1>1, <1>3, <1>4, <1>10 DEF C!CallFinallyThen, C!Keep, C!Invoke, C!StageMeaning
<1> QED BY <1>5, <1>6, <1>7, <1>8, <1>9, <1>10 DEF C!CallStage

LEMMA CallKeeps ==
    ASSUME ChainInv, C!CallStage
    PROVE  ChainInv'
<1>1. ChainTypes'
    BY CallTypes DEF ChainInv
<1>2. UNCHANGED <<stages, out, source, delivered, leaked>> /\ where' # "over"
    <2>1. at \in C!Stages
        BY OperatorsAssumption DEF C!CallStage, C!Stages, ChainInv, ChainTypes
    <2> QED BY <2>1 DEF C!CallStage, C!CallMap, C!CallMapTo, C!Apply, C!CallThen, C!CallCatchThen,
                        C!CallMapErr, C!CallFinally, C!CallFinallyThen, C!RunInner, C!Continue
<1>3. C!Guarded' <=> C!Guarded
    BY <1>2 DEF C!Guarded
<1>4. FirstPass'
    <2> SUFFICES ASSUME C!Guarded, delivered = <<>>
                 PROVE  /\ where' \in {"call", "later"} /\ moved' \subseteq 1 .. at' - 1
                        /\ r' = C!Meaning'[at' - 1]
                        /\ \A i \in C!Stages : stages[i] \in {"finally", "finally_then"} =>
                              invoked'[i] = IF i < at' THEN 1 ELSE 0
        BY <1>2, <1>3 DEF FirstPass
    <2>1. /\ where' \in {"call", "later"} /\ at' = at + 1
          /\ r' = C!StageMeaning(at, r) /\ moved' \subseteq moved \cup {at}
          /\ \/ invoked' = [invoked EXCEPT ![at] = @ + 1]
             \/ invoked' = invoked /\ stages[at] \notin {"finally", "finally_then"}
        BY StagePasses DEF ChainInv
    <2>2. at \in 1 .. Length
        BY OperatorsAssumption DEF C!CallStage, ChainInv, ChainTypes
    <2>3. /\ moved \subseteq 1 .. at - 1 /\ r = C!Meaning[at - 1]
          /\ \A i \in C!Stages : stages[i] \in {"finally", "finally_then"} =>
                invoked[i] = IF i < at THEN 1 ELSE 0
        BY DEF ChainInv, FirstPass
    <2>4. r' = C!Meaning'[at' - 1]
        <3>1. C!Meaning[at] = C!StageMeaning(at, C!Meaning[at - 1])
            BY <2>2, MeaningDef, OperatorsAssumption DEF MeaningStepwise
        <3>2. C!Meaning'[at] = C!Meaning[at]
            BY <1>2, <2>2, MeaningKept, OperatorsAssumption
        <3> QED BY <2>1, <2>2, <2>3, <3>1, <3>2
    <2>5. moved' \subseteq 1 .. at' - 1
        BY <2>1, <2>2, <2>3
    <2>6. \A i \in C!Stages : stages[i] \in {"finally", "finally_then"} =>
              invoked'[i] = IF i < at' THEN 1 ELSE 0
        <3>1. invoked \in [C!Stages -> Nat] /\ C!Stages = 1 .. Length
            BY DEF ChainInv, ChainTypes, C!Stages
        <3> QED BY <2>1, <2>2, <2>3, <3>1, OperatorsAssumption
    <2> QED BY <2>1, <2>4, <2>5, <2>6
<1>5. DeliversMeaning'
    <2>1. C!Meaning'[Length] = C!Meaning[Length]
        BY <1>2, MeaningKept, OperatorsAssumption
    <2> QED BY <1>2, <1>3, <2>1 DEF ChainInv, DeliversMeaning, C!DeliversMeaning, C!LossIsLoud
<1>6. CleanupRan'
    BY <1>2 DEF CleanupRan, C!CleanupRan
<1> QED BY <1>1, <1>4, <1>5, <1>6 DEF ChainInv

(* The first call of the continuation is given what the chain means; what  *)
(* comes after it is not the first.                                        *)
LEMMA DeliverKeeps ==
    ASSUME ChainInv, C!Deliver
    PROVE  ChainInv'
<1>1. /\ UNCHANGED <<stages, out, source, at, r, tries, moved, invoked, leaked>>
      /\ where = "call" /\ at = Length + 1 /\ delivered' = Append(delivered, r)
      /\ where' \in {"over", "throw"}
    BY DEF C!Deliver
<1>2. delivered \in Seq(ChainResults) /\ r \in ChainResults
    BY DEF ChainInv, ChainTypes
<1>3. /\ delivered' \in Seq(ChainResults) /\ delivered' # <<>> /\ Len(delivered') = Len(delivered) + 1
      /\ delivered # <<>> => delivered'[1] = delivered[1] /\ Len(delivered) > 0
      /\ delivered = <<>> => delivered'[1] = r
    BY <1>1, <1>2
<1>4. C!Guarded' <=> C!Guarded
    BY <1>1 DEF C!Guarded
<1>5. C!Meaning'[Length] = C!Meaning[Length]
    BY <1>1, MeaningKept, OperatorsAssumption
<1>6. C!Guarded /\ delivered = <<>> =>
          /\ r = C!Meaning[Length]
          /\ \A i \in C!Stages : stages[i] \in {"finally", "finally_then"} => invoked[i] = 1
    <2>1. at - 1 = Length /\ \A i \in C!Stages : i < at
        BY <1>1, OperatorsAssumption DEF C!Stages
    <2> QED BY <2>1 DEF ChainInv, FirstPass
<1>7. ChainTypes'
    BY <1>1, <1>3 DEF ChainInv, ChainTypes
<1>8. FirstPass'
    BY <1>3 DEF FirstPass
<1>9. DeliversMeaning'
    BY <1>3, <1>4, <1>5, <1>6 DEF ChainInv, DeliversMeaning, C!DeliversMeaning, C!LossIsLoud
<1>10. CleanupRan'
    <2> SUFFICES ASSUME C!Guarded, Len(delivered') = 1
                 PROVE  \A i \in C!Stages : stages[i] \in {"finally", "finally_then"} => invoked[i] = 1
        BY <1>1, <1>4 DEF CleanupRan, C!CleanupRan
    <2>1. Len(delivered) = 0
        <3> DEFINE n == Len(delivered)
        <3>1. n \in Nat /\ Len(delivered') = n + 1
            BY <1>2, <1>3
        <3> HIDE DEF n
        <3>2. n + 1 = 1
            BY <3>1
        <3>3. n = 0
            BY <3>1, <3>2
        <3> QED BY <3>3 DEF n
    <2>2. delivered = <<>>
        BY <1>2, <2>1
    <2> QED BY <1>6, <2>2
<1> QED BY <1>7, <1>8, <1>9, <1>10 DEF ChainInv

LEMMA ResumeKeeps ==
    ASSUME ChainInv, C!Resume
    PROVE  ChainInv'
<1>1. /\ UNCHANGED <<stages, out, source, at, r, tries, moved, invoked, delivered, leaked>>
      /\ where = "later" /\ where' = "call"
    BY DEF C!Resume
<1>2. C!Guarded' <=> C!Guarded
    BY <1>1 DEF C!Guarded
<1>3. C!Meaning'[Length] = C!Meaning[Length] /\ C!Meaning'[at - 1] = C!Meaning[at - 1]
    BY <1>1, MeaningKept, OperatorsAssumption DEF ChainInv, ChainTypes
<1>4. ChainTypes'
    BY <1>1 DEF ChainInv, ChainTypes
<1>5. FirstPass'
    BY <1>1, <1>2, <1>3 DEF ChainInv, FirstPass
<1>6. DeliversMeaning'
    BY <1>1, <1>2, <1>3 DEF ChainInv, DeliversMeaning, C!DeliversMeaning, C!LossIsLoud
<1>7. CleanupRan'
    BY <1>1 DEF CleanupRan, C!CleanupRan
<1> QED BY <1>4, <1>5, <1>6, <1>7 DEF ChainInv

(* An exception that crosses stages does so after the first pass, or where *)
(* a function without a try block threw.                                   *)
LEMMA UnwindKeeps ==
    ASSUME ChainInv, C!Unwind
    PROVE  ChainInv'
<1>1. UNCHANGED <<stages, out, source, moved, invoked, delivered>> /\ where = "throw"
    BY DEF C!Unwind
<1>2. C!Guarded' <=> C!Guarded
    BY <1>1 DEF C!Guarded
<1>3. C!Meaning'[Length] = C!Meaning[Length]
    BY <1>1, MeaningKept, OperatorsAssumption
<1>4. ~(C!Guarded /\ delivered = <<>>)
    BY <1>1 DEF ChainInv, FirstPass
<1>5. where' = "over" => leaked' = TRUE
    BY DEF C!Unwind, C!Continue
<1>6. ChainTypes'
    <2>1. CASE tries = <<>>
        BY <1>1, <2>1 DEF C!Unwind, ChainInv, ChainTypes
    <2>2. CASE tries # <<>>
        <3> DEFINE i == tries[Len(tries)]
        <3>1. tries \in Seq(C!Stages) /\ Len(tries) \in Nat /\ Len(tries) > 0
            BY <2>2 DEF ChainInv, ChainTypes
        <3>2. i \in C!Stages
            BY <3>1
        <3>3. SubSeq(tries, 1, Len(tries) - 1) \in Seq(C!Stages)
            BY <3>1
        <3>4. C!Caught(i) \in ChainResults
            BY DEF C!Caught, ChainResults
        <3>5. /\ C!Continue(i, C!Caught(i)) /\ tries' = SubSeq(tries, 1, Len(tries) - 1)
              /\ leaked' = leaked
            BY <2>2 DEF C!Unwind
        <3> HIDE DEF i
        <3>6. where' \in {"call", "throw"} /\ at' \in 1 .. Length + 1 /\ r' \in ChainResults
            BY <3>2, <3>4, <3>5, OperatorsAssumption DEF C!Continue, C!Stages, ChainInv, ChainTypes
        <3> QED BY <1>1, <3>3, <3>5, <3>6 DEF ChainInv, ChainTypes
    <2> QED BY <2>1, <2>2
<1>7. FirstPass'
    BY <1>1, <1>2, <1>4 DEF FirstPass
<1>8. DeliversMeaning'
    BY <1>1, <1>2, <1>3, <1>5 DEF ChainInv, DeliversMeaning, C!DeliversMeaning, C!LossIsLoud
<1>9. CleanupRan'
    BY <1>5 DEF CleanupRan, C!CleanupRan
<1> QED BY <1>6, <1>7, <1>8, <1>9 DEF ChainInv

LEMMA ChainStart == C!Init => ChainInv
<1> SUFFICES ASSUME C!Init PROVE ChainInv
    OBVIOUS
<1> USE OperatorsAssumption
<1>1. ChainTypes
    <2>1. at \in 1 .. Length + 1
        BY DEF C!Init
    <2>4. r \in ChainResults
        <3>1. r = source /\ source \in C!Sources
            BY DEF C!Init
        <3>2. C!Sources \subseteq ChainResults
            BY DEF ChainResults, C!Sources
        <3> QED BY <3>1, <3>2
    <2>2. <<>> \in Seq(C!Stages) /\ <<>> \in Seq(ChainResults)
        OBVIOUS
    <2>3. leaked \in BOOLEAN /\ invoked \in [C!Stages -> Nat]
        BY DEF C!Init
    <2> QED BY <2>1, <2>2, <2>3, <2>4 DEF C!Init, ChainTypes
<1>2. C!Meaning[0] = source
    BY MeaningDef DEF MeaningStepwise
<1>3. FirstPass
    BY <1>2 DEF C!Init, FirstPass, C!Stages
<1>4. DeliversMeaning /\ CleanupRan
    BY DEF C!Init, DeliversMeaning, C!DeliversMeaning, C!LossIsLoud, CleanupRan, C!CleanupRan
<1> QED BY <1>1, <1>3, <1>4 DEF ChainInv

LEMMA ChainStep == ChainInv /\ [C!Next]_chainVars => ChainInv'
<1> SUFFICES ASSUME ChainInv, UNCHANGED chainVars PROVE ChainInv'
    BY CallKeeps, DeliverKeeps, ResumeKeeps, UnwindKeeps DEF C!Next
<1>1. UNCHANGED <<stages, out, source, where, at, r, tries, moved, invoked, delivered, leaked>>
    BY DEF chainVars
<1>2. C!Guarded' <=> C!Guarded
    BY <1>1 DEF C!Guarded
<1>3. C!Meaning'[Length] = C!Meaning[Length] /\ C!Meaning'[at - 1] = C!Meaning[at - 1]
    <2>1. \A i \in 0 .. Length : C!Meaning'[i] = C!Meaning[i]
        BY <1>1, MeaningKept
    <2>2. Length \in 0 .. Length
        BY OperatorsAssumption
    <2>3. at - 1 \in 0 .. Length
        <3>1. at \in 1 .. Length + 1
            BY DEF ChainInv, ChainTypes
        <3> QED BY <3>1, OperatorsAssumption
    <2> QED BY <2>1, <2>2, <2>3
<1> QED BY <1>1, <1>2, <1>3 DEF ChainInv, ChainTypes, FirstPass, DeliversMeaning,
            C!DeliversMeaning, C!LossIsLoud, CleanupRan, C!CleanupRan

LEMMA ChainInductive == C!Spec => []ChainInv
BY ChainStart, ChainStep, PTL DEF C!Spec, C!vars, chainVars

(* Running a chain of combinators (io_monad.hpp), however many: what the   *)
(* continuation is first called with is what the stages mean when only     *)
(* guarded functions throw, however the stages wait and whatever the       *)
(* continuation does; and a result that is not delivered leaves run() as   *)
(* an exception.                                                           *)
THEOREM ChainDelivers == C!Spec => []DeliversMeaning
BY ChainInductive, PTL DEF ChainInv

(* finally and finally_then: when nothing escapes, every cleanup of the    *)
(* chain has run exactly once.                                             *)
THEOREM ChainCleansUp == C!Spec => []CleanupRan
BY ChainInductive, PTL DEF ChainInv

-----------------------------------------------------------------------------
(* The parts of MCOperators: a step of one leaves the others as they are.  *)
LEMMA PartSteps ==
    [MCNext]_allVars => [Next]_vars /\ [T!Next]_timedVars /\ [C!Next]_chainVars
BY DEF MCNext, allVars, OfAttempts, OfTimed, OfChain

\* What is proved of each family holds of the model the run checks, in which one
\* of the loops, the timed IO and the chain is chosen and the other two stay idle.
THEOREM OperatorsSafe ==
    MCSpec => [](LoopJustified /\ Released /\ OnTime /\ DeliversMeaning /\ CleanupRan)
<1> DEFINE All == LoopInv /\ TimedInv /\ ChainInv
<1>1. MCInit => All
    BY LoopStart, TimedStart, ChainStart DEF MCInit
<1>2. All /\ [MCNext]_allVars => All'
    BY PartSteps, LoopStep, TimedStep, ChainStep
<1>3. All => LoopJustified /\ Released /\ OnTime /\ DeliversMeaning /\ CleanupRan
    BY LoopReleases, TimedImplies DEF LoopInv, ChainInv
<1> QED
    BY <1>1, <1>2, <1>3, PTL DEF MCSpec
=============================================================================
