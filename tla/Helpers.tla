------------------------------- MODULE Helpers -------------------------------
(***************************************************************************)
(* The thread-safe helpers of misc_util.hpp, each a critical section per   *)
(* operation: RateLimiter, TaskDeduplicator and ThreadNotifier; and the    *)
(* backoff of backoff_utils.hpp.  The clock counts halves of a second, for *)
(* RateLimiter truncates to seconds.                                       *)
(***************************************************************************)
EXTENDS Integers, FiniteSets, FiniteSetsExt

CONSTANTS
    MaxTokens, ConsumeRate, RefillRate,     \* RateLimiter's parameters
    MaxDebt,            \* tokens below zero, which the code does not bound
    EvictAfter,         \* seconds after which a user is forgotten: 300
    Ttl,                \* TaskDeduplicator's _ttl, in halves of a second
    Tasks,              \* tasks that share one key
    Waiters,            \* threads that wait for a notification
    Clock,              \* the last instant
    Delays              \* delays of the backoff's options, in milliseconds

ASSUME HelpersAssumption ==
    /\ MaxTokens \in Nat \ {0} /\ ConsumeRate \in Nat \ {0} /\ RefillRate \in Nat
    /\ EvictAfter \in Nat
    /\ Ttl \in Nat /\ Delays \subseteq Nat /\ IsFiniteSet(Waiters)

VARIABLES
    clock,
    user,               \* userLimits of one user: known, tokens, lastRequest
    allowed,            \* requests allowed so far
    buckets,            \* full buckets the user was given: new to userLimits
    marked, markedAt,   \* _executed holds the key, and since when
    task,               \* each task: idle, running, done, late
    since,              \* when it started
    notified,           \* notified_
    waiter,             \* each waiter: idle, waiting, woken, timedOut
    notifies,           \* calls of notify()
    options,            \* options_ of the backoff
    current,            \* current_delay_
    delay               \* what NextDelay returned last

rateVars == <<user, allowed, buckets>>
taskVars == <<marked, markedAt, task, since>>
noteVars == <<notified, waiter, notifies>>
waitVars == <<options, current, delay>>
helperVars == <<clock, rateVars, taskVars, noteVars, waitVars>>

Options == [initial : Delays \cup {-1}, max : Delays \cup {-1}, jitter : Delays \cup {-1}]

Sanitize(o) ==
    LET initial == IF o.initial <= 0 THEN 1 ELSE o.initial
    IN [initial |-> initial, max |-> IF o.max < initial THEN initial ELSE o.max,
        jitter |-> IF o.jitter < 0 THEN 0 ELSE o.jitter]

HelpersInit ==
    /\ clock = 0
    /\ user = [known |-> FALSE, tokens |-> 0, lastRequest |-> 0] /\ allowed = 0 /\ buckets = 0
    /\ marked = FALSE /\ markedAt = 0
    /\ task = [t \in Tasks |-> "idle"] /\ since = [t \in Tasks |-> 0]
    /\ notified = FALSE /\ waiter = [w \in Waiters |-> "idle"] /\ notifies = 0
    /\ options \in {Sanitize(o) : o \in Options} /\ current = 0 /\ delay = 0

ClockTick == clock < Clock /\ clock' = clock + 1 /\ UNCHANGED <<rateVars, taskVars, noteVars, waitVars>>

-----------------------------------------------------------------------------
(* RateLimiter                                                             *)

Elapsed(u) == (clock - u.lastRequest) \div 2

(* remove_older_than_300s; a new user starts with all tokens.              *)
Remembered == user.known /\ Elapsed(user) <= EvictAfter
Current == IF Remembered THEN user
           ELSE [known |-> TRUE, tokens |-> MaxTokens, lastRequest |-> clock]

\* Mutant: the time is counted again at the next request.
RefillTokensAgain(u) == [u EXCEPT !.tokens = Min({MaxTokens, @ + Elapsed(u) * RefillRate})]

RefillTokens(u) ==
    IF Elapsed(u) > 0
    THEN [u EXCEPT !.tokens = Min({MaxTokens, @ + Elapsed(u) * RefillRate}),
                   !.lastRequest = clock]
    ELSE u

(* A denied request pays, too.                                             *)
AllowRequest ==
    LET u == RefillTokens(Current)
    IN /\ u.tokens > -MaxDebt
       /\ user' = [u EXCEPT !.tokens = @ - ConsumeRate]
       /\ allowed' = allowed + (IF u.tokens > 0 THEN 1 ELSE 0)
       /\ buckets' = buckets + (IF Remembered THEN 0 ELSE 1)
       /\ UNCHANGED <<clock, taskVars, noteVars, waitVars>>

-----------------------------------------------------------------------------
(* TaskDeduplicator                                                        *)

\* Mutant: entries expire as soon as they are as old as _ttl.
ExpiredEarly == clock - markedAt >= Ttl

(* An entry is evacuated when it is older than _ttl.                       *)
Expired == clock - markedAt > Ttl

(* is_running_or_mark: a task that is told FALSE runs.                     *)
IsRunningOrMark(t) ==
    /\ task[t] = "idle"
    /\ IF marked /\ ~Expired
       THEN task' = [task EXCEPT ![t] = "done"] /\ UNCHANGED <<marked, markedAt, since>>
       ELSE /\ marked' = TRUE /\ markedAt' = clock
            /\ task' = [task EXCEPT ![t] = "running"] /\ since' = [since EXCEPT ![t] = clock]
    /\ UNCHANGED <<clock, rateVars, noteVars, waitVars>>

(* A task that ends unmarks the key, whoever holds the mark by then; the   *)
(* model remembers that it ended after its time to live.                   *)
Unmark(t) ==
    /\ task[t] = "running"
    /\ task' = [task EXCEPT ![t] = IF clock - since[t] > Ttl THEN "late" ELSE "done"]
    /\ marked' = FALSE
    /\ UNCHANGED <<clock, rateVars, noteVars, markedAt, since, waitVars>>

-----------------------------------------------------------------------------
(* ThreadNotifier                                                          *)

Wait(w) ==
    /\ waiter[w] = "idle" /\ waiter' = [waiter EXCEPT ![w] = "waiting"]
    /\ UNCHANGED <<clock, rateVars, taskVars, notified, notifies, waitVars>>

Notify ==
    /\ notifies < Cardinality(Waiters) + 1
    /\ notified' = TRUE /\ notifies' = notifies + 1
    /\ UNCHANGED <<clock, rateVars, taskVars, waiter, waitVars>>

(* The predicate holds under the lock: the wait takes the notification.    *)
Wake(w) ==
    /\ waiter[w] = "waiting" /\ notified
    /\ notified' = FALSE /\ waiter' = [waiter EXCEPT ![w] = "woken"]
    /\ UNCHANGED <<clock, rateVars, taskVars, notifies, waitVars>>

TimeOut(w) ==
    /\ waiter[w] = "waiting" /\ ~notified
    /\ waiter' = [waiter EXCEPT ![w] = "timedOut"]
    /\ UNCHANGED <<clock, rateVars, taskVars, notified, notifies, waitVars>>

Reset ==
    /\ notified' = FALSE
    /\ UNCHANGED <<clock, rateVars, taskVars, waiter, notifies, waitVars>>

-----------------------------------------------------------------------------
(* JitteredExponentialBackoff                                              *)

NextDelay ==
    /\ current' = IF current <= 0 THEN options.initial ELSE Min({options.max, current * 2})
    /\ \E j \in 0 .. options.jitter : delay' = current' + j
    /\ UNCHANGED <<clock, rateVars, taskVars, noteVars, options>>

UpdateOptions(o) ==
    /\ options' = Sanitize(o)
    /\ current' = IF current > options'.max THEN options'.max ELSE current
    /\ UNCHANGED <<clock, rateVars, taskVars, noteVars, delay>>

ResetDelay ==
    /\ current' = 0
    /\ UNCHANGED <<clock, rateVars, taskVars, noteVars, options, delay>>

RateNext == ClockTick \/ AllowRequest
TaskNext == ClockTick \/ \E t \in Tasks : IsRunningOrMark(t) \/ Unmark(t)
WaitNext == NextDelay \/ ResetDelay \/ \E o \in Options : UpdateOptions(o)
NoteNext == Notify \/ Reset \/ \E w \in Waiters : Wait(w) \/ Wake(w) \/ TimeOut(w)

-----------------------------------------------------------------------------
(* A user gets no more than what was refilled since the start and, for     *)
(* each time of being new, a full bucket and the request that overdraws    *)
(* it; and is new again only more than EvictAfter seconds after the last   *)
(* time.  Requests may be denied, tokens fall below zero, and a user be    *)
(* forgotten, debts and all, before the bucket would be full again.        *)
RateBound ==
    /\ allowed * ConsumeRate <= buckets * (MaxTokens + ConsumeRate - 1) + RefillRate * (clock \div 2)
    /\ buckets * (2 * (EvictAfter + 1)) <= clock + 2 * (EvictAfter + 1)

(* Two tasks of one key run together only if one of them, or a task that   *)
(* has unmarked the key since, outlived the time to live.                  *)
OneTask ==
    \A s, t \in Tasks :
        (task[s] = "running" /\ task[t] = "running" /\ s # t) =>
            \/ clock - since[s] > Ttl \/ clock - since[t] > Ttl
            \/ \E u \in Tasks : task[u] = "late"

(* A notification wakes at most one waiter.                                *)
OneWakeEach == Cardinality({w \in Waiters : waiter[w] = "woken"}) <= notifies

(* A delay is at least a millisecond and at most the maximum and the       *)
(* jitter, and a delay after a delay is no shorter but for the jitter,     *)
(* however options are changed and the backoff reset in between.           *)
DelayBounded ==
    NextDelay => /\ delay' >= 1 /\ delay' <= options.max + options.jitter
                 /\ current' >= current /\ current' <= options.max
=============================================================================
