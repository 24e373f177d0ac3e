---------------------------- MODULE Helpers_proofs ----------------------------
(***************************************************************************)
(* Proofs about the helpers, for any number of workers, tasks, waiters and *)
(* writers and every rate, time to live and delay: IoContextManager is     *)
(* destroyed when its workers have ended, what is exclusive stays so, and  *)
(* RateLimiter and the backoff keep to their limits.                       *)
(***************************************************************************)
EXTENDS MCHelpers, FiniteSetTheorems, TLAPS

-----------------------------------------------------------------------------
(* IoContextManager.                                                       *)

(* stop() is past its join: nobody but its caller is left.                 *)
WorkersInv ==
    /\ wpc \in [Workers -> {"test", "run", "returned", "restart", "ended"}]
    /\ spc # "idle" => stopped
    /\ destroyed => stopped /\ (caller = Main => spc = "done")
    /\ spc = "done" => \A w \in Workers \ {caller} : wpc[w] = "ended"

LEMMA WorkersStep ==
    ASSUME WorkersInv, WorkersNext
    PROVE  WorkersInv'
<1>1. ASSUME NEW w \in Workers, Loop(w) \/ HandlerThrows(w) PROVE WorkersInv'
    <2>1. /\ UNCHANGED <<stopped, caller, spc, destroyed>> /\ wpc[w] # "ended"
          /\ \E p \in {"test", "run", "returned", "restart", "ended"} : wpc' = [wpc EXCEPT ![w] = p]
        BY <1>1 DEF Loop, Test, RunReturns, AfterRun, Restart, HandlerThrows
    <2>2. \A v \in Workers : wpc[v] = "ended" => wpc'[v] = "ended"
        BY <2>1 DEF WorkersInv
    <2> QED BY <2>1, <2>2 DEF WorkersInv
<1>2. ASSUME NEW t \in Workers \cup {Main}, StopFlag(t) PROVE WorkersInv'
    BY <1>2 DEF StopFlag, WorkersInv
<1>3. CASE StopGuard
    BY <1>3 DEF StopGuard, WorkersInv
<1>4. CASE StopHalt
    BY <1>4 DEF StopHalt, WorkersInv
<1>5. CASE StopJoin
    BY <1>5 DEF StopJoin, WorkersInv
<1>6. CASE Destroy
    BY <1>6 DEF Destroy, WorkersInv
<1> QED BY <1>1, <1>2, <1>3, <1>4, <1>5, <1>6 DEF WorkersNext, Stop

LEMMA WorkersQuiet ==
    ASSUME WorkersInv
    PROVE  DestroyedQuiet
BY WorkersAssumption DEF WorkersInv, DestroyedQuiet

LEMMA WorkersStart ==
    ASSUME WorkersInit
    PROVE  WorkersInv
BY DEF WorkersInit, WorkersInv

LEMMA WorkersKept ==
    ASSUME WorkersInv, UNCHANGED workerVars
    PROVE  WorkersInv'
BY DEF WorkersInv, workerVars

-----------------------------------------------------------------------------
(* TaskDeduplicator.                                                       *)

Fresh(t) == task[t] = "running" /\ clock - since[t] <= Ttl

(* As long as no task was late, the one that is within its time to live    *)
(* holds the mark.                                                         *)
TasksInv ==
    /\ clock \in Nat /\ markedAt \in Nat /\ since \in [Tasks -> Nat]
    /\ task \in [Tasks -> {"idle", "running", "done", "late"}]
    /\ (\A u \in Tasks : task[u] # "late") =>
          /\ \A s \in Tasks : Fresh(s) => marked = TRUE /\ markedAt = since[s]
          /\ \A s, t \in Tasks : Fresh(s) /\ Fresh(t) => s = t

LEMMA MarkKeepsTasks ==
    ASSUME TasksInv, NEW t \in Tasks, IsRunningOrMark(t)
    PROVE  TasksInv'
<1>1. CASE marked /\ ~Expired
    <2>1. task' = [task EXCEPT ![t] = "done"] /\ UNCHANGED <<clock, marked, markedAt, since>> /\ task[t] = "idle"
        BY <1>1 DEF IsRunningOrMark
    <2>2. \A s \in Tasks : (Fresh(s)' => Fresh(s)) /\ (task'[s] = "late" <=> task[s] = "late")
        BY <2>1 DEF TasksInv, Fresh
    <2> QED BY <2>1, <2>2 DEF TasksInv
<1>2. CASE ~(marked /\ ~Expired)
    <2>1. /\ task' = [task EXCEPT ![t] = "running"] /\ since' = [since EXCEPT ![t] = clock]
          /\ clock' = clock /\ marked' = TRUE /\ markedAt' = clock /\ task[t] = "idle"
        BY <1>2 DEF IsRunningOrMark
    <2>2. \A s \in Tasks : task'[s] = "late" <=> task[s] = "late"
        BY <2>1 DEF TasksInv
    <2>3. ASSUME \A u \in Tasks : task[u] # "late" PROVE \A s \in Tasks : ~Fresh(s)
        <3> SUFFICES ASSUME NEW s \in Tasks, Fresh(s) PROVE FALSE
            OBVIOUS
        <3>1. marked = TRUE /\ markedAt = since[s] /\ clock \in Nat /\ since[s] \in Nat
            BY <2>3 DEF TasksInv
        <3>2. clock - since[s] > Ttl
            BY <1>2, <3>1 DEF Expired
        <3>3. clock - since[s] <= Ttl
            BY DEF Fresh
        <3> QED BY <3>1, <3>2, <3>3, HelpersAssumption
    <2>4. \A s \in Tasks : s # t => (Fresh(s)' <=> Fresh(s))
        BY <2>1 DEF TasksInv, Fresh
    <2>5. since'[t] = clock
        BY <2>1 DEF TasksInv
    <2>6. TasksInv!1' /\ TasksInv!2'
        BY <2>1 DEF TasksInv
    <2> QED BY <2>1, <2>2, <2>3, <2>4, <2>5, <2>6 DEF TasksInv
<1> QED BY <1>1, <1>2

LEMMA UnmarkKeepsTasks ==
    ASSUME TasksInv, NEW t \in Tasks, Unmark(t)
    PROVE  TasksInv'
<1>1. /\ task[t] = "running" /\ marked' = FALSE /\ UNCHANGED <<clock, markedAt, since>>
      /\ task' = [task EXCEPT ![t] = IF clock - since[t] > Ttl THEN "late" ELSE "done"]
    BY DEF Unmark
<1>2. TasksInv!1' /\ TasksInv!2'
    BY <1>1 DEF TasksInv
<1>3. ASSUME \A u \in Tasks : task'[u] # "late" PROVE \A s \in Tasks : ~Fresh(s)'
    <2>1. \A u \in Tasks : task[u] # "late"
        BY <1>1, <1>3 DEF TasksInv
    <2>2. ~(clock - since[t] > Ttl)
        BY <1>1, <1>3 DEF TasksInv
    <2>3. Fresh(t)
        BY <1>1, <2>2, HelpersAssumption DEF Fresh, TasksInv
    <2>4. \A s \in Tasks : s # t => ~Fresh(s)
        BY <2>1, <2>3 DEF TasksInv
    <2> QED BY <1>1, <2>4 DEF Fresh, TasksInv
<1> QED BY <1>2, <1>3 DEF TasksInv

LEMMA TickKeepsTasks ==
    ASSUME TasksInv, clock' = clock + 1, UNCHANGED taskVars
    PROVE  TasksInv'
<1>1. UNCHANGED <<marked, markedAt, task, since>>
    BY DEF taskVars
<1>2. \A s \in Tasks : Fresh(s)' => Fresh(s)
    <2> SUFFICES ASSUME NEW s \in Tasks, Fresh(s)' PROVE Fresh(s)
        OBVIOUS
    <2>1. clock \in Nat /\ since[s] \in Nat /\ Ttl \in Nat
        BY HelpersAssumption DEF TasksInv
    <2> QED BY <1>1, <2>1 DEF Fresh
<1> QED BY <1>1, <1>2 DEF TasksInv

LEMMA TasksKept ==
    ASSUME TasksInv, UNCHANGED <<clock, taskVars>>
    PROVE  TasksInv'
BY DEF TasksInv, Fresh, taskVars

LEMMA TasksStart ==
    ASSUME HelpersInit
    PROVE  TasksInv
BY DEF HelpersInit, TasksInv, Fresh

LEMMA TasksOne ==
    ASSUME TasksInv
    PROVE  OneTask
<1> SUFFICES ASSUME NEW s \in Tasks, NEW t \in Tasks, task[s] = "running", task[t] = "running", s # t,
                    \A u \in Tasks : task[u] # "late"
             PROVE  clock - since[s] > Ttl \/ clock - since[t] > Ttl
    BY DEF OneTask
<1>1. ~Fresh(s) \/ ~Fresh(t)
    BY DEF TasksInv
<1>2. clock \in Nat /\ since[s] \in Nat /\ since[t] \in Nat /\ Ttl \in Nat
    BY HelpersAssumption DEF TasksInv
<1> QED BY <1>1, <1>2 DEF Fresh

-----------------------------------------------------------------------------
(* ThreadNotifier.                                                         *)

Woken == {w \in Waiters : waiter[w] = "woken"}

(* The notification that nobody has taken yet counts too.                  *)
NotesInv ==
    /\ notifies \in Nat
    /\ waiter \in [Waiters -> {"idle", "waiting", "woken", "timedOut"}]
    /\ Cardinality(Woken) <= notifies
    /\ notified => Cardinality(Woken) < notifies

LEMMA WokenFinite == IsFiniteSet(Woken) /\ Cardinality(Woken) \in Nat
<1>1. Woken \subseteq Waiters
    BY DEF Woken
<1> QED BY <1>1, HelpersAssumption, FS_Subset, FS_CardinalityType

LEMMA NotesStep ==
    ASSUME NotesInv, NoteNext
    PROVE  NotesInv'
<1>0. Cardinality(Woken) \in Nat
    BY WokenFinite
<1>1. CASE Notify
    <2>1. Woken' = Woken /\ notified' = TRUE /\ notifies' = notifies + 1 /\ waiter' = waiter
        BY <1>1 DEF Notify, Woken
    <2>2. Cardinality(Woken) <= notifies
        BY <1>0 DEF NotesInv
    <2> QED BY <1>0, <2>1, <2>2 DEF NotesInv
<1>2. CASE Reset
    <2>1. Woken' = Woken /\ ~notified' /\ UNCHANGED <<waiter, notifies>>
        BY <1>2 DEF Reset, Woken
    <2>2. Cardinality(Woken) <= notifies
        BY <1>0 DEF NotesInv
    <2> QED BY <1>0, <2>1, <2>2 DEF NotesInv
<1>3. ASSUME NEW w \in Waiters, Wait(w) \/ TimeOut(w) PROVE NotesInv'
    <2>1. /\ UNCHANGED <<notified, notifies>> /\ waiter[w] \in {"idle", "waiting"}
          /\ \E p \in {"waiting", "timedOut"} : waiter' = [waiter EXCEPT ![w] = p]
        BY <1>3 DEF Wait, TimeOut
    <2>2. Woken' = Woken
        BY <2>1 DEF NotesInv, Woken
    <2>3. waiter' \in [Waiters -> {"idle", "waiting", "woken", "timedOut"}]
        BY <2>1 DEF NotesInv
    <2> QED BY <2>1, <2>2, <2>3 DEF NotesInv
<1>4. ASSUME NEW w \in Waiters, Wake(w) PROVE NotesInv'
    <2>1. /\ notified /\ ~notified' /\ notifies' = notifies /\ waiter[w] = "waiting"
          /\ waiter' = [waiter EXCEPT ![w] = "woken"]
        BY <1>4 DEF Wake, NotesInv
    <2>2. Woken' = Woken \cup {w} /\ w \notin Woken
        BY <2>1 DEF NotesInv, Woken
    <2>3. Cardinality(Woken') = Cardinality(Woken) + 1
        BY <2>2, WokenFinite, FS_AddElement
    <2>4. waiter' \in [Waiters -> {"idle", "waiting", "woken", "timedOut"}]
        BY <2>1 DEF NotesInv
    <2>5. Cardinality(Woken) + 1 <= notifies
        BY <1>0, <2>1 DEF NotesInv
    <2> QED BY <1>0, <2>1, <2>3, <2>4, <2>5 DEF NotesInv
<1> QED BY <1>1, <1>2, <1>3, <1>4 DEF NoteNext

LEMMA NotesKept ==
    ASSUME NotesInv, UNCHANGED noteVars
    PROVE  NotesInv'
BY DEF NotesInv, noteVars, Woken

LEMMA NotesStart ==
    ASSUME HelpersInit
    PROVE  NotesInv
<1>1. Woken = {}
    BY DEF HelpersInit, Woken
<1>2. Cardinality(Woken) = 0
    BY <1>1, FS_EmptySet
<1> QED BY <1>2 DEF HelpersInit, NotesInv

LEMMA NotesOne ==
    ASSUME NotesInv
    PROVE  OneWakeEach
<1>1. Cardinality(Woken) <= notifies
    BY WokenFinite DEF NotesInv
<1> QED BY <1>1 DEF OneWakeEach, Woken

-----------------------------------------------------------------------------
(* RateLimiter.                                                            *)

(* What n full buckets pay for, each overdrawn once, and what was refilled *)
(* up to the instant x.                                                    *)
Bucket == MaxTokens + ConsumeRate - 1
Budget(n, x) == n * Bucket + RefillRate * (x \div 2)

(* The time after which a user is forgotten, in halves of a second.        *)
Gap == 2 * (EvictAfter + 1)

UserLimits == [known : BOOLEAN, tokens : Int, lastRequest : Nat]

(* An entry that is within the budget of n buckets: what was paid for and  *)
(* what is left were granted when it was refilled last, and the last       *)
(* request that was allowed may have overdrawn.                            *)
Within(v, n) ==
    /\ v \in UserLimits /\ v.known = TRUE /\ v.lastRequest <= clock
    /\ allowed * ConsumeRate + v.tokens + ConsumeRate - 1 <= Budget(n, v.lastRequest)
    /\ allowed * ConsumeRate <= Budget(n, v.lastRequest)
    /\ n * Gap <= v.lastRequest + Gap

RateInv ==
    /\ clock \in Nat /\ allowed \in Nat /\ buckets \in Nat
    /\ user \in UserLimits /\ user.lastRequest <= clock
    /\ user.known = FALSE => allowed = 0 /\ buckets = 0
    /\ user.known = TRUE => Within(user, buckets)

LEMMA MinOfTwo ==
    ASSUME NEW a \in Int, NEW b \in Int
    PROVE  Min({a, b}) \in Int /\ Min({a, b}) <= a /\ Min({a, b}) <= b
           /\ (Min({a, b}) = a \/ Min({a, b}) = b)
<1>1. \E x \in {a, b} : \A y \in {a, b} : x <= y
    <2>1. CASE a <= b
        BY <2>1
    <2>2. CASE ~(a <= b)
        BY <2>2
    <2> QED BY <2>1, <2>2
<1>2. Min({a, b}) \in {a, b} /\ \A y \in {a, b} : Min({a, b}) <= y
    BY <1>1 DEF Min
<1> QED BY <1>2

(* The seconds that pass, truncated each time, are no more than all.       *)
LEMMA HalvesAdd ==
    ASSUME NEW a \in Nat, NEW b \in Nat, a <= b
    PROVE  /\ a \div 2 \in Nat /\ b \div 2 \in Nat /\ (b - a) \div 2 \in Nat
           /\ (a \div 2) + ((b - a) \div 2) <= b \div 2
OBVIOUS

LEMMA Amounts ==
    ASSUME NEW n \in Nat
    PROVE  /\ Bucket \in Nat /\ Gap \in Nat /\ n * Bucket \in Nat /\ n * Gap \in Nat
           /\ (n + 1) * Bucket = n * Bucket + Bucket /\ (n + 1) * Gap = n * Gap + Gap
<1>1. Bucket \in Nat /\ Gap \in Nat
    BY HelpersAssumption DEF Bucket, Gap
<1> QED BY <1>1

LEMMA BudgetGrows ==
    ASSUME NEW n \in Nat, NEW a \in Nat, NEW b \in Nat, a <= b
    PROVE  /\ Budget(n, a) \in Nat /\ Budget(n, b) \in Nat
           /\ Budget(n, a) + RefillRate * ((b - a) \div 2) <= Budget(n, b)
           /\ Budget(n, a) <= Budget(n, b)
           /\ Budget(n + 1, b) = Budget(n, b) + Bucket
<1>1. PICK p \in Nat, q \in Nat, d \in Nat :
          p = a \div 2 /\ q = b \div 2 /\ d = (b - a) \div 2 /\ p + d <= q
    BY HalvesAdd
<1>2. RefillRate \in Nat
    BY HelpersAssumption
<1>3. PICK e \in Nat : q = p + d + e
    <2>1. q - (p + d) \in Nat /\ q = p + d + (q - (p + d))
        BY <1>1
    <2> QED BY <2>1
<1>4. RefillRate * q = RefillRate * p + RefillRate * d + RefillRate * e
    BY <1>2, <1>3
<1>5. /\ RefillRate * p \in Nat /\ RefillRate * d \in Nat /\ RefillRate * e \in Nat
      /\ RefillRate * q \in Nat
    BY <1>1, <1>2, <1>3
<1>6. PICK g \in Nat, h \in Nat : g = n * Bucket /\ h = Bucket /\ (n + 1) * Bucket = g + h
    <2>1. n * Bucket \in Nat /\ Bucket \in Nat /\ (n + 1) * Bucket = n * Bucket + Bucket
        BY Amounts, Zenon
    <2> QED BY <2>1, Zenon
<1>7. /\ Budget(n, a) = g + RefillRate * p /\ Budget(n, b) = g + RefillRate * q
      /\ Budget(n + 1, b) = g + h + RefillRate * q
    BY <1>1, <1>6 DEF Budget
<1> QED BY <1>1, <1>4, <1>5, <1>6, <1>7

RateTypes == clock \in Nat /\ allowed \in Nat /\ buckets \in Nat /\ allowed * ConsumeRate \in Nat

LEMMA Paid ==
    ASSUME RateInv
    PROVE  RateTypes
BY HelpersAssumption DEF RateInv, RateTypes

(* The buckets that a request makes it.                                    *)
Granted == buckets + (IF Remembered THEN 0 ELSE 1)

(* A user who is new, for the first time or again, has a full bucket on    *)
(* top of what was granted before, and has been away for the gap.          *)
LEMMA CurrentWithin ==
    ASSUME RateInv
    PROVE  Granted \in Nat /\ Within(Current, Granted)
<1>0. RateTypes
    BY Paid
<1>1. user \in UserLimits /\ user.tokens \in Int /\ user.lastRequest \in Nat /\ user.lastRequest <= clock
    BY DEF RateInv, UserLimits
<1>2. CASE Remembered
    <2>1. Current = user /\ user.known = TRUE /\ Granted = buckets
        BY <1>0, <1>1, <1>2 DEF Current, Remembered, UserLimits, Granted, RateTypes
    <2> QED BY <1>0, <2>1 DEF RateInv, RateTypes
<1>3. CASE ~Remembered
    <2> DEFINE v == [known |-> TRUE, tokens |-> MaxTokens, lastRequest |-> clock]
    <2>0. clock <= clock
        BY <1>0 DEF RateTypes
    <2>1. Current = v /\ Granted = buckets + 1 /\ Granted \in Nat
        BY <1>0, <1>3 DEF Current, Granted, RateTypes
    <2>2. v \in UserLimits /\ v.known = TRUE /\ v.lastRequest = clock /\ v.tokens = MaxTokens
        BY <1>0, HelpersAssumption DEF UserLimits, RateTypes
    <2>3. allowed * ConsumeRate <= Budget(buckets, clock) /\ buckets * Gap <= clock
        <3>1. CASE user.known = FALSE
            <4>1. allowed = 0 /\ buckets = 0
                BY <3>1 DEF RateInv
            <4>2. allowed * ConsumeRate = 0 /\ buckets * Gap = 0
                BY <4>1, HelpersAssumption, Amounts
            <4>3. Budget(buckets, clock) \in Nat
                BY <1>0, <2>0, BudgetGrows, Zenon DEF RateTypes
            <4> QED BY <1>0, <4>2, <4>3 DEF RateTypes
        <3>2. CASE user.known = TRUE
            <4>1. PICK l \in Nat : l = user.lastRequest /\ l <= clock
                BY <1>1
            <4>2. PICK d \in Nat : d = (clock - l) \div 2 /\ d > EvictAfter
                <5>1. Elapsed(user) = (clock - l) \div 2 /\ (clock - l) \div 2 \in Nat
                    BY <1>0, <4>1 DEF Elapsed, RateTypes
                <5>2. ~(Elapsed(user) <= EvictAfter)
                    BY <1>3, <3>2 DEF Remembered
                <5> QED BY <5>1, <5>2, HelpersAssumption
            <4>3. l + Gap <= clock
                BY <1>0, <4>1, <4>2, HelpersAssumption DEF RateTypes, Gap
            <4>4. Budget(buckets, l) <= Budget(buckets, clock) /\ Budget(buckets, l) \in Nat
                  /\ Budget(buckets, clock) \in Nat
                BY <1>0, <4>1, BudgetGrows DEF RateTypes
            <4>5. allowed * ConsumeRate <= Budget(buckets, l) /\ buckets * Gap <= l + Gap
                BY <3>2, <4>1 DEF RateInv, Within
            <4>6. PICK g \in Nat, h \in Nat : g = buckets * Gap /\ h = Gap
                BY <1>0, Amounts DEF RateTypes
            <4> QED BY <1>0, <4>3, <4>4, <4>5, <4>6 DEF RateTypes
        <3> QED BY <1>1, <3>1, <3>2 DEF UserLimits
    <2>4. PICK b \in Nat : b = Budget(buckets, clock) /\ Budget(buckets + 1, clock) = b + Bucket
        BY <1>0, <2>0, BudgetGrows, Zenon DEF RateTypes
    <2>5. /\ allowed * ConsumeRate + MaxTokens + ConsumeRate - 1 <= Budget(Granted, clock)
          /\ allowed * ConsumeRate <= Budget(Granted, clock)
        <3>1. MaxTokens \in Nat /\ ConsumeRate \in Nat \ {0} /\ allowed * ConsumeRate \in Nat
            BY <1>0, HelpersAssumption DEF RateTypes
        <3> QED BY <2>1, <2>3, <2>4, <3>1 DEF Bucket
    <2>6. Granted * Gap <= clock + Gap
        <3>1. PICK g \in Nat, h \in Nat : g = buckets * Gap /\ h = Gap /\ (buckets + 1) * Gap = g + h
            BY <1>0, Amounts DEF RateTypes
        <3> QED BY <1>0, <2>1, <2>3, <3>1 DEF RateTypes
    <2>7. v.lastRequest <= clock
        BY <1>0, <2>2 DEF RateTypes
    <2> HIDE DEF v
    <2>8. Within(v, Granted)
        BY <2>2, <2>5, <2>6, <2>7 DEF Within
    <2> QED BY <2>1, <2>8
<1> QED BY <1>2, <1>3

LEMMA RefillWithin ==
    ASSUME RateTypes, NEW v, NEW n \in Nat, Within(v, n)
    PROVE  Within(RefillTokens(v), n)
<1>1. CASE ~(Elapsed(v) > 0)
    BY <1>1 DEF RefillTokens
<1>2. CASE Elapsed(v) > 0
    <2>1. PICK l \in Nat, tk \in Int : l = v.lastRequest /\ tk = v.tokens /\ l <= clock
        BY DEF Within, UserLimits
    <2>2. PICK d \in Nat : d = Elapsed(v) /\ d = (clock - l) \div 2
        BY <1>2, <2>1 DEF Elapsed, RateTypes
    <2>3. PICK r \in Nat : r = RefillRate * d
        BY HelpersAssumption
    <2>4. PICK x \in Int : x = tk + d * RefillRate /\ x = tk + r
        BY <2>3, HelpersAssumption
    <2>5. MaxTokens \in Int
        BY HelpersAssumption
    <2>6. PICK m \in Int : m = Min({MaxTokens, x}) /\ m <= x
        BY <2>5, MinOfTwo
    <2> DEFINE u == [v EXCEPT !.tokens = m, !.lastRequest = clock]
    <2>7. RefillTokens(v) = u
        BY <1>2, <2>1, <2>2, <2>4, <2>6 DEF RefillTokens
    <2>8. u \in UserLimits /\ u.known = TRUE /\ u.lastRequest = clock /\ u.tokens = m
        BY DEF Within, UserLimits, RateTypes
    <2>9. Budget(n, l) + r <= Budget(n, clock) /\ Budget(n, l) \in Nat /\ Budget(n, clock) \in Nat
        BY <2>1, <2>2, <2>3, BudgetGrows DEF RateTypes
    <2>10. /\ allowed * ConsumeRate + tk + ConsumeRate - 1 <= Budget(n, l)
           /\ allowed * ConsumeRate <= Budget(n, l) /\ n * Gap <= l + Gap
           /\ allowed * ConsumeRate \in Nat /\ ConsumeRate \in Nat
        BY <2>1, HelpersAssumption DEF Within, RateTypes
    <2>11. /\ allowed * ConsumeRate + m + ConsumeRate - 1 <= Budget(n, clock)
           /\ allowed * ConsumeRate <= Budget(n, clock)
        BY <2>4, <2>6, <2>9, <2>10
    <2>12. n * Gap <= clock + Gap
        <3>1. PICK g \in Nat, h \in Nat : g = n * Gap /\ h = Gap
            BY Amounts
        <3> QED BY <2>1, <2>10, <3>1 DEF RateTypes
    <2> HIDE DEF u
    <2>13. clock <= clock
        BY DEF RateTypes
    <2>14. Within(u, n)
        BY <2>8, <2>11, <2>12, <2>13 DEF Within
    <2> QED BY <2>7, <2>14
<1> QED BY <1>1, <1>2

LEMMA AllowKeepsRate ==
    ASSUME RateInv, AllowRequest
    PROVE  RateInv'
<1>0. RateTypes
    BY Paid
<1>1. PICK u : u = RefillTokens(Current)
    OBVIOUS
<1>2. PICK n \in Nat : n = Granted /\ Within(u, n)
    <2>1. PICK v : v = Current
        OBVIOUS
    <2> QED BY <1>0, <1>1, <2>1, CurrentWithin, RefillWithin
<1>3. /\ user' = [u EXCEPT !.tokens = @ - ConsumeRate] /\ clock' = clock /\ buckets' = n
      /\ allowed' = allowed + (IF u.tokens > 0 THEN 1 ELSE 0)
    BY <1>1, <1>2 DEF AllowRequest, Granted
<1>4. PICK l \in Nat, tk \in Int : l = u.lastRequest /\ tk = u.tokens /\ l <= clock
    BY <1>2 DEF Within, UserLimits
<1>5. PICK a \in Nat : a = allowed * ConsumeRate
    BY <1>0 DEF RateTypes
<1>6. PICK c \in Nat \ {0} : c = ConsumeRate
    BY HelpersAssumption
<1>7. PICK b \in Nat : b = Budget(n, l)
    BY BudgetGrows
<1>8. a + tk + c - 1 <= b /\ a <= b /\ n * Gap <= l + Gap
    BY <1>2, <1>4, <1>5, <1>6, <1>7 DEF Within
<1>9. /\ user' \in UserLimits /\ user'.known = TRUE /\ user'.lastRequest = l
      /\ user'.tokens = tk - c
    BY <1>2, <1>3, <1>4, <1>6 DEF Within, UserLimits
<1>10. /\ allowed' \in Nat
       /\ allowed' * ConsumeRate + (tk - c) + c - 1 <= b
       /\ allowed' * ConsumeRate <= b
    <2>1. CASE tk > 0
        <3>1. allowed' = allowed + 1 /\ allowed \in Nat
            BY <1>0, <1>3, <1>4, <2>1 DEF RateTypes
        <3>2. allowed' * ConsumeRate = a + c
            BY <1>5, <1>6, <3>1
        <3> QED BY <1>8, <2>1, <3>1, <3>2
    <2>2. CASE ~(tk > 0)
        <3>1. allowed' = allowed /\ allowed \in Nat
            BY <1>0, <1>3, <1>4, <2>2 DEF RateTypes
        <3>2. allowed' * ConsumeRate = a
            BY <1>5, <3>1
        <3> QED BY <1>8, <3>1, <3>2
    <2> QED BY <2>1, <2>2
<1>11. clock' \in Nat /\ user'.lastRequest <= clock'
    BY <1>0, <1>3, <1>4, <1>9 DEF RateTypes
<1>12. Within(user, buckets)'
    BY <1>3, <1>6, <1>7, <1>8, <1>9, <1>10, <1>11 DEF Within, Budget, Bucket, Gap
<1> QED BY <1>3, <1>9, <1>10, <1>11, <1>12 DEF RateInv

LEMMA TickKeepsRate ==
    ASSUME RateInv, clock' = clock + 1, UNCHANGED rateVars
    PROVE  RateInv'
<1>1. UNCHANGED <<user, allowed, buckets>>
    BY DEF rateVars
<1>2. clock' \in Nat /\ user'.lastRequest <= clock' /\ clock <= clock'
    BY <1>1 DEF RateInv, UserLimits
<1>3. user.known = TRUE => Within(user, buckets)'
    BY <1>1, <1>2 DEF RateInv, Within, Budget, Bucket, Gap
<1> QED BY <1>1, <1>2, <1>3 DEF RateInv

LEMMA RateKept ==
    ASSUME RateInv, UNCHANGED <<clock, rateVars>>
    PROVE  RateInv'
BY DEF RateInv, rateVars, Within, Budget, Bucket, Gap

LEMMA RateStart ==
    ASSUME HelpersInit
    PROVE  RateInv
BY DEF HelpersInit, RateInv, UserLimits

LEMMA RateBounded ==
    ASSUME RateInv
    PROVE  RateBound
<1>0. RateTypes /\ user \in UserLimits
    BY Paid DEF RateInv
<1>1. PICK l \in Nat : l = user.lastRequest /\ l <= clock
    BY DEF RateInv, UserLimits
<1>2. Budget(buckets, l) \in Nat /\ Budget(buckets, clock) \in Nat /\ Budget(buckets, l) <= Budget(buckets, clock)
    BY <1>0, <1>1, BudgetGrows DEF RateTypes
<1>3. PICK g \in Nat, h \in Nat : g = buckets * Gap /\ h = Gap
    BY <1>0, Amounts DEF RateTypes
<1>4. allowed * ConsumeRate <= Budget(buckets, clock) /\ g <= clock + h
    <2>1. CASE user.known = TRUE
        <3>1. allowed * ConsumeRate <= Budget(buckets, l) /\ g <= l + h
            BY <1>1, <1>3, <2>1 DEF RateInv, Within
        <3> QED BY <1>0, <1>1, <1>2, <1>3, <3>1 DEF RateTypes
    <2>2. CASE user.known = FALSE
        <3>1. allowed = 0 /\ buckets = 0
            BY <2>2 DEF RateInv
        <3>2. allowed * ConsumeRate = 0 /\ buckets * Gap = 0
            BY <3>1, HelpersAssumption, Amounts
        <3> QED BY <1>0, <1>2, <1>3, <3>2 DEF RateTypes
    <2> QED BY <1>0, <2>1, <2>2 DEF UserLimits
<1> QED BY <1>3, <1>4 DEF RateBound, Budget, Bucket, Gap

-----------------------------------------------------------------------------
(* The backoff.                                                            *)

(* Options are sanitized whenever they are set, and the current delay is   *)
(* cut down to a new maximum.                                              *)
Sane(o) ==
    /\ o.initial \in Nat /\ o.max \in Nat /\ o.jitter \in Nat
    /\ 1 <= o.initial /\ o.initial <= o.max

WaitInv == Sane(options) /\ current \in Nat /\ current <= options.max

LEMMA SanitizeSane ==
    ASSUME NEW o \in Options
    PROVE  Sane(Sanitize(o))
<1>1. o.initial \in Int /\ o.max \in Int /\ o.jitter \in Int
    <2>1. Delays \cup {-1} \subseteq Int
        BY HelpersAssumption
    <2>2. /\ o.initial \in Delays \cup {-1} /\ o.max \in Delays \cup {-1}
          /\ o.jitter \in Delays \cup {-1}
        BY DEF Options
    <2> QED BY <2>1, <2>2
<1> QED BY <1>1 DEF Sanitize, Sane

LEMMA SumsOrdered ==
    ASSUME NEW n \in Nat, NEW i \in Nat, NEW m \in Nat, NEW k \in Nat, 1 <= n, n <= m, i <= k
    PROVE  n + i >= 1 /\ n + i <= m + k
OBVIOUS

LEMMA NextDelayBounds ==
    ASSUME WaitInv, NextDelay
    PROVE  /\ current' \in Nat /\ current' >= current /\ current' <= options.max /\ current' >= 1
           /\ delay' >= 1 /\ delay' <= options.max + options.jitter
<1>1. PICK m \in Nat, c \in Nat, j \in 0 .. options.jitter :
          /\ m = options.max /\ c = current /\ c <= m /\ delay' = current' + j
          /\ options.jitter \in Nat
    BY DEF WaitInv, Sane, NextDelay
<1>2. current' \in Nat /\ current' >= c /\ current' <= m /\ current' >= 1
    <2>1. CASE c <= 0
        BY <1>1, <2>1 DEF NextDelay, WaitInv, Sane
    <2>2. CASE ~(c <= 0)
        <3>1. PICK x \in Int : x = c * 2
            OBVIOUS
        <3>2. current' = Min({m, x})
            BY <1>1, <2>2, <3>1 DEF NextDelay
        <3>3. m \in Int
            OBVIOUS
        <3>4. (Min({m, x}) = m \/ Min({m, x}) = x) /\ Min({m, x}) <= m
            BY <3>3, MinOfTwo
        <3> QED BY <1>1, <2>2, <3>1, <3>2, <3>4
    <2> QED BY <2>1, <2>2
<1>3. PICK n \in Nat : n = current' /\ n >= c /\ n <= m /\ n >= 1
    BY <1>2
<1>4. PICK k \in Nat : k = options.jitter
    BY <1>1
<1>5. PICK i \in Nat : i = j /\ i <= k
    BY <1>4
<1>6. n + i >= 1 /\ n + i <= m + k
    BY <1>3, <1>5, SumsOrdered
<1> QED BY <1>1, <1>3, <1>4, <1>5, <1>6

LEMMA WaitStep ==
    ASSUME WaitInv, WaitNext
    PROVE  WaitInv'
<1>1. CASE NextDelay
    BY <1>1, NextDelayBounds DEF NextDelay, WaitInv
<1>2. CASE ResetDelay
    BY <1>2 DEF ResetDelay, WaitInv, Sane
<1>3. ASSUME NEW o \in Options, UpdateOptions(o) PROVE WaitInv'
    <2>1. options' = Sanitize(o) /\ current' = IF current > options'.max THEN options'.max ELSE current
        BY <1>3 DEF UpdateOptions
    <2>2. Sane(options')
        BY <2>1, SanitizeSane
    <2>3. PICK m \in Nat : m = options'.max
        BY <2>2 DEF Sane
    <2>4. current' \in Nat /\ current' <= m
        BY <2>1, <2>3 DEF WaitInv
    <2>5. Sane(options)'
        BY <2>2 DEF Sane
    <2> QED BY <2>3, <2>4, <2>5 DEF WaitInv
<1> QED BY <1>1, <1>2, <1>3 DEF WaitNext

LEMMA WaitKept ==
    ASSUME WaitInv, UNCHANGED waitVars
    PROVE  WaitInv'
BY DEF WaitInv, Sane, waitVars

LEMMA WaitStart ==
    ASSUME HelpersInit
    PROVE  WaitInv
<1>1. PICK o \in Options : options = Sanitize(o)
    BY DEF HelpersInit
<1>2. Sane(options)
    BY <1>1, SanitizeSane
<1> QED BY <1>2 DEF WaitInv, HelpersInit, Sane

-----------------------------------------------------------------------------
(* Log lines.                                                              *)

Marks == [w : Writers \cup {NoWriter}, k : {"endl", "prefix", "item"}]
Streams == [on : BOOLEAN, enabled : BOOLEAN, buffer : Seq(Marks), first : BOOLEAN]

(* b is what one writer has put into its buffer.                           *)
Line(w, b) ==
    b # <<>> => b[1] = Prefix(w) /\ \A i \in 2 .. Len(b) : b[i] = Item(w)

Buffered(w) ==
    /\ Line(w, stream[w].buffer)
    /\ stream[w].first = TRUE <=> stream[w].buffer = <<>>

(* Position i is in the line of w that begins after j.                     *)
InLine(i, j, w) ==
    /\ j = 0 \/ os[j] = EndLine
    /\ os[j + 1] = Prefix(w) /\ \A k \in j + 2 .. i : os[k] = Item(w)
    /\ (\A k \in i .. Len(os) : os[k] # EndLine) => flushing = w

LogInv ==
    /\ stream \in [Writers -> Streams] /\ \A w \in Writers : Buffered(w)
    /\ os \in Seq(Marks)
    /\ \A i \in 1 .. Len(os) : os[i] # EndLine =>
          \E w \in Writers, j \in 0 .. i - 1 : InLine(i, j, w)

LEMMA MarkFacts ==
    ASSUME NEW w \in Writers
    PROVE  /\ Prefix(w) \in Marks /\ Item(w) \in Marks /\ EndLine \in Marks
           /\ Prefix(w) # EndLine /\ Item(w) # EndLine
           /\ Prefix(w).w = w /\ Item(w).w = w /\ Prefix(w).k = "prefix" /\ Item(w).k = "item"
BY DEF Prefix, Item, EndLine, Marks

(* Nobody holds the mutex: the last line has its end.                      *)
LEMMA LineEnded ==
    ASSUME LogInv, flushing = NoWriter, os # <<>>
    PROVE  os[Len(os)] = EndLine
<1> SUFFICES ASSUME os[Len(os)] # EndLine PROVE FALSE
    OBVIOUS
<1>0. os \in Seq(Marks)
    BY DEF LogInv
<1>1. PICK n \in Nat : n = Len(os)
    BY <1>0
<1>2. n # 0
    BY <1>0, <1>1
<1>3. n \in 1 .. n /\ \A k \in n .. n : k = n
    BY <1>2
<1>4. PICK w \in Writers, j \in 0 .. n - 1 : InLine(n, j, w)
    <2>1. n \in 1 .. Len(os) /\ os[n] # EndLine
        BY <1>1, <1>3
    <2> QED BY <2>1 DEF LogInv
<1>5. \A k \in n .. Len(os) : os[k] # EndLine
    BY <1>1, <1>3
<1> QED BY <1>4, <1>5, LogAssumption DEF InLine

LEMMA LogStays ==
    ASSUME LogInv, UNCHANGED <<os, flushing>>, stream' \in [Writers -> Streams],
           \A w \in Writers : Buffered(w)'
    PROVE  LogInv'
BY DEF LogInv, InLine

LEMMA MakeKeepsLog ==
    ASSUME LogInv, NEW w \in Writers, NEW level, MakeStream(w, level)
    PROVE  LogInv'
<1>1. PICK s \in Streams : s.buffer = <<>> /\ s.first = TRUE /\ stream' = [stream EXCEPT ![w] = s]
    <2> DEFINE s(e) == [NoStream EXCEPT !.on = TRUE, !.enabled = e]
    <2>1. ASSUME NEW e \in BOOLEAN
          PROVE  s(e) \in Streams /\ s(e).buffer = <<>> /\ s(e).first = TRUE
        <3>1. NoStream \in Streams /\ NoStream.buffer = <<>> /\ NoStream.first = TRUE
            <4>1. <<>> \in Seq(Marks)
                OBVIOUS
            <4> QED BY <4>1 DEF NoStream, Streams
        <3> QED BY <3>1 DEF Streams
    <2>2. stream' = [stream EXCEPT ![w] = s(Shown(level))]
        BY DEF MakeStream
    <2>3. Shown(level) \in BOOLEAN
        BY DEF Shown
    <2>4. s(Shown(level)) \in Streams /\ s(Shown(level)).buffer = <<>> /\ s(Shown(level)).first = TRUE
        BY <2>1, <2>3
    <2> QED BY <2>2, <2>4
<1>2. stream' \in [Writers -> Streams]
    BY <1>1 DEF LogInv
<1>3. \A v \in Writers : Buffered(v)'
    BY <1>1 DEF LogInv, Buffered, Line
<1>4. UNCHANGED <<os, flushing>>
    BY DEF MakeStream
<1> QED BY <1>2, <1>3, <1>4, LogStays

LEMMA PutKeepsLog ==
    ASSUME LogInv, NEW w \in Writers, Put(w)
    PROVE  LogInv'
<1>0. UNCHANGED <<os, flushing>> /\ stream \in [Writers -> Streams] /\ stream[w] \in Streams
    BY DEF Put, LogInv
<1>1. CASE ~stream[w].enabled
    <2>1. stream' = stream
        BY <1>1 DEF Put
    <2> QED BY <1>0, <2>1, LogStays DEF LogInv, Buffered
<1>2. CASE stream[w].enabled
    <2>1. PICK b \in Seq(Marks), f \in BOOLEAN : b = stream[w].buffer /\ f = stream[w].first
        BY <1>0 DEF Streams
    <2>2. Line(w, b) /\ (f = TRUE <=> b = <<>>)
        BY <2>1 DEF LogInv, Buffered
    <2>3. PICK c : c = b \o (IF stream[w].first THEN <<Prefix(w)>> ELSE <<>>) \o <<Item(w)>>
        OBVIOUS
    <2>4. c \in Seq(Marks) /\ c # <<>> /\ Line(w, c)
        <3>1. CASE f = TRUE
            <4>1. b = <<>>
                BY <2>2, <3>1
            <4>2. c = <<>> \o <<Prefix(w)>> \o <<Item(w)>>
                BY <2>1, <2>3, <3>1, <4>1
            <4>3. PICK p \in Marks, t \in Marks : p = Prefix(w) /\ t = Item(w)
                BY MarkFacts
            <4>4. c = <<p>> \o <<t>>
                <5>1. <<p>> \in Seq(Marks)
                    OBVIOUS
                <5>2. <<>> \o <<p>> = <<p>>
                    BY <5>1
                <5> QED BY <4>2, <4>3, <5>2
            <4>5. c \in Seq(Marks) /\ Len(c) = 2 /\ c[1] = p /\ c[2] = t
                BY <4>4
            <4>6. c # <<>> /\ \A i \in 2 .. Len(c) : i = 2
                <5>1. Len(c) = 2
                    BY <4>5
                <5>2. Len(<<>>) = 0 /\ \A i \in 2 .. 2 : i = 2
                    OBVIOUS
                <5>3. c # <<>>
                    <6>1. c = <<>> => Len(c) = Len(<<>>)
                        BY Zenon
                    <6>2. Len(c) # Len(<<>>)
                        BY <5>1, <5>2
                    <6> QED BY <6>1, <6>2
                <5>4. \A i \in 2 .. Len(c) : i = 2
                    BY <5>1, <5>2
                <5> QED BY <5>3, <5>4
            <4> QED BY <4>3, <4>5, <4>6 DEF Line
        <3>2. CASE f = FALSE
            <4>1. b # <<>>
                BY <2>2, <3>2
            <4>2. c = b \o <<>> \o <<Item(w)>>
                BY <2>1, <2>3, <3>2
            <4>3. c = Append(b, Item(w))
                BY <4>2, MarkFacts
            <4>4. c \in Seq(Marks) /\ Len(c) = Len(b) + 1 /\ c[Len(b) + 1] = Item(w)
                  /\ \A i \in 1 .. Len(b) : c[i] = b[i]
                BY <4>3, MarkFacts
            <4>5. Len(b) \in Nat \ {0}
                BY <4>1
            <4> QED BY <2>2, <4>1, <4>4, <4>5 DEF Line
        <3> QED BY <3>1, <3>2
    <2>5. PICK s \in Streams : s.buffer = c /\ s.first = FALSE /\ stream' = [stream EXCEPT ![w] = s]
        <3> DEFINE s == [stream[w] EXCEPT !.buffer = c, !.first = FALSE]
        <3>1. s \in Streams /\ s.buffer = c /\ s.first = FALSE
            BY <1>0, <2>4 DEF Streams
        <3>2. stream' = [stream EXCEPT ![w] = s]
            BY <1>0, <1>2, <2>1, <2>3 DEF Put, Streams
        <3> QED BY <3>1, <3>2
    <2>6. stream' \in [Writers -> Streams] /\ stream'[w] = s
        BY <1>0, <2>5
    <2>7. Buffered(w)'
        BY <2>4, <2>5, <2>6 DEF Buffered
    <2>8. \A v \in Writers \ {w} : Buffered(v)'
        BY <1>0, <2>5 DEF LogInv, Buffered
    <2> QED BY <1>0, <2>6, <2>7, <2>8, LogStays
<1> QED BY <1>1, <1>2

LEMMA FlushKeepsLog ==
    ASSUME LogInv, NEW w \in Writers, Flush(w)
    PROVE  LogInv'
<1>1. flushing = NoWriter /\ flushing' = w /\ stream' = stream
    BY DEF Flush
<1>2. PICK b \in Seq(Marks) : b = stream[w].buffer /\ Line(w, b) /\ os' = os \o b
    BY DEF Flush, LogInv, Streams, Buffered
<1>3. PICK n \in Nat : n = Len(os)
    BY DEF LogInv
<1>4. PICK m \in Nat : m = Len(b)
    OBVIOUS
<1>5. /\ os' \in Seq(Marks) /\ Len(os') = n + m
      /\ \A i \in 1 .. n : os'[i] = os[i]
      /\ \A i \in 1 .. m : os'[n + i] = b[i]
    BY <1>2, <1>3, <1>4 DEF LogInv
<1>6. n = 0 \/ os'[n] = EndLine
    <2>1. CASE n = 0
        BY <2>1
    <2>2. CASE n # 0
        <3>1. os # <<>>
            BY <1>3, <2>2
        <3>2. os[n] = EndLine
            BY <1>1, <1>3, <3>1, LineEnded
        <3>3. n \in 1 .. n
            BY <2>2
        <3> QED BY <1>5, <3>2, <3>3
    <2> QED BY <2>1, <2>2
<1>7. ASSUME NEW i \in 1 .. Len(os'), os'[i] # EndLine
      PROVE  \E v \in Writers, j \in 0 .. i - 1 : InLine(i, j, v)'
    <2>1. CASE i <= n
        <3>1. os[i] # EndLine /\ i \in 1 .. Len(os)
            BY <1>3, <1>5, <1>7, <2>1
        <3>2. PICK v \in Writers, j \in 0 .. i - 1 : InLine(i, j, v)
            BY <3>1 DEF LogInv
        <3>3. j = 0 \/ os'[j] = EndLine
            BY <1>5, <2>1, <3>2 DEF InLine
        <3>4. os'[j + 1] = Prefix(v) /\ \A k \in j + 2 .. i : os'[k] = Item(v)
            BY <1>5, <2>1, <3>2 DEF InLine
        <3>5. n \in i .. Len(os') /\ os'[n] = EndLine
            BY <1>5, <1>6, <2>1
        <3> QED BY <3>3, <3>4, <3>5 DEF InLine
    <2>2. CASE ~(i <= n)
        <3>1. m \in Nat \ {0} /\ b # <<>>
            BY <1>4, <1>5, <2>2
        <3>2. b[1] = Prefix(w) /\ \A k \in 2 .. m : b[k] = Item(w)
            BY <1>2, <1>4, <3>1 DEF Line
        <3>3. os'[n + 1] = Prefix(w)
            BY <1>5, <3>1, <3>2
        <3>4. ASSUME NEW k \in n + 2 .. i PROVE os'[k] = Item(w)
            <4>1. PICK q \in 2 .. m : k = n + q
                <5>1. k - n \in 2 .. m /\ k = n + (k - n)
                    BY <1>5
                <5> QED BY <5>1
            <4>2. q \in 1 .. m
                OBVIOUS
            <4>3. os'[n + q] = b[q]
                BY <1>5, <4>2
            <4> QED BY <3>2, <4>1, <4>3
        <3>5. n \in 0 .. i - 1
            BY <2>2, <1>5
        <3>6. InLine(i, n, w)'
            BY <1>1, <1>6, <3>3, <3>4 DEF InLine
        <3> QED BY <3>5, <3>6
    <2> QED BY <2>1, <2>2
<1>8. stream' \in [Writers -> Streams] /\ \A v \in Writers : Buffered(v)'
    BY <1>1 DEF LogInv, Buffered
<1> QED BY <1>5, <1>7, <1>8 DEF LogInv

LEMMA EndKeepsLog ==
    ASSUME LogInv, NEW w \in Writers, EndFlush(w)
    PROVE  LogInv'
<1>1. PICK n \in Nat : n = Len(os)
    BY DEF LogInv
<1>2. /\ os' \in Seq(Marks) /\ Len(os') = n + 1 /\ os'[n + 1] = EndLine
      /\ \A i \in 1 .. n : os'[i] = os[i]
    <2>1. os \in Seq(Marks) /\ os' = Append(os, EndLine)
        BY DEF EndFlush, LogInv
    <2>2. EndLine \in Marks
        BY MarkFacts
    <2> QED BY <1>1, <2>1, <2>2
<1>3. ASSUME NEW i \in 1 .. Len(os'), os'[i] # EndLine
      PROVE  \E v \in Writers, j \in 0 .. i - 1 : InLine(i, j, v)'
    <2>1. i \in 1 .. n /\ os[i] # EndLine
        BY <1>2, <1>3
    <2>2. PICK v \in Writers, j \in 0 .. i - 1 : InLine(i, j, v)
        BY <1>1, <2>1 DEF LogInv
    <2>3. j = 0 \/ os'[j] = EndLine
        BY <1>2, <2>1, <2>2 DEF InLine
    <2>4. os'[j + 1] = Prefix(v) /\ \A k \in j + 2 .. i : os'[k] = Item(v)
        BY <1>2, <2>1, <2>2 DEF InLine
    <2>5. n + 1 \in i .. Len(os')
        BY <1>2, <2>1
    <2> QED BY <1>2, <2>3, <2>4, <2>5 DEF InLine
<1>4. stream' \in [Writers -> Streams] /\ \A v \in Writers : Buffered(v)'
    <2>1. PICK s \in Streams : s.buffer = <<>> /\ s.first = TRUE /\ stream' = [stream EXCEPT ![w] = s]
        <3> DEFINE s == [stream[w] EXCEPT !.buffer = <<>>, !.first = TRUE]
        <3>0. stream[w] \in Streams
            BY DEF LogInv
        <3>1. s \in Streams /\ s.buffer = <<>> /\ s.first = TRUE
            <4>1. <<>> \in Seq(Marks)
                OBVIOUS
            <4>2. \A c \in Seq(Marks) : [stream[w] EXCEPT !.buffer = c, !.first = TRUE] \in Streams
                BY <3>0 DEF Streams
            <4>3. s.buffer = <<>> /\ s.first = TRUE
                BY <3>0 DEF Streams
            <4> QED BY <4>1, <4>2, <4>3
        <3>2. stream' = [stream EXCEPT ![w] = s]
            BY DEF EndFlush, LogInv, Streams
        <3> QED BY <3>1, <3>2
    <2>2. stream' \in [Writers -> Streams]
        BY <2>1 DEF LogInv
    <2>3. \A v \in Writers : Buffered(v)'
        BY <2>1 DEF LogInv, Buffered, Line
    <2> QED BY <2>2, <2>3
<1> QED BY <1>2, <1>3, <1>4 DEF LogInv

LEMMA LogStep ==
    ASSUME LogInv, LogNext
    PROVE  LogInv'
<1>1. PICK w \in Writers :
          (\E i \in DOMAIN Levels : MakeStream(w, Levels[i])) \/ Put(w) \/ Flush(w) \/ EndFlush(w)
    BY DEF LogNext
<1>2. CASE \E i \in DOMAIN Levels : MakeStream(w, Levels[i])
    <2>1. PICK level : MakeStream(w, level)
        BY <1>2
    <2> QED BY <2>1, MakeKeepsLog
<1> QED BY <1>1, <1>2, PutKeepsLog, FlushKeepsLog, EndKeepsLog

LEMMA LogKept ==
    ASSUME LogInv, UNCHANGED logVars
    PROVE  LogInv'
<1>1. UNCHANGED <<stream, flushing, os>>
    BY DEF logVars
<1> QED BY <1>1, LogStays DEF LogInv, Buffered

LEMMA LogStarts ==
    ASSUME LogInit
    PROVE  LogInv
<1>1. NoStream \in Streams /\ NoStream.buffer = <<>> /\ NoStream.first = TRUE
    <2>1. <<>> \in Seq(Marks)
        OBVIOUS
    <2> QED BY <2>1 DEF NoStream, Streams
<1>2. stream = [w \in Writers |-> NoStream] /\ os = <<>>
    BY DEF LogInit
<1>3. stream \in [Writers -> Streams] /\ \A w \in Writers : Buffered(w)
    BY <1>1, <1>2 DEF Buffered, Line
<1> QED BY <1>2, <1>3 DEF LogInv

(* The end before position i is the j of its line.                         *)
LEMMA LogWhole ==
    ASSUME LogInv
    PROVE  LinesWhole
<1> DEFINE ends == {0} \cup {i \in DOMAIN os : os[i] = EndLine}
           from(i) == CHOOSE j \in ends : j < i /\ \A k \in ends : k < i => k <= j
<1>0. os \in Seq(Marks) /\ DOMAIN os = 1 .. Len(os) /\ Len(os) \in Nat
    BY DEF LogInv
<1>1. ASSUME NEW i \in 1 .. Len(os), os[i] # EndLine
      PROVE  /\ os[i].k = "prefix" <=> from(i) = i - 1
             /\ os[i].w = os[from(i) + 1].w
             /\ (\A k \in ends : k < i) => flushing = os[i].w
    <2>1. PICK w \in Writers, j \in 0 .. i - 1 : InLine(i, j, w)
        BY <1>1 DEF LogInv
    <2>2. j = 0 \/ os[j] = EndLine
        BY <2>1 DEF InLine
    <2>3. os[j + 1] = Prefix(w) /\ \A k \in j + 2 .. i : os[k] = Item(w)
        BY <2>1 DEF InLine
    <2>4. j \in ends /\ j < i
        <3>1. j = 0 \/ j \in 1 .. Len(os)
            BY <1>0
        <3> QED BY <1>0, <2>2, <3>1
    <2>5. ASSUME NEW k \in ends, k < i PROVE k <= j
        <3>1. SUFFICES ASSUME ~(k <= j) PROVE FALSE
            OBVIOUS
        <3>2. k \in Nat
            BY <1>0
        <3>3. k # 0 /\ os[k] = EndLine
            BY <1>0, <3>1, <3>2
        <3>4. k = j + 1 \/ k \in j + 2 .. i
            BY <2>5, <3>1, <3>2
        <3>5. os[k] = Prefix(w) \/ os[k] = Item(w)
            BY <2>3, <3>4
        <3> QED BY <3>3, <3>5, MarkFacts
    <2>6. from(i) = j
        <3>1. \A l \in ends : (l < i /\ \A k \in ends : k < i => k <= l) => l = j
            <4>1. \A l \in ends : l \in Nat
                BY <1>0
            <4> QED BY <2>4, <2>5, <4>1
        <3> HIDE DEF ends
        <3> QED BY <2>4, <2>5, <3>1
    <2> HIDE DEF from
    <2>7. os[i].w = w /\ (os[i].k = "prefix" <=> j = i - 1)
        <3>1. CASE i = j + 1
            <4>1. os[i] = Prefix(w)
                BY <2>3, <3>1
            <4>2. os[i].w = w /\ os[i].k = "prefix"
                BY <4>1, MarkFacts
            <4> QED BY <3>1, <4>2
        <3>2. CASE i # j + 1
            <4>1. i \in j + 2 .. i
                BY <3>2
            <4>2. os[i] = Item(w)
                BY <2>3, <4>1
            <4>3. os[i].w = w /\ os[i].k = "item"
                BY <4>2, MarkFacts
            <4> QED BY <3>2, <4>3
        <3> QED BY <3>1, <3>2
    <2>8. os[j + 1].w = w
        BY <2>3, MarkFacts
    <2>9. (\A k \in ends : k < i) => flushing = w
        <3>1. SUFFICES ASSUME \A k \in ends : k < i PROVE \A k \in i .. Len(os) : os[k] # EndLine
            BY <2>1 DEF InLine
        <3>2. ASSUME NEW k \in i .. Len(os), os[k] = EndLine PROVE FALSE
            <4>1. k \in 1 .. Len(os) /\ ~(k < i)
                BY <1>0
            <4>2. k \in ends
                BY <1>0, <3>2, <4>1
            <4> QED BY <3>1, <4>1, <4>2
        <3> QED BY <3>2
    <2> QED BY <2>6, <2>7, <2>8, <2>9
<1> QED BY <1>0, <1>1 DEF LinesWhole

-----------------------------------------------------------------------------
(* All helpers.                                                            *)

TimedInv == TasksInv /\ RateInv /\ NotesInv /\ WaitInv

HelpersInv == WorkersInv /\ TimedInv /\ LogInv

LEMMA TickKeeps ==
    ASSUME TimedInv, ClockTick
    PROVE  TimedInv'
BY TickKeepsTasks, TickKeepsRate, NotesKept, WaitKept DEF TimedInv, ClockTick

LEMMA TimedStep ==
    ASSUME TimedInv, RateNext \/ TaskNext \/ NoteNext \/ WaitNext
    PROVE  TimedInv'
<1>1. CASE ClockTick
    BY <1>1, TickKeeps
<1>2. CASE AllowRequest
    <2>1. UNCHANGED <<clock, taskVars, noteVars, waitVars>>
        BY <1>2 DEF AllowRequest
    <2> QED BY <1>2, <2>1, AllowKeepsRate, TasksKept, NotesKept, WaitKept DEF TimedInv
<1>3. ASSUME NEW t \in Tasks, IsRunningOrMark(t) \/ Unmark(t) PROVE TimedInv'
    <2>1. UNCHANGED <<clock, rateVars, noteVars, waitVars>>
        BY <1>3 DEF IsRunningOrMark, Unmark
    <2>2. TasksInv'
        BY <1>3, MarkKeepsTasks, UnmarkKeepsTasks DEF TimedInv
    <2> QED BY <2>1, <2>2, RateKept, NotesKept, WaitKept DEF TimedInv
<1>4. CASE NoteNext
    <2>1. UNCHANGED <<clock, rateVars, taskVars, waitVars>>
        BY <1>4 DEF NoteNext, Notify, Reset, Wait, Wake, TimeOut
    <2> QED BY <1>4, <2>1, NotesStep, RateKept, TasksKept, WaitKept DEF TimedInv
<1>5. CASE WaitNext
    <2>1. UNCHANGED <<clock, rateVars, taskVars, noteVars>>
        BY <1>5 DEF WaitNext, NextDelay, ResetDelay, UpdateOptions
    <2> QED BY <1>5, <2>1, WaitStep, RateKept, TasksKept, NotesKept DEF TimedInv
<1> QED BY <1>1, <1>2, <1>3, <1>4, <1>5 DEF RateNext, TaskNext

LEMMA TimedKept ==
    ASSUME TimedInv, UNCHANGED helperVars
    PROVE  TimedInv'
BY TasksKept, RateKept, NotesKept, WaitKept DEF TimedInv, helperVars

LEMMA HelpersStart == MCInit => HelpersInv
BY WorkersStart, TasksStart, RateStart, NotesStart, WaitStart, LogStarts
DEF MCInit, HelpersInv, TimedInv

LEMMA HelpersStep == HelpersInv /\ [MCNext]_allVars => HelpersInv'
<1> SUFFICES ASSUME HelpersInv, [MCNext]_allVars PROVE HelpersInv'
    OBVIOUS
<1>0. WorkersInv /\ TimedInv /\ LogInv
    BY DEF HelpersInv
<1>1. CASE WorkersNext /\ UNCHANGED <<helperVars, logVars>>
    BY <1>0, <1>1, WorkersStep, TimedKept, LogKept DEF HelpersInv
<1>2. CASE (RateNext \/ TaskNext \/ NoteNext \/ WaitNext) /\ UNCHANGED <<workerVars, logVars>>
    BY <1>0, <1>2, WorkersKept, TimedStep, LogKept DEF HelpersInv
<1>3. CASE LogNext /\ UNCHANGED <<workerVars, helperVars>>
    BY <1>0, <1>3, WorkersKept, TimedKept, LogStep DEF HelpersInv
<1>4. CASE UNCHANGED allVars
    <2>1. UNCHANGED workerVars /\ UNCHANGED helperVars /\ UNCHANGED logVars
        BY <1>4 DEF allVars
    <2> QED BY <1>0, <2>1, WorkersKept, TimedKept, LogKept DEF HelpersInv
<1> QED BY <1>1, <1>2, <1>3, <1>4 DEF MCNext

LEMMA HelpersInvariant == MCSpec => []HelpersInv
BY HelpersStart, HelpersStep, PTL DEF MCSpec

(* ~IoContextManager: if the owner stopped it, no worker is left when the  *)
(* members are destroyed, however many workers there are, whoever called   *)
(* stop() in between and whichever handlers threw.                         *)
THEOREM MembersOutliveWorkers == MCSpec => []DestroyedQuiet
<1>1. HelpersInv => DestroyedQuiet
    BY WorkersQuiet DEF HelpersInv
<1> QED BY <1>1, HelpersInvariant, PTL

(* TaskDeduplicator runs one task of a key unless one outlived its time to *)
(* live, a notification wakes one waiter, and lines of the log are whole.  *)
THEOREM ExclusiveAlways == MCSpec => []Exclusive
<1>1. HelpersInv => Exclusive
    BY TasksOne, NotesOne, LogWhole DEF HelpersInv, TimedInv, Exclusive
<1> QED BY <1>1, HelpersInvariant, PTL

(* RateLimiter allows no more than the refills and a full bucket for each  *)
(* time the user is new pay for, whatever the rates are and however soon   *)
(* users are forgotten, and every delay of the backoff is within the       *)
(* options in force.                                                       *)
THEOREM LimitsAlwaysKept == MCSpec => LimitsKept
<1>1. HelpersInv => RateBound
    BY RateBounded DEF HelpersInv, TimedInv
<1>2. HelpersInv => DelayBounded
    BY NextDelayBounds DEF HelpersInv, TimedInv, DelayBounded
<1> QED BY <1>1, <1>2, HelpersInvariant, PTL DEF LimitsKept
=============================================================================
