------------------------------ MODULE MCHelpers ------------------------------
(* One helper at a time.                                                   *)
EXTENDS IoWorkers, Helpers, LogLines

VARIABLE part

allVars == <<part, workerVars, helperVars, logVars>>

MCInit ==
    /\ WorkersInit /\ HelpersInit /\ LogInit
    /\ part \in {"workers", "rate", "tasks", "notes", "wait", "log"}
    /\ part # "wait" => options = Sanitize([initial |-> 0, max |-> 0, jitter |-> 0])

MCNext ==
    /\ UNCHANGED part
    /\ \/ part = "workers" /\ WorkersNext /\ UNCHANGED <<helperVars, logVars>>
       \/ part = "rate" /\ RateNext /\ UNCHANGED <<workerVars, logVars>>
       \/ part = "tasks" /\ TaskNext /\ UNCHANGED <<workerVars, logVars>>
       \/ part = "notes" /\ NoteNext /\ UNCHANGED <<workerVars, logVars>>
       \/ part = "wait" /\ WaitNext /\ UNCHANGED <<workerVars, logVars>>
       \/ part = "log" /\ LogNext /\ UNCHANGED <<workerVars, helperVars>>

OfWorkers(act) == part = "workers" /\ act /\ UNCHANGED <<part, helperVars, logVars>>

(* Threads are scheduled.                                                  *)
MCSpec ==
    /\ MCInit /\ [][MCNext]_allVars
    /\ WF_allVars(OfWorkers(Stop)) /\ \A w \in Workers : WF_allVars(OfWorkers(Loop(w)))

-----------------------------------------------------------------------------
(* RateLimiter and ExponentialBackoff keep to their limits: a user gets no *)
(* more than the refills and a bucket for each time of being new, and a    *)
(* delay stays within the options.                                         *)
LimitsKept == [][RateBound' /\ DelayBounded]_helperVars

(* What is exclusive stays so: one deduplicated task runs at a time, one   *)
(* waiter wakes for a notification, and lines of the log are not mixed.    *)
Exclusive == OneTask /\ OneWakeEach /\ LinesWhole
=============================================================================
