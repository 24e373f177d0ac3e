------------------------------ MODULE MCCollect ------------------------------
(***************************************************************************)
(* Collecting the results of N IOs, in parallel (CollectParallel) or one   *)
(* after another (SequentialIO).  The variables of the one that is not     *)
(* running keep one initial value.                                         *)
(***************************************************************************)
EXTENDS CollectParallel

VARIABLES part, kind, res, voids, idx, where, frames, keep, values, told, result

S == INSTANCE SequentialIO WITH pc <- where, out <- values, calls <- told, answer <- result

sequenceVars == <<kind, res, voids, idx, where, frames, keep, values, told, result>>
allVars == <<part, vars, sequenceVars>>

MCInit ==
    /\ Init /\ S!Init
    /\ part \in {"parallel", "sequence"}
    /\ part # "sequence" => kind = "collect" /\ res = [i \in Items |-> "ok"]

OfParallel(act) == part = "parallel" /\ act /\ UNCHANGED <<part, sequenceVars>>
OfSequence(act) == part = "sequence" /\ act /\ UNCHANGED <<part, vars>>

MCNext == OfParallel(Next) \/ OfSequence(S!Next)

(* As in FairSpec and S!Spec; every run is finite, so that fairness need   *)
(* not tell the steps apart.                                               *)
MCSpec ==
    /\ MCInit /\ [][MCNext]_allVars
    /\ WF_allVars(OfParallel(Next)) /\ WF_allVars(OfSequence(S!Next))

-----------------------------------------------------------------------------
(* Collecting ends in a call of the continuation: in parallel however the  *)
(* callbacks race, in sequence because the step closure outlives the calls *)
(* that started an asynchronous IO.                                        *)
CollectAnswered ==
    (part = "parallel" => EventuallyCalled) /\ (part = "sequence" => S!Answered)

(* SequentialIO: the values of collect_io, zip_io and the others keep the  *)
(* order of the IOs and stop at the first error.                           *)
OrderKept == S!OrderKept

(* SequentialIO: running in sequence keeps the promise of Aggregate.       *)
SequenceImplements == S!Implements
=============================================================================
