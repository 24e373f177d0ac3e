------------------------------ MODULE Aggregate ------------------------------
(***************************************************************************)
(* What collecting N results promises: IOs end one by one, each once, and  *)
(* the answer is given once, with an error only after a failure (if        *)
(* failures count) and with the results only after all have ended well.    *)
(***************************************************************************)
EXTENDS Integers

CONSTANTS N, FirstErrorWins

VARIABLES
    ended,  \* how each IO ended
    calls,
    answer

Init ==
    /\ ended = [i \in 1..N |-> "none"]
    /\ \/ calls = 0 /\ answer = "none"
       \/ N = 0 /\ calls = 1 /\ answer = "ok"    \* nothing to wait for

End(i) ==
    /\ ended[i] = "none"
    /\ \E r \in {"ok", "err"} : ended' = [ended EXCEPT ![i] = r]
    /\ UNCHANGED <<calls, answer>>

Answer(r) ==
    /\ answer = "none"
    /\ calls' = 1
    /\ answer' = r
    /\ UNCHANGED ended

AnswerOk ==
    /\ \A i \in 1..N : IF FirstErrorWins THEN ended[i] = "ok" ELSE ended[i] # "none"
    /\ Answer("ok")

AnswerError ==
    /\ FirstErrorWins
    /\ \E i \in 1..N : ended[i] = "err"
    /\ Answer("err")

Next ==
    \/ \E i \in 1..N : End(i)
    \/ AnswerOk
    \/ AnswerError

Spec == Init /\ [][Next]_<<ended, calls, answer>>
=============================================================================
