------------------------- MODULE SequentialIO_proofs -------------------------
(***************************************************************************)
(* Proofs about the IOs that run one after another (SequentialIO, here as  *)
(* the instance S of MCCollect), for every number N of IOs, all five       *)
(* combinators and every mix of outcomes and of void slots.                *)
(*                                                                         *)
(* Neither property is inductive: that a value lies beyond an error is     *)
(* excluded only because everything collected so far comes from the first  *)
(* idx IOs and all of those ended well.  SequenceInv says so.              *)
(***************************************************************************)
EXTENDS MCCollect, Sequences, TLAPS

SequenceTypes ==
    /\ kind \in S!Kinds /\ res \in [S!Items -> {"ok", "err"}] /\ voids \in SUBSET S!Items
    /\ idx \in 0 .. N /\ where \in {"step", "running", "ended", "over", "lost"}
    /\ values \in Seq(Int) /\ told \in {0, 1} /\ result \in {"none", "ok", "err"}

\* What has been collected comes from the first idx IOs, in order.
Collecting ==
    /\ \A a \in DOMAIN values : values[a] \in 1 .. idx
    /\ \A a, b \in DOMAIN values : a < b => values[a] < values[b]
    /\ \A i \in 1 .. idx :
          /\ ~S!Fails(i)
          /\ (\E a \in DOMAIN values : values[a] = i) <=> (i \notin voids /\ kind # "all_ok")

\* An IO is run only where one is left, and the answer ends the sequence.
Answering ==
    /\ where \in {"running", "ended"} => idx < N
    /\ result = "none" => where # "over" /\ told = 0
    /\ result # "none" => where = "over" /\ told = 1
    /\ result = "ok" => idx = N
    /\ result = "err" => idx < N /\ S!Fails(idx + 1)

SequenceInv == SequenceTypes /\ Collecting /\ Answering

-----------------------------------------------------------------------------
LEMMA SequenceStarts == S!Init => SequenceInv
<1> SUFFICES ASSUME S!Init PROVE SequenceInv
    OBVIOUS
<1>1. N \in Nat
    BY CollectAssumption
<1>2. voids \in SUBSET S!Items
    BY DEF S!Init
<1>3. SequenceTypes
    BY <1>1, <1>2 DEF S!Init, SequenceTypes
<1>4. Collecting
    BY <1>1 DEF S!Init, Collecting
<1>5. Answering
    BY DEF S!Init, Answering
<1> QED
    BY <1>3, <1>4, <1>5 DEF SequenceInv

LEMMA SequenceStepHolds == SequenceInv /\ S!Step => SequenceInv'
<1> SUFFICES ASSUME SequenceInv, S!Step PROVE SequenceInv'
    OBVIOUS
<1> USE CollectAssumption
<1>1. /\ where = "step" /\ UNCHANGED <<kind, res, voids, idx, values>>
      /\ \/ idx >= N /\ result' = "ok" /\ told' = told + 1 /\ where' = "over"
         \/ idx < N /\ where' = "running" /\ UNCHANGED <<told, result>>
    BY DEF S!Step, S!Call, SequenceInv, SequenceTypes
<1>2. result = "none" /\ told = 0
    BY <1>1 DEF SequenceInv, SequenceTypes, Answering
<1>3. SequenceTypes'
    BY <1>1, <1>2 DEF SequenceInv, SequenceTypes
<1>4. Collecting'
    BY <1>1 DEF SequenceInv, Collecting, S!Fails
<1>5. Answering'
    BY <1>1, <1>2 DEF SequenceInv, SequenceTypes, Answering
<1> QED
    BY <1>3, <1>4, <1>5 DEF SequenceInv

LEMMA SequenceCallbackHolds == SequenceInv /\ S!Callback => SequenceInv'
<1> SUFFICES ASSUME SequenceInv, S!Callback PROVE SequenceInv'
    OBVIOUS
<1> USE CollectAssumption
<1>1. where = "ended" /\ UNCHANGED <<kind, res, voids>>
    BY DEF S!Callback
<1>2. result = "none" /\ told = 0 /\ idx \in 0 .. N /\ idx < N /\ values \in Seq(Int)
    BY <1>1 DEF SequenceInv, SequenceTypes, Answering
<1>3. CASE S!Fails(idx + 1)
    <2>1. /\ result' = "err" /\ told' = told + 1 /\ where' = "over"
          /\ UNCHANGED <<values, idx>>
        BY <1>3 DEF S!Callback, S!Call
    <2>2. SequenceTypes'
        BY <1>1, <1>2, <2>1 DEF SequenceInv, SequenceTypes
    <2>3. Collecting'
        BY <1>1, <2>1 DEF SequenceInv, Collecting, S!Fails
    <2>4. Answering'
        BY <1>1, <1>2, <1>3, <2>1 DEF Answering, S!Fails
    <2> QED
        BY <2>2, <2>3, <2>4 DEF SequenceInv
<1>4. CASE ~S!Fails(idx + 1)
    <2>1. /\ values' = S!Collected(idx + 1) /\ idx' = idx + 1
          /\ where' \in {"step", "lost"} /\ UNCHANGED <<told, result>>
        BY <1>4 DEF S!Callback
    <2>2. idx' \in 0 .. N /\ 1 .. idx' = (1 .. idx) \cup {idx + 1} /\ idx + 1 \notin 1 .. idx
        BY <1>2, <2>1
    <2>3. values' \in Seq(Int)
        BY <1>2, <2>1 DEF S!Collected
    <2>4. SequenceTypes'
        BY <1>1, <1>2, <2>1, <2>2, <2>3 DEF SequenceInv, SequenceTypes
    <2>5. Answering'
        BY <1>1, <1>2, <2>1 DEF Answering
    <2>6. \A i \in 1 .. idx' : ~S!Fails(i)'
        BY <1>1, <1>4, <2>2 DEF SequenceInv, Collecting, S!Fails
    <2>7. CASE kind = "all_ok" \/ idx + 1 \in voids
        <3>1. values' = values
            BY <2>1, <2>7 DEF S!Collected
        <3>2. \A a \in DOMAIN values : values[a] \in 1 .. idx
            BY DEF SequenceInv, Collecting
        <3>3. \A i \in 1 .. idx' :
                (\E a \in DOMAIN values' : values'[a] = i) <=> (i \notin voids /\ kind # "all_ok")
            BY <2>2, <2>7, <3>1, <3>2 DEF SequenceInv, Collecting
        <3>4. Collecting'
            BY <1>1, <2>2, <2>6, <3>1, <3>2, <3>3 DEF SequenceInv, Collecting
        <3> QED
            BY <2>4, <2>5, <3>4 DEF SequenceInv
    <2>8. CASE kind # "all_ok" /\ idx + 1 \notin voids
        <3>1. values' = Append(values, idx + 1)
            BY <2>1, <2>8 DEF S!Collected
        <3>2. /\ Len(values) \in Nat /\ DOMAIN values = 1 .. Len(values)
              /\ DOMAIN values' = 1 .. (Len(values) + 1)
              /\ \A a \in DOMAIN values : a \in DOMAIN values' /\ values'[a] = values[a]
              /\ Len(values) + 1 \in DOMAIN values' /\ values'[Len(values) + 1] = idx + 1
            BY <1>2, <3>1
        <3>3. \A a \in DOMAIN values : values[a] \in 1 .. idx
            BY DEF SequenceInv, Collecting
        <3>4. \A a \in DOMAIN values' : a \in DOMAIN values \/ a = Len(values) + 1
            BY <3>2
        <3>5. \A a \in DOMAIN values' : values'[a] \in 1 .. idx'
            BY <2>2, <3>2, <3>3, <3>4
        <3>6. \A a, b \in DOMAIN values' : a < b => values'[a] < values'[b]
            <4> SUFFICES ASSUME NEW a \in DOMAIN values', NEW b \in DOMAIN values', a < b
                         PROVE  values'[a] < values'[b]
                OBVIOUS
            <4>1. a \in DOMAIN values
                BY <3>2
            <4>2. CASE b \in DOMAIN values
                BY <3>2, <4>1, <4>2 DEF SequenceInv, Collecting
            <4>3. CASE b = Len(values) + 1
                <5>1. values'[a] \in 1 .. idx /\ values'[b] = idx + 1
                    BY <3>2, <3>3, <4>1, <4>3
                <5> QED
                    BY <1>2, <5>1
            <4> QED
                BY <3>4, <4>2, <4>3
        <3>7. \A i \in 1 .. idx' :
                (\E a \in DOMAIN values' : values'[a] = i) <=> (i \notin voids /\ kind # "all_ok")
            <4>1. ASSUME NEW i \in 1 .. idx
                  PROVE  (\E a \in DOMAIN values' : values'[a] = i) <=> (i \notin voids /\ kind # "all_ok")
                <5>1. i # idx + 1
                    BY <1>2, <4>1
                <5>2. (\E a \in DOMAIN values' : values'[a] = i) <=> (\E a \in DOMAIN values : values[a] = i)
                    BY <3>2, <3>4, <5>1
                <5> QED
                    BY <5>2 DEF SequenceInv, Collecting
            <4>2. (\E a \in DOMAIN values' : values'[a] = idx + 1) <=> (idx + 1 \notin voids /\ kind # "all_ok")
                BY <2>8, <3>2
            <4> QED
                BY <2>2, <4>1, <4>2
        <3>8. Collecting'
            BY <1>1, <2>6, <3>5, <3>6, <3>7 DEF Collecting
        <3> QED
            BY <2>4, <2>5, <3>8 DEF SequenceInv
    <2> QED
        BY <2>7, <2>8
<1> QED
    BY <1>3, <1>4

LEMMA SequenceInductive == S!Spec => []SequenceInv
<1>1. ASSUME SequenceInv, [S!Next]_S!vars
      PROVE  SequenceInv'
    <2> USE CollectAssumption
    <2>1. CASE S!IoEnds
        <3>1. where = "running" /\ where' = "ended"
              /\ UNCHANGED <<kind, res, voids, idx, values, told, result>>
            BY <2>1 DEF S!IoEnds
        <3>2. SequenceTypes' /\ Answering'
            BY <1>1, <3>1 DEF SequenceInv, SequenceTypes, Answering, S!Fails
        <3>3. Collecting'
            BY <1>1, <3>1 DEF SequenceInv, Collecting, S!Fails
        <3> QED
            BY <3>2, <3>3 DEF SequenceInv
    <2>2. CASE S!FrameReturns \/ UNCHANGED S!vars
        <3>1. UNCHANGED <<kind, res, voids, idx, where, values, told, result>>
            BY <2>2 DEF S!FrameReturns, S!vars
        <3> QED
            BY <1>1, <3>1 DEF SequenceInv, SequenceTypes, Collecting, Answering, S!Fails
    <2> QED
        BY <1>1, <2>1, <2>2, SequenceStepHolds, SequenceCallbackHolds DEF S!Next
<1> QED
    BY <1>1, SequenceStarts, PTL DEF S!Spec

-----------------------------------------------------------------------------
\* The values come in the order of the IOs, one for each that has a value,
\* and none from beyond an error, however many IOs and whatever the combinator.
THEOREM SequenceOrdered == S!Spec => []OrderKept
<1>1. SequenceInv => OrderKept
    <2> SUFFICES ASSUME SequenceInv PROVE OrderKept
        OBVIOUS
    <2> USE CollectAssumption
    <2>1. \A a, b \in DOMAIN values : a < b => values[a] < values[b]
        BY DEF SequenceInv, Collecting
    <2>2. result = "ok" => S!Items = 1 .. idx
        BY DEF SequenceInv, Answering, S!Items
    <2>3. result = "ok" => \A i \in S!Items :
            (\E a \in DOMAIN values : values[a] = i) <=> (i \notin voids /\ kind # "all_ok")
        BY <2>2 DEF SequenceInv, Collecting
    <2>4. \A a \in DOMAIN values : \A i \in 1 .. values[a] : ~S!Fails(i)
        <3> SUFFICES ASSUME NEW a \in DOMAIN values, NEW i \in 1 .. values[a]
                     PROVE  ~S!Fails(i)
            OBVIOUS
        <3>1. values[a] \in 1 .. idx /\ idx \in 0 .. N
            BY DEF SequenceInv, SequenceTypes, Collecting
        <3>2. i \in 1 .. idx
            BY <3>1
        <3> QED
            BY <3>2 DEF SequenceInv, Collecting
    <2> QED
        BY <2>1, <2>3, <2>4 DEF OrderKept, S!OrderKept
<1> QED
    BY <1>1, SequenceInductive, PTL

-----------------------------------------------------------------------------
(***************************************************************************)
(* Refinement: an IO that ends is an End step of the IO after the first    *)
(* idx, the answer an Answer step.  The callback of an IO that ended well  *)
(* moves it from "the one that just ended" into the first idx: a stutter.  *)
(***************************************************************************)
EndedIOs ==
    [i \in S!Items |-> IF i <= idx \/ (i = idx + 1 /\ (where = "ended" \/ result = "err"))
                       THEN IF S!Fails(i) THEN "err" ELSE "ok" ELSE "none"]

LEMMA SequenceAnswerStep ==
    ASSUME SequenceInv, [S!Next]_S!vars
    PROVE  S!A!Next \/ UNCHANGED <<EndedIOs, told, result>>
<1> USE CollectAssumption
<1>1. /\ idx \in 0 .. N /\ where \in {"step", "running", "ended", "over", "lost"}
      /\ Answering /\ \A i \in 1 .. idx : ~S!Fails(i)
    BY DEF SequenceInv, SequenceTypes, Collecting
<1>2. CASE S!Step
    <2>1. where = "step" /\ result = "none" /\ told = 0 /\ UNCHANGED <<kind, res, idx>>
        BY <1>1, <1>2 DEF S!Step, Answering
    <2>2. CASE idx >= N
        <3>1. result' = "ok" /\ told' = 1 /\ where' = "over"
            BY <1>2, <2>1, <2>2 DEF S!Step, S!Call
        <3>2. EndedIOs' = EndedIOs
            BY <2>1, <3>1 DEF EndedIOs, S!Fails, S!Items
        <3>3. \A i \in 1 .. N : EndedIOs[i] = "ok"
            BY <1>1, <2>2 DEF EndedIOs, S!Items
        <3> QED
            BY <2>1, <3>1, <3>2, <3>3 DEF S!A!Next, S!A!AnswerOk, S!A!Answer, EndedIOs
    <2>3. CASE ~(idx >= N)
        <3>1. where' = "running" /\ UNCHANGED <<told, result>>
            BY <1>2, <2>3 DEF S!Step
        <3>2. EndedIOs' = EndedIOs
            BY <2>1, <3>1 DEF EndedIOs, S!Fails, S!Items
        <3> QED
            BY <3>1, <3>2
    <2> QED
        BY <2>2, <2>3
<1>3. CASE S!IoEnds
    <2>1. /\ where = "running" /\ where' = "ended" /\ UNCHANGED <<kind, res, idx, told, result>>
        BY <1>3 DEF S!IoEnds
    <2>2. idx + 1 \in 1 .. N /\ result = "none"
        BY <1>1, <2>1 DEF Answering
    <2>3. EndedIOs[idx + 1] = "none"
        BY <1>1, <2>1, <2>2 DEF EndedIOs, S!Items
    <2>4. EndedIOs' = [EndedIOs EXCEPT ![idx + 1] = IF S!Fails(idx + 1) THEN "err" ELSE "ok"]
        BY <1>1, <2>1, <2>2 DEF EndedIOs, S!Items, S!Fails
    <2>5. \E e \in {"ok", "err"} : EndedIOs' = [EndedIOs EXCEPT ![idx + 1] = e]
        BY <2>4
    <2> QED
        BY <2>1, <2>2, <2>3, <2>5 DEF S!A!Next, S!A!End, EndedIOs
<1>4. CASE S!Callback
    <2>1. /\ where = "ended" /\ UNCHANGED <<kind, res>>
          /\ result = "none" /\ told = 0 /\ idx + 1 \in 1 .. N
        BY <1>1, <1>4 DEF S!Callback, Answering
    <2>2. CASE S!Fails(idx + 1)
        <3>1. result' = "err" /\ told' = 1 /\ where' = "over" /\ idx' = idx
            BY <1>4, <2>1, <2>2 DEF S!Callback, S!Call
        <3>2. EndedIOs' = EndedIOs
            BY <2>1, <3>1 DEF EndedIOs, S!Fails, S!Items
        <3>3. EndedIOs[idx + 1] = "err"
            BY <2>1, <2>2 DEF EndedIOs, S!Items
        <3> QED
            BY <2>1, <3>1, <3>2, <3>3 DEF S!A!Next, S!A!AnswerError, S!A!Answer, EndedIOs
    <2>3. CASE ~S!Fails(idx + 1)
        <3>1. idx' = idx + 1 /\ where' \in {"step", "lost"} /\ UNCHANGED <<told, result>>
            BY <1>4, <2>3 DEF S!Callback
        <3>2. EndedIOs' = EndedIOs
            BY <1>1, <2>1, <3>1 DEF EndedIOs, S!Fails, S!Items
        <3> QED
            BY <3>1, <3>2
    <2> QED
        BY <2>2, <2>3
<1>5. CASE S!FrameReturns \/ UNCHANGED S!vars
    BY <1>5 DEF S!FrameReturns, S!vars, EndedIOs, S!Fails, S!Items
<1> QED
    BY <1>2, <1>3, <1>4, <1>5 DEF S!Next

\* collect_io, collect_result_io, all_ok_io, zip_io and zip_io_skip_void implement
\* the promise stated in Aggregate, no IO at all included.
THEOREM SequenceImplementsAggregate == S!Spec => SequenceImplements
<1>1. S!Init => S!A!Init
    <2> SUFFICES ASSUME S!Init PROVE S!A!Init
        OBVIOUS
    <2>1. EndedIOs = [i \in 1 .. N |-> "none"]
        BY CollectAssumption DEF S!Init, EndedIOs, S!Items
    <2> QED
        BY <2>1 DEF S!Init, S!A!Init, EndedIOs
<1>2. SequenceInv /\ [S!Next]_S!vars => [S!A!Next]_<<EndedIOs, told, result>>
    BY SequenceAnswerStep
<1> QED
    BY <1>1, <1>2, SequenceInductive, PTL DEF S!Spec, SequenceImplements, S!Implements, S!A!Spec, EndedIOs
=============================================================================
