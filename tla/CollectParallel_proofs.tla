----------------------- MODULE CollectParallel_proofs -----------------------
(***************************************************************************)
(* CollectParallel calls its continuation exactly as Aggregate allows, for *)
(* every number of IOs and every chunk size.                               *)
(***************************************************************************)
EXTENDS CollectParallel, FiniteSetTheorems, TLAPS

(***************************************************************************)
(* The inductive invariant.  remaining counts the items of the chunk that  *)
(* have not passed fetch_sub: a callback that quits early never counts     *)
(* down, so zero is reached only if all of them succeeded.                 *)
(***************************************************************************)
Counted == {i \in Items : pc[i] \in {"last", "counted"}}

LoopInv ==
    /\ 1 <= lo /\ lo <= next /\ next <= lo + Concurrency
    /\ \A i \in Items : i >= next <=> pc[i] = "idle"
    /\ \A i \in Items : i < lo => pc[i] = "counted"

ItemInv ==
    /\ \A i \in Items : pc[i] \in {"idle", "running"} <=> out[i] = "none"
    /\ \A i \in Items : pc[i] \in {"stored", "last", "counted"}
                            => i \in slot /\ (FirstErrorWins => out[i] = "ok")
    /\ \A i \in Items : pc[i] = "quit" => FirstErrorWins

CountInv ==
    /\ remaining = Cardinality(Chunk(lo) \ Counted)
    /\ \A i \in Items : pc[i] = "last" => remaining = 0
    /\ \A i, j \in Items : pc[i] = "last" /\ pc[j] = "last" => i = j

AnswerInv ==
    /\ N = 0 => calls = 1 /\ answer = "ok"
    /\ N # 0 => \/ ~done /\ calls = 0 /\ answer = "none"
                \/ done /\ calls = 1 /\ answer \in {"ok", "err"}
    /\ N # 0 /\ answer = "err" => \E i \in Items : pc[i] = "quit" /\ out[i] = "err"
    /\ N # 0 /\ answer = "ok" => \A i \in Items : pc[i] = "counted"

CollectInv == TypeOK /\ LoopInv /\ ItemInv /\ CountInv /\ AnswerInv

LEMMA ChunkFinite ==
    ASSUME NEW l \in Nat
    PROVE  /\ IsFiniteSet(Chunk(l))
           /\ Cardinality(Chunk(l)) \in Nat
           /\ Cardinality(Chunk(l)) <= Concurrency
<1>1. Chunk(l) \subseteq l .. l + Concurrency - 1
    BY CollectAssumption DEF Chunk, Items
<1>2. /\ IsFiniteSet(l .. l + Concurrency - 1)
      /\ Cardinality(l .. l + Concurrency - 1) = Concurrency
    BY CollectAssumption, FS_Interval
<1> QED
    BY <1>1, <1>2, FS_Subset, FS_CardinalityType

\* When an item of the chunk is past fetch_sub with nothing left to count, all
\* items of the chunk are past it.
LEMMA LastIsLast ==
    ASSUME CollectInv, NEW i \in Items, pc[i] = "last"
    PROVE  Chunk(lo) \subseteq Counted
<1>1. IsFiniteSet(Chunk(lo) \ Counted)
    BY ChunkFinite, FS_Subset DEF CollectInv, TypeOK
<1>2. Cardinality(Chunk(lo) \ Counted) = 0
    BY DEF CollectInv, CountInv
<1> QED
    BY <1>1, <1>2, FS_EmptySet

LEMMA LastUndone ==
    ASSUME CollectInv, NEW i \in Items, pc[i] = "last"
    PROVE  ~done /\ calls = 0 /\ answer = "none" /\ N # 0
<1>1. N # 0
    BY CollectAssumption DEF Items
<1>2. answer # "ok"
    BY <1>1 DEF CollectInv, AnswerInv
<1>3. answer # "err"
    <2> SUFFICES ASSUME NEW j \in Items, pc[j] = "quit" PROVE FALSE
        BY <1>1 DEF CollectInv, AnswerInv
    <2>1. j \notin Counted
        BY DEF Counted
    <2>2. j >= lo
        BY DEF CollectInv, LoopInv, TypeOK, Items
    <2>3. j < lo + Concurrency
        BY CollectAssumption DEF CollectInv, LoopInv, TypeOK, Items
    <2> QED
        BY <2>1, <2>2, <2>3, LastIsLast DEF Chunk
<1> QED
    BY <1>1, <1>2, <1>3 DEF CollectInv, AnswerInv

LEMMA CollectInit == Init => CollectInv
<1> SUFFICES ASSUME Init PROVE CollectInv
    OBVIOUS
<1> USE CollectAssumption
<1>1. done \in BOOLEAN /\ ~done
    BY Zenon DEF Init
<1>2. Counted = {}
    BY DEF Init, Counted
<1>3. remaining = Cardinality(Chunk(lo) \ Counted)
    BY <1>2 DEF Init
<1>4. remaining \in Nat
    BY ChunkFinite DEF Init
<1>5. TypeOK
    BY <1>1, <1>4 DEF Init, TypeOK, Pcs
<1>6. LoopInv /\ ItemInv
    BY DEF Init, LoopInv, ItemInv, Items
<1>7. CountInv
    BY <1>3 DEF Init, CountInv
<1>8. AnswerInv
    BY <1>1 DEF Init, AnswerInv, Items
<1> QED
    BY <1>5, <1>6, <1>7, <1>8 DEF CollectInv

-----------------------------------------------------------------------------
(***************************************************************************)
(* Steps that neither count down nor answer leave CountInv and AnswerInv   *)
(* alone.                                                                  *)
(***************************************************************************)
LEMMA CountKept ==
    ASSUME CollectInv, NEW i \in Items, NEW where \in Pcs \ {"last", "counted"},
           pc[i] \notin {"last", "counted"}, Goto(i, where),
           UNCHANGED <<lo, remaining>>
    PROVE  CountInv'
<1>1. pc' = [pc EXCEPT ![i] = where] /\ pc \in [Items -> Pcs]
    BY DEF Goto, CollectInv, TypeOK
<1>2. \A j \in Items : pc'[j] \in {"last", "counted"} <=> pc[j] \in {"last", "counted"}
    BY <1>1
<1>3. Counted' = Counted
    BY <1>2 DEF Counted
<1>4. \A j \in Items : pc'[j] = "last" => pc[j] = "last"
    BY <1>1
<1> QED
    BY <1>3, <1>4 DEF CollectInv, CountInv, Chunk

LEMMA StepStart ==
    ASSUME CollectInv, Start
    PROVE  CollectInv'
<1> USE CollectAssumption
<1>1. next \in Items /\ next >= lo /\ next < lo + Concurrency /\ pc[next] = "idle"
    BY DEF Start, Chunk, CollectInv, LoopInv, TypeOK
<1>2. /\ pc' = [pc EXCEPT ![next] = "running"] /\ next' = next + 1
      /\ UNCHANGED <<lo, out, slot, remaining, done, calls, answer>>
    BY DEF Start, Goto
<1>3. TypeOK'
    BY <1>1, <1>2 DEF CollectInv, TypeOK, Pcs
<1>4. LoopInv'
    BY <1>1, <1>2 DEF CollectInv, TypeOK, LoopInv, Items
<1>5. ItemInv'
    BY <1>1, <1>2 DEF CollectInv, TypeOK, ItemInv
<1>6. CountInv'
    BY <1>1, CountKept DEF Start, Pcs
<1>7. AnswerInv'
    BY <1>1, <1>2 DEF CollectInv, TypeOK, AnswerInv
<1> QED
    BY <1>3, <1>4, <1>5, <1>6, <1>7 DEF CollectInv

LEMMA StepComplete ==
    ASSUME CollectInv, NEW i \in Items, NEW r \in {"ok", "err"}, Complete(i, r)
    PROVE  CollectInv'
<1> USE CollectAssumption
<1> DEFINE where == IF FirstErrorWins /\ done THEN "quit" ELSE "checked"
<1>1. /\ pc[i] = "running"
      /\ pc' = [pc EXCEPT ![i] = where]
      /\ out' = [out EXCEPT ![i] = r]
      /\ UNCHANGED <<lo, next, slot, remaining, done, calls, answer>>
    BY DEF Complete, Goto
<1>2. where \in {"quit", "checked"} /\ (where = "quit" => FirstErrorWins)
    OBVIOUS
<1>3. CountInv'
    BY <1>1, <1>2, CountKept DEF Complete, Pcs
<1> HIDE DEF where
<1>4. TypeOK'
    BY <1>1, <1>2 DEF CollectInv, TypeOK, Pcs
<1>5. LoopInv'
    BY <1>1, <1>2 DEF CollectInv, TypeOK, LoopInv, Items
<1>6. ItemInv'
    BY <1>1, <1>2 DEF CollectInv, TypeOK, ItemInv
<1>7. AnswerInv'
    BY <1>1, <1>2 DEF CollectInv, TypeOK, AnswerInv
<1> QED
    BY <1>3, <1>4, <1>5, <1>6, <1>7 DEF CollectInv

LEMMA StepReportError ==
    ASSUME CollectInv, NEW i \in Items, ReportError(i)
    PROVE  CollectInv'
<1> USE CollectAssumption
<1>1. /\ pc[i] = "checked" /\ FirstErrorWins /\ out[i] = "err"
      /\ pc' = [pc EXCEPT ![i] = "quit"]
      /\ UNCHANGED <<lo, next, out, slot, remaining>>
    BY DEF ReportError, Goto
<1>2. \/ done /\ UNCHANGED <<done, calls, answer>>
      \/ ~done /\ done' = TRUE /\ calls' = calls + 1 /\ answer' = "err"
    BY DEF ReportError, Call
<1>3. CountInv'
    BY CountKept DEF ReportError, Pcs
<1>4. TypeOK'
    <2>1. done' \in BOOLEAN
        BY <1>2 DEF CollectInv, TypeOK
    <2> QED
        BY <1>1, <1>2, <2>1 DEF CollectInv, TypeOK, Pcs
<1>5. LoopInv'
    BY <1>1 DEF CollectInv, TypeOK, LoopInv, Items
<1>6. ItemInv'
    BY <1>1 DEF CollectInv, TypeOK, ItemInv
<1>7. N # 0
    BY DEF Items
<1>8. AnswerInv'
    <2>1. CASE done /\ UNCHANGED <<done, calls, answer>>
        BY <1>1, <1>7, <2>1 DEF CollectInv, TypeOK, AnswerInv
    <2>2. CASE ~done /\ done' = TRUE /\ calls' = calls + 1 /\ answer' = "err"
        <3>1. calls' = 1
            BY <1>7, <2>2 DEF CollectInv, AnswerInv
        <3>2. pc'[i] = "quit" /\ out'[i] = "err"
            BY <1>1 DEF CollectInv, TypeOK
        <3> QED
            BY <1>7, <2>2, <3>1, <3>2 DEF AnswerInv
    <2> QED
        BY <1>2, <2>1, <2>2
<1> QED
    BY <1>3, <1>4, <1>5, <1>6, <1>8 DEF CollectInv

LEMMA StepStore ==
    ASSUME CollectInv, NEW i \in Items, Store(i)
    PROVE  CollectInv'
<1> USE CollectAssumption
<1>1. /\ pc[i] = "checked"
      /\ out[i] = "ok" \/ ~FirstErrorWins
      /\ slot' = slot \cup {i}
      /\ pc' = [pc EXCEPT ![i] = "stored"]
      /\ UNCHANGED <<lo, next, out, remaining, done, calls, answer>>
    BY DEF Store, Goto
<1>2. CountInv'
    BY CountKept DEF Store, Pcs
<1>3. TypeOK'
    BY <1>1 DEF CollectInv, TypeOK, Pcs
<1>4. LoopInv'
    BY <1>1 DEF CollectInv, TypeOK, LoopInv, Items
<1>5. ItemInv'
    BY <1>1 DEF CollectInv, TypeOK, ItemInv
<1>6. AnswerInv'
    BY <1>1 DEF CollectInv, TypeOK, AnswerInv
<1> QED
    BY <1>2, <1>3, <1>4, <1>5, <1>6 DEF CollectInv

LEMMA StepCountDown ==
    ASSUME CollectInv, NEW i \in Items, CountDown(i)
    PROVE  CollectInv'
<1> USE CollectAssumption
<1> DEFINE where == IF remaining = 1 THEN "last" ELSE "counted"
           U == Chunk(lo) \ Counted
<1>1. /\ pc[i] = "stored"
      /\ remaining' = remaining - 1
      /\ pc' = [pc EXCEPT ![i] = where]
      /\ UNCHANGED <<lo, next, out, slot, done, calls, answer>>
    BY DEF CountDown, Goto
<1>2. where \in {"last", "counted"} /\ (where = "last" <=> remaining = 1)
    OBVIOUS
<1>3. i \in U
    BY <1>1 DEF CollectInv, LoopInv, TypeOK, Items, Chunk, Counted
<1>4. IsFiniteSet(U)
    BY ChunkFinite, FS_Subset DEF CollectInv, TypeOK
<1>5. Cardinality(U \ {i}) = Cardinality(U) - 1 /\ Cardinality(U \ {i}) \in Nat
    BY <1>3, <1>4, FS_RemoveElement, FS_CardinalityType
<1>6. (Chunk(lo) \ Counted)' = U \ {i}
    <2>1. Counted' = Counted \cup {i}
        BY <1>1, <1>2 DEF CollectInv, TypeOK, Counted
    <2> QED
        BY <1>1, <2>1 DEF Chunk
<1>7. remaining = Cardinality(U)
    BY DEF CollectInv, CountInv
<1>8. \A j \in Items : pc[j] # "last"
    BY <1>5, <1>7 DEF CollectInv, CountInv
<1> HIDE DEF where, U
<1>9. CountInv'
    <2>1. remaining' = Cardinality((Chunk(lo) \ Counted)')
        BY <1>1, <1>5, <1>6, <1>7
    <2>2. \A j \in Items : pc'[j] = "last" => j = i /\ remaining = 1
        BY <1>1, <1>2, <1>8 DEF CollectInv, TypeOK
    <2>3. \A j \in Items : pc'[j] = "last" => remaining' = 0
        BY <1>1, <2>2
    <2> QED
        BY <2>1, <2>2, <2>3 DEF CountInv
<1>10. TypeOK'
    BY <1>1, <1>2, <1>5, <1>7 DEF CollectInv, TypeOK, Pcs
<1>11. LoopInv'
    BY <1>1, <1>2 DEF CollectInv, TypeOK, LoopInv, Items
<1>12. ItemInv'
    BY <1>1, <1>2 DEF CollectInv, TypeOK, ItemInv
<1>13. AnswerInv'
    BY <1>1, <1>2 DEF CollectInv, TypeOK, AnswerInv
<1> QED
    BY <1>9, <1>10, <1>11, <1>12, <1>13 DEF CollectInv

LEMMA StepFinalize ==
    ASSUME CollectInv, NEW i \in Items, Finalize(i)
    PROVE  CollectInv'
<1> USE CollectAssumption
<1>1. /\ pc[i] = "last"
      /\ pc' = [pc EXCEPT ![i] = "counted"]
      /\ UNCHANGED <<out, slot>>
    BY DEF Finalize, Goto
<1>2. ~done /\ calls = 0 /\ answer = "none" /\ N # 0
    BY <1>1, LastUndone
<1>3. \/ /\ lo + Concurrency > N
         /\ done' = TRUE /\ calls' = calls + 1 /\ answer' = "ok"
         /\ UNCHANGED <<lo, next, remaining>>
      \/ /\ lo + Concurrency <= N
         /\ lo' = lo + Concurrency
         /\ remaining' = Cardinality(Chunk(lo + Concurrency))
         /\ done' = FALSE
         /\ UNCHANGED <<next, calls, answer>>
    BY <1>2 DEF Finalize, Call, CollectInv, TypeOK
<1>4. \A j \in Items : lo <= j /\ j < lo + Concurrency => pc[j] \in {"last", "counted"}
    BY <1>1, LastIsLast DEF Chunk, Counted
<1>5. \A j \in Items : pc[j] = "last" => j = i
    BY <1>1 DEF CollectInv, CountInv
<1>6. \A j \in Items : j < lo + Concurrency => pc'[j] = "counted"
    BY <1>1, <1>4, <1>5 DEF CollectInv, TypeOK, LoopInv, Items
<1>7. Counted' = Counted
    BY <1>1 DEF CollectInv, TypeOK, Counted
<1>8. \A j \in Items : pc'[j] # "last"
    BY <1>1, <1>5 DEF CollectInv, TypeOK
<1>9. ItemInv'
    BY <1>1 DEF CollectInv, TypeOK, ItemInv
<1>10. CASE lo + Concurrency > N /\ done' = TRUE /\ calls' = calls + 1 /\ answer' = "ok"
            /\ UNCHANGED <<lo, next, remaining>>
    <2>1. done' \in BOOLEAN /\ done'
        BY <1>10, Zenon
    <2>2. TypeOK'
        BY <1>1, <1>10, <2>1 DEF CollectInv, TypeOK, Pcs
    <2>3. LoopInv'
        BY <1>1, <1>10 DEF CollectInv, TypeOK, LoopInv, Items
    <2>4. CountInv'
        BY <1>7, <1>8, <1>10 DEF CollectInv, CountInv, Chunk
    <2>5. \A j \in Items : pc'[j] = "counted"
        BY <1>6, <1>10 DEF CollectInv, TypeOK, Items
    <2>6. calls' = 1
        BY <1>2, <1>10
    <2>7. AnswerInv'
        BY <1>2, <1>10, <2>1, <2>5, <2>6 DEF AnswerInv
    <2> QED
        BY <1>9, <2>2, <2>3, <2>4, <2>7 DEF CollectInv
<1>11. CASE lo + Concurrency <= N /\ lo' = lo + Concurrency
            /\ remaining' = Cardinality(Chunk(lo + Concurrency))
            /\ done' = FALSE /\ UNCHANGED <<next, calls, answer>>
    <2>1. done' \in BOOLEAN /\ ~done'
        BY <1>11, Zenon
    <2>2. next = lo + Concurrency
        <3>1. lo + Concurrency - 1 \in Items
            BY <1>11 DEF CollectInv, TypeOK, LoopInv, Items
        <3>2. pc[lo + Concurrency - 1] # "idle"
            BY <1>4, <3>1 DEF CollectInv, TypeOK, LoopInv
        <3> QED
            BY <3>1, <3>2 DEF CollectInv, TypeOK, LoopInv
    <2>3. remaining' \in Nat
        BY <1>11, ChunkFinite DEF CollectInv, TypeOK
    <2>4. TypeOK'
        BY <1>1, <1>11, <2>1, <2>3 DEF CollectInv, TypeOK, Pcs
    <2>5. LoopInv'
        BY <1>1, <1>6, <1>11, <2>2 DEF CollectInv, TypeOK, LoopInv, Items
    <2>6. \A j \in Items : lo' <= j => j \notin Counted
        BY <1>11, <2>2 DEF CollectInv, LoopInv, Counted
    <2>7. Chunk(lo') \ Counted' = Chunk(lo')
        BY <1>7, <2>6 DEF Chunk
    <2>8. CountInv'
        BY <1>8, <1>11, <2>7 DEF CountInv, Chunk
    <2>9. AnswerInv'
        BY <1>2, <1>11, <2>1 DEF AnswerInv
    <2> QED
        BY <1>9, <2>4, <2>5, <2>8, <2>9 DEF CollectInv
<1> QED
    BY <1>3, <1>10, <1>11

LEMMA CollectStep == CollectInv /\ [Next]_vars => CollectInv'
<1> SUFFICES ASSUME CollectInv, [Next]_vars PROVE CollectInv'
    OBVIOUS
<1>1. CASE UNCHANGED vars
    BY <1>1 DEF vars, CollectInv, TypeOK, LoopInv, ItemInv, CountInv, AnswerInv, Counted, Chunk
<1> QED
    BY <1>1, StepStart, StepComplete, StepReportError, StepStore, StepCountDown, StepFinalize
       DEF Next, Callback

LEMMA CollectInductive == Spec => []CollectInv
BY CollectInit, CollectStep, PTL DEF Spec

\* The types, for every number of IOs and every chunk size.
THEOREM CollectTypeCorrect == Spec => []TypeOK
BY CollectInductive, PTL DEF CollectInv

\* However many IOs race, and in whatever order they end, the continuation is
\* called at most once.
THEOREM ContinuationOnce == Spec => []CalledOnce
<1>1. CollectInv => CalledOnce
    BY CollectAssumption DEF CollectInv, AnswerInv, CalledOnce
<1> QED
    BY <1>1, CollectInductive, PTL

\* The last callback finds all slots of its chunk engaged and wins its
\* compare_exchange: slot.value() never throws.
THEOREM NoEmptySlot == Spec => []LastFindsAll
<1>1. CollectInv => LastFindsAll
    <2> SUFFICES ASSUME CollectInv, NEW i \in Items, pc[i] = "last"
                 PROVE  Chunk(lo) \subseteq slot /\ ~done
        BY DEF LastFindsAll
    <2> QED
        BY LastIsLast, LastUndone DEF CollectInv, ItemInv, Counted
<1> QED
    BY <1>1, CollectInductive, PTL

\* Success is reported only when all IOs succeeded, failure only when one failed.
THEOREM AnswersTruthful == Spec => []AnswerJustified
<1>1. CollectInv => AnswerJustified
    BY CollectAssumption DEF CollectInv, AnswerInv, ItemInv, AnswerJustified, Items
<1> QED
    BY <1>1, CollectInductive, PTL

\* At most Concurrency IOs run at once, and a failed chunk is the last.
THEOREM ConcurrencyBounded == Spec => []BoundedAndStopped
<1>1. CollectInv => BoundedAndStopped
    <2> SUFFICES ASSUME CollectInv PROVE BoundedAndStopped
        OBVIOUS
    <2> DEFINE R == {i \in Items : pc[i] = "running"}
    <2>1. R \subseteq Chunk(lo)
        BY CollectAssumption DEF CollectInv, TypeOK, LoopInv, Chunk, Items
    <2>2. Cardinality(R) <= Cardinality(Chunk(lo)) /\ Cardinality(R) \in Nat
        BY <2>1, ChunkFinite, FS_Subset, FS_CardinalityType DEF CollectInv, TypeOK
    <2>3. Cardinality(R) <= Concurrency
        BY <2>2, ChunkFinite, CollectAssumption DEF CollectInv, TypeOK
    <2> QED
        BY <2>3, CollectAssumption DEF CollectInv, TypeOK, LoopInv, BoundedAndStopped, Items
<1> QED
    BY <1>1, CollectInductive, PTL

-----------------------------------------------------------------------------
(***************************************************************************)
(* Refinement: a completion is an End step, the winning compare_exchange   *)
(* an Answer step, and everything else stutters.                           *)
(***************************************************************************)
LEMMA AnswerStep ==
    ASSUME CollectInv, [Next]_vars
    PROVE  [A!Next]_<<out, calls, answer>>
<1> USE CollectAssumption
<1>1. ASSUME NEW i \in Items, NEW r \in {"ok", "err"}, Complete(i, r)
      PROVE  A!Next
    <2>1. out[i] = "none"
        BY <1>1 DEF Complete, CollectInv, ItemInv
    <2> QED
        BY <1>1, <2>1 DEF Complete, A!Next, A!End, Items
<1>2. ASSUME NEW i \in Items, ReportError(i)
      PROVE  A!Next \/ UNCHANGED <<out, calls, answer>>
    <2>1. CASE done
        BY <1>2, <2>1 DEF ReportError
    <2>2. CASE ~done
        <3>1. calls = 0 /\ answer = "none"
            BY <2>2 DEF CollectInv, AnswerInv, Items
        <3> QED
            BY <1>2, <2>2, <3>1 DEF ReportError, Call, A!Next, A!AnswerError, A!Answer, Items
    <2> QED
        BY <2>1, <2>2
<1>3. ASSUME NEW i \in Items, Finalize(i)
      PROVE  A!Next \/ UNCHANGED <<out, calls, answer>>
    <2>1. ~done /\ calls = 0 /\ answer = "none" /\ N # 0 /\ pc[i] = "last"
        BY <1>3, LastUndone DEF Finalize
    <2>2. CASE lo + Concurrency <= N
        BY <1>3, <2>1, <2>2 DEF Finalize, CollectInv, TypeOK
    <2>3. CASE lo + Concurrency > N
        <3>1. out' = out /\ calls' = calls + 1 /\ answer' = "ok"
            BY <1>3, <2>1, <2>3 DEF Finalize, Call
        <3>2. \A j \in Items : pc[j] \in {"last", "counted"}
            BY <2>1, <2>3, LastIsLast DEF CollectInv, TypeOK, LoopInv, Chunk, Counted, Items
        <3>3. \A j \in Items : IF FirstErrorWins THEN out[j] = "ok" ELSE out[j] # "none"
            BY <3>2 DEF CollectInv, ItemInv
        <3> QED
            BY <2>1, <3>1, <3>3 DEF A!Next, A!AnswerOk, A!Answer, Items
    <2> QED
        BY <2>2, <2>3 DEF CollectInv, TypeOK
<1>4. CASE Start
    BY <1>4 DEF Start
<1>5. ASSUME NEW i \in Items, Store(i) \/ CountDown(i)
      PROVE  UNCHANGED <<out, calls, answer>>
    BY <1>5 DEF Store, CountDown
<1>6. CASE UNCHANGED vars
    BY <1>6 DEF vars
<1> QED
    BY <1>1, <1>2, <1>3, <1>4, <1>5, <1>6 DEF Next, Callback

\* collect_io_parallel, bounded or not, and collect_result_parallel implement
\* the promise stated in Aggregate.
THEOREM CollectImplementsAggregate == Spec => Implements
<1>1. Init => A!Init
    BY DEF Init, A!Init, Items
<1> QED
    BY <1>1, AnswerStep, CollectInductive, PTL DEF Spec, Implements, A!Spec
=============================================================================
