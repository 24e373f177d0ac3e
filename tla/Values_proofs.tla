---------------------------- MODULE Values_proofs ----------------------------
(***************************************************************************)
(* Proofs about the functions that keep no state, for all inputs: chains   *)
(* of results of any length, any number of results at once, every message  *)
(* and session, every NO_PROXY list; and about the overrides of variables. *)
(***************************************************************************)
EXTENDS MCResults, ClientText, ConfigOverrides, SequenceTheorems, WellFoundedInduction, TLAPS

-----------------------------------------------------------------------------
(* The least-number principle, on which every induction here rests.        *)
LEMMA LeastExists ==
    ASSUME NEW S, S \subseteq Nat, S # {}
    PROVE  \E i \in S : \A j \in S : i <= j
<1> DEFINE R == OpToRel(<, Nat)
<1>1. PICK x \in S : \A y \in S : ~ (<<y, x>> \in R)
    BY NatLessThanWellFounded, WFMin
<1>2. \A y \in S : <<y, x>> \in R <=> y < x
    BY DEF OpToRel
<1> HIDE DEF R
<1>3. \A y \in S : ~(y < x)
    BY <1>1, <1>2
<1>4. \A y \in S : x <= y
    <2>1. x \in Nat /\ \A y \in S : y \in Nat
        OBVIOUS
    <2> QED BY <1>3, <2>1
<1> QED BY <1>4

\* A set of numbers that has 0 and, with each number below n, the next one.
LEMMA UpTo_n ==
    ASSUME NEW n \in Nat, NEW S, 0 \in S, \A i \in 1 .. n : i - 1 \in S => i \in S
    PROVE  \A i \in 0 .. n : i \in S
<1> DEFINE Bad == {i \in 0 .. n : i \notin S}
<1> SUFFICES ASSUME Bad # {} PROVE FALSE
    OBVIOUS
<1>1. PICK i \in Bad : \A j \in Bad : i <= j
    <2>1. Bad \subseteq Nat
        OBVIOUS
    <2> HIDE DEF Bad
    <2> QED BY <2>1, LeastExists
<1>2. i \in 1 .. n /\ i \notin S
    OBVIOUS
<1>3. i - 1 \in 0 .. n /\ ~(i <= i - 1)
    BY <1>2
<1>4. i - 1 \in S
    BY <1>1, <1>3
<1> QED BY <1>2, <1>4

\* A function that is given step by step, and that there is one.
Stepwise(g, n, S, b, step) ==
    g \in [0 .. n -> S] /\ g[0] = b /\ \A i \in 1 .. n : g[i] = step[i][g[i - 1]]

LEMMA StepsExist ==
    ASSUME NEW n \in Nat, NEW S, NEW b \in S, NEW step \in [1 .. n -> [S -> S]]
    PROVE  \E g : Stepwise(g, n, S, b, step)
<1> DEFINE Good(m, g) == Stepwise(g, m, S, b, step)
           Done == {m \in 0 .. n : \E g : Good(m, g)}
<1> USE DEF Stepwise
<1>1. 0 \in Done
    <2>1. Good(0, [i \in 0 .. 0 |-> b])
        OBVIOUS
    <2> HIDE DEF Good
    <2> QED BY <2>1
<1>2. ASSUME NEW m \in 1 .. n, m - 1 \in Done PROVE m \in Done
    <2>1. PICK g : Good(m - 1, g)
        BY <1>2
    <2> DEFINE h == [i \in 0 .. m |-> IF i = m THEN step[m][g[m - 1]] ELSE g[i]]
    <2>2. step[m][g[m - 1]] \in S
        BY <2>1
    <2>3. h \in [0 .. m -> S] /\ h[0] = b
        BY <2>1, <2>2
    <2>4. ASSUME NEW i \in 1 .. m PROVE h[i] = step[i][h[i - 1]]
        BY <2>1
    <2>5. Good(m, h)
        BY <2>3, <2>4
    <2> HIDE DEF Good
    <2> QED BY <2>5
<1>3. n \in Done
    <2> HIDE DEF Done
    <2>1. \A i \in 0 .. n : i \in Done
        BY <1>1, <1>2, UpTo_n
    <2> QED BY <2>1
<1> HIDE DEF Stepwise
<1> QED BY <1>3

-----------------------------------------------------------------------------
(* Chains of calls on a result.                                            *)

ResultsOf(V) == [ok : BOOLEAN, v : Seq(V)]

\* Result<void, E> has no map, and its value is the unit.
IsRailway(r, calls, void, V) ==
    /\ r \in ResultsOf(V) /\ calls \in Seq(Call) /\ void \in BOOLEAN
    /\ 1 .. Len(calls) \subseteq V
    /\ void => (r.ok => r.v = Unit) /\ \A i \in DOMAIN calls : calls[i].op # "map"

\* A call that runs its function appends it, others hand the result on.
LEMMA CallGives ==
    ASSUME NEW V, NEW r \in ResultsOf(V), NEW c \in Call, NEW i \in V, NEW void \in BOOLEAN,
           void => (r.ok => r.v = Unit) /\ c.op # "map"
    PROVE  LET x == CallOn(r, c, i, void).res
           IN /\ x \in ResultsOf(V)
              /\ ~RunsOn(c.op, r.ok) => x = r
              /\ RunsOn(c.op, r.ok) => x.ok = (IF c.op \in {"map", "map_err"} THEN r.ok ELSE c.to)
              /\ RunsOn(c.op, r.ok) => x.v = (IF void /\ x.ok THEN Unit ELSE Append(r.v, i))
<1> DEFINE x == CallOn(r, c, i, void).res
<1>1. r.ok \in BOOLEAN /\ c.op \in Op /\ c.to \in BOOLEAN /\ r.v \in Seq(V)
    BY DEF ResultsOf, Call
<1>2. \A to \in BOOLEAN : Invoke(i, r, to) \in ResultsOf(V) /\ Invoke(i, r, to).ok = to /\ Invoke(i, r, to).v = Append(r.v, i)
    BY <1>1 DEF Invoke, ResultsOf
<1>3. \A to \in BOOLEAN : /\ OrUnit(Invoke(i, r, to)) \in ResultsOf(V)
                          /\ OrUnit(Invoke(i, r, to)).ok = to
                          /\ OrUnit(Invoke(i, r, to)).v = (IF to THEN Unit ELSE Append(r.v, i))
    <2>1. <<>> \in Seq(V)
        OBVIOUS
    <2> QED BY <1>2, <2>1 DEF OrUnit, Ok, Unit, ResultsOf
<1>4. RunsOn(c.op, r.ok) <=> IF r.ok THEN c.op \in {"map", "and_then"} ELSE c.op \notin {"map", "and_then"}
    BY <1>1 DEF RunsOn
<1>5. \/ ~RunsOn(c.op, r.ok) /\ x = r
      \/ RunsOn(c.op, r.ok) /\ c.op = "map" /\ ~void /\ r.ok /\ x = Invoke(i, r, TRUE)
      \/ RunsOn(c.op, r.ok) /\ c.op = "map_err" /\ ~r.ok /\ x = Invoke(i, r, FALSE)
      \/ /\ RunsOn(c.op, r.ok) /\ c.op \notin {"map", "map_err"}
         /\ x = IF void THEN OrUnit(Invoke(i, r, c.to)) ELSE Invoke(i, r, c.to)
    <2>1. CASE c.op = "map"
        BY <1>1, <1>4, <2>1 DEF CallOn, Gives, Map
    <2>2. CASE c.op = "and_then"
        BY <1>1, <1>4, <2>2 DEF CallOn, Gives, AndThen, AndThenVoid
    <2>3. CASE c.op = "map_err"
        BY <1>1, <1>4, <2>3 DEF CallOn, Gives, MapErr, MapErrVoid
    <2>4. CASE c.op = "catch_then"
        BY <1>1, <1>4, <2>4 DEF CallOn, Gives, CatchThen, CatchThenVoid
    <2>5. CASE c.op = "or_else"
        BY <1>1, <1>4, <2>5 DEF CallOn, Gives, OrElse, OrElseVoid
    <2> QED BY <1>1, <2>1, <2>2, <2>3, <2>4, <2>5 DEF Op
<1> HIDE DEF x
<1>6. CASE ~RunsOn(c.op, r.ok) /\ x = r
    BY <1>6 DEF x
<1>7. CASE RunsOn(c.op, r.ok) /\ c.op = "map" /\ ~void /\ r.ok /\ x = Invoke(i, r, TRUE)
    BY <1>2, <1>7 DEF x
<1>8. CASE RunsOn(c.op, r.ok) /\ c.op = "map_err" /\ ~r.ok /\ x = Invoke(i, r, FALSE)
    <2>1. x \in ResultsOf(V) /\ x.ok = FALSE /\ x.v = Append(r.v, i)
        BY <1>2, <1>8
    <2>2. x.ok = r.ok
        BY <1>1, <1>8, <2>1
    <2> QED BY <1>8, <2>1, <2>2 DEF x
<1>9. CASE /\ RunsOn(c.op, r.ok) /\ c.op \notin {"map", "map_err"}
           /\ x = IF void THEN OrUnit(Invoke(i, r, c.to)) ELSE Invoke(i, r, c.to)
    <2>1. x \in ResultsOf(V) /\ x.ok = c.to /\ x.v = (IF void /\ c.to THEN Unit ELSE Append(r.v, i))
        BY <1>1, <1>2, <1>3, <1>9
    <2> QED BY <1>9, <2>1 DEF x
<1> QED BY <1>5, <1>6, <1>7, <1>8, <1>9

LEMMA ChainSteps ==
    ASSUME NEW V, NEW r, NEW calls, NEW void, IsRailway(r, calls, void, V)
    PROVE  LET at == ChainAt(r, calls, void)
           IN /\ at[0] = r
              /\ \A i \in 1 .. Len(calls) : at[i] = CallOn(at[i - 1], calls[i], i, void).res
              /\ \A i \in 0 .. Len(calls) :
                    at[i] \in ResultsOf(V) /\ (void => (at[i].ok => at[i].v = Unit))
<1> DEFINE n == Len(calls)
           S == {x \in ResultsOf(V) : void => (x.ok => x.v = Unit)}
           Next1(i, x) == CallOn(x, calls[i], i, void).res
           step == [i \in 1 .. n |-> [x \in S |-> Next1(i, x)]]
           at == ChainAt(r, calls, void)
<1>1. n \in Nat /\ void \in BOOLEAN /\ r \in S
    BY DEF IsRailway
<1>2. ASSUME NEW i \in 1 .. n, NEW x \in S PROVE Next1(i, x) \in S
    <2>1. /\ x \in ResultsOf(V) /\ calls[i] \in Call /\ i \in V /\ void \in BOOLEAN
          /\ void => (x.ok => x.v = Unit) /\ calls[i].op # "map"
        BY DEF IsRailway
    <2> DEFINE y == Next1(i, x)
    <2>2. /\ y \in ResultsOf(V)
          /\ ~RunsOn(calls[i].op, x.ok) => y = x
          /\ RunsOn(calls[i].op, x.ok) => y.v = (IF void /\ y.ok THEN Unit ELSE Append(x.v, i))
        BY <2>1, CallGives
    <2> HIDE DEF y
    <2> QED BY <2>1, <2>2 DEF y
<1>3. step \in [1 .. n -> [S -> S]]
    BY <1>2
<1>4. PICK g : Stepwise(g, n, S, r, step)
    <2> HIDE DEF step, S, n
    <2> QED BY <1>1, <1>3, StepsExist
<1>5. \A i \in 1 .. n : g[i] = Next1(i, g[i - 1])
    <2> HIDE DEF Next1, S, n
    <2>1. \A i \in 1 .. n : g[i - 1] \in S
        BY <1>1, <1>4 DEF Stepwise
    <2> QED BY <1>4, <2>1 DEF Stepwise
<1>6. g = [i \in 0 .. n |-> IF i = 0 THEN r ELSE Next1(i, g[i - 1])]
    <2> HIDE DEF Next1, S, n, step
    <2> QED BY <1>1, <1>4, <1>5 DEF Stepwise
<1>7. at = [i \in 0 .. n |-> IF i = 0 THEN r ELSE Next1(i, at[i - 1])]
    <2>1. at = CHOOSE h : h = [i \in 0 .. n |-> IF i = 0 THEN r ELSE Next1(i, h[i - 1])]
        BY DEF ChainAt
    <2> HIDE DEF at, Next1, n
    <2> QED BY <1>6, <2>1
<1>8. at[0] = r /\ \A i \in 1 .. n : at[i] = Next1(i, at[i - 1])
    <2> HIDE DEF at, Next1, n
    <2> QED BY <1>1, <1>7
<1>9. \A i \in 0 .. n : at[i] \in S
    <2> DEFINE T == {i \in 0 .. n : at[i] \in S}
    <2>1. 0 \in T
        BY <1>1, <1>8
    <2>2. \A i \in 1 .. n : i - 1 \in T => i \in T
        <3> HIDE DEF at, Next1, S, n
        <3> QED BY <1>2, <1>8
    <2> HIDE DEF T
    <2>3. \A i \in 0 .. n : i \in T
        <3> HIDE DEF n
        <3> QED BY <1>1, <2>1, <2>2, UpTo_n
    <2> QED BY <2>3 DEF T
<1> QED BY <1>8, <1>9

\* The track of the meaning is the one the result is on.
LEMMA TrackSteps ==
    ASSUME NEW V, NEW r, NEW calls, NEW void, IsRailway(r, calls, void, V)
    PROVE  \A i \in 0 .. Len(calls) :
              /\ Tracks(r, calls)[i] \in BOOLEAN
              /\ Tracks(r, calls)[i] = ChainAt(r, calls, void)[i].ok
<1> DEFINE n == Len(calls)
           at == ChainAt(r, calls, void)
           t == Tracks(r, calls)
           Next1(i, b) == IF RunsOn(calls[i].op, b) /\ calls[i].op \notin {"map", "map_err"}
                          THEN calls[i].to ELSE b
           g == [i \in 0 .. n |-> at[i].ok]
<1>1. n \in Nat /\ void \in BOOLEAN /\ at[0] = r
    BY ChainSteps DEF IsRailway
<1>2. ASSUME NEW i \in 0 .. n PROVE at[i].ok \in BOOLEAN
    BY ChainSteps DEF ResultsOf
<1>3. ASSUME NEW i \in 1 .. n PROVE at[i].ok = Next1(i, at[i - 1].ok)
    <2> DEFINE x == at[i - 1]
    <2>1. i - 1 \in 0 .. n
        BY <1>1
    <2>2. x \in ResultsOf(V) /\ (void => (x.ok => x.v = Unit)) /\ at[i] = CallOn(x, calls[i], i, void).res
        BY <2>1, ChainSteps
    <2>3. calls[i] \in Call /\ i \in V /\ (void => calls[i].op # "map")
        BY DEF IsRailway
    <2> HIDE DEF x, at
    <2>4. /\ ~RunsOn(calls[i].op, x.ok) => at[i] = x
          /\ RunsOn(calls[i].op, x.ok) =>
                at[i].ok = (IF calls[i].op \in {"map", "map_err"} THEN x.ok ELSE calls[i].to)
        BY <1>1, <2>2, <2>3, CallGives
    <2> QED BY <2>4 DEF x
<1>4. g = [i \in 0 .. n |-> IF i = 0 THEN r.ok ELSE Next1(i, g[i - 1])]
    <2> HIDE DEF at, Next1, n
    <2>1. ASSUME NEW i \in 0 .. n PROVE at[i].ok = IF i = 0 THEN r.ok ELSE Next1(i, g[i - 1])
        BY <1>1, <1>3
    <2> QED BY <2>1
<1>5. t = [i \in 0 .. n |-> IF i = 0 THEN r.ok ELSE Next1(i, t[i - 1])]
    <2>1. t = CHOOSE h : h = [i \in 0 .. n |-> IF i = 0 THEN r.ok ELSE Next1(i, h[i - 1])]
        BY DEF Tracks
    <2> HIDE DEF t, Next1, n, g
    <2> QED BY <1>4, <2>1
<1>6. t[0] = r.ok /\ \A i \in 1 .. n : t[i] = Next1(i, t[i - 1])
    <2> HIDE DEF t, Next1, n
    <2> QED BY <1>1, <1>5
<1>7. \A i \in 0 .. n : t[i] = at[i].ok
    <2> DEFINE T == {i \in 0 .. n : t[i] = at[i].ok}
    <2>1. 0 \in T
        BY <1>1, <1>6
    <2>2. \A i \in 1 .. n : i - 1 \in T => i \in T
        <3> HIDE DEF at, t, Next1, n
        <3> QED BY <1>3, <1>6
    <2> HIDE DEF T
    <2>3. \A i \in 0 .. n : i \in T
        <3> HIDE DEF n
        <3> QED BY <1>1, <2>1, <2>2, UpTo_n
    <2> QED BY <2>3 DEF T
<1> QED BY <1>2, <1>7

\* Appending the next number to numbers in order.
LEMMA AscendingAppend ==
    ASSUME NEW S, NEW j \in Nat, S \subseteq 0 .. j - 1,
           NEW m \in Nat, NEW s \in [1 .. m -> S], Ascending(s, S)
    PROVE  /\ Append(s, j) \in [1 .. m + 1 -> S \cup {j}]
           /\ Ascending(Append(s, j), S \cup {j})
<1> DEFINE a == Append(s, j)
<1>1. s \in Seq(S \cup {j}) /\ Len(s) = m
    OBVIOUS
<1>2. a \in Seq(S \cup {j}) /\ Len(a) = m + 1 /\ a[m + 1] = j /\ \A k \in 1 .. m : a[k] = s[k]
    BY <1>1
<1> HIDE DEF a
<1>3. a \in [1 .. m + 1 -> S \cup {j}]
    BY <1>2
<1>4. \A k, l \in 1 .. m + 1 : k < l => a[k] < a[l]
    <2> SUFFICES ASSUME NEW k \in 1 .. m + 1, NEW l \in 1 .. m + 1, k < l PROVE a[k] < a[l]
        OBVIOUS
    <2>1. k \in 1 .. m /\ s[k] \in 0 .. j - 1
        <3>1. k \in 1 .. m
            OBVIOUS
        <3>2. s[k] \in S
            BY <3>1
        <3> QED BY <3>1, <3>2
    <2>2. CASE l = m + 1
        BY <1>2, <2>1, <2>2
    <2>3. CASE l # m + 1
        <3>1. l \in 1 .. m
            BY <2>3
        <3>2. s[k] < s[l]
            BY <2>1, <3>1 DEF Ascending
        <3> QED BY <1>2, <2>1, <3>1, <3>2
    <2> QED BY <2>2, <2>3
<1>5. \A x \in S \cup {j} : \E k \in 1 .. m + 1 : a[k] = x
    <2> SUFFICES ASSUME NEW x \in S \cup {j} PROVE \E k \in 1 .. m + 1 : a[k] = x
        OBVIOUS
    <2>1. CASE x = j
        BY <1>2, <2>1
    <2>2. CASE x \in S
        <3>1. PICK k \in 1 .. m : s[k] = x
            BY <2>2 DEF Ascending
        <3> QED BY <1>2, <3>1
    <2> QED BY <2>1, <2>2
<1> QED BY <1>3, <1>4, <1>5 DEF Ascending, a

\* A name for Append, to match the lemma by.
AppendLast(s, e) == Append(s, e)

LEMMA AppendConcat ==
    ASSUME NEW V, NEW a \in Seq(V), NEW b \in Seq(V), NEW e \in V
    PROVE  AppendLast(a \o b, e) = a \o AppendLast(b, e)
<1> USE DEF AppendLast
<1> DEFINE x == Append(a \o b, e)
           y == a \o Append(b, e)
<1>1. /\ a \o b \in Seq(V) /\ Len(a \o b) = Len(a) + Len(b)
      /\ \A i \in 1 .. Len(a) + Len(b) : (a \o b)[i] = IF i <= Len(a) THEN a[i] ELSE b[i - Len(a)]
      /\ Append(b, e) \in Seq(V) /\ Len(Append(b, e)) = Len(b) + 1
      /\ \A i \in 1 .. Len(b) : Append(b, e)[i] = b[i]
      /\ Append(b, e)[Len(b) + 1] = e
    OBVIOUS
<1>2. /\ x \in Seq(V) /\ Len(x) = Len(a) + Len(b) + 1
      /\ \A i \in 1 .. Len(a) + Len(b) : x[i] = (a \o b)[i]
      /\ x[Len(a) + Len(b) + 1] = e
    BY <1>1
<1>3. /\ y \in Seq(V) /\ Len(y) = Len(a) + Len(b) + 1
      /\ \A i \in 1 .. Len(a) + Len(b) + 1 : y[i] = IF i <= Len(a) THEN a[i] ELSE Append(b, e)[i - Len(a)]
    BY <1>1
<1> HIDE DEF x, y
<1>4. Len(a) \in Nat /\ Len(b) \in Nat
    OBVIOUS
<1>5. \A i \in 1 .. Len(x) : x[i] = y[i]
    <2> SUFFICES ASSUME NEW i \in 1 .. Len(a) + Len(b) + 1 PROVE x[i] = y[i]
        BY <1>2
    <2>1. CASE i <= Len(a)
        BY <1>1, <1>2, <1>3, <1>4, <2>1
    <2>2. CASE i > Len(a) /\ i <= Len(a) + Len(b)
        <3>1. i - Len(a) \in 1 .. Len(b)
            BY <1>4, <2>2
        <3> QED BY <1>1, <1>2, <1>3, <1>4, <2>2, <3>1
    <2>3. CASE i = Len(a) + Len(b) + 1
        BY <1>1, <1>2, <1>3, <1>4, <2>3
    <2> QED BY <1>4, <2>1, <2>2, <2>3
<1> QED BY <1>2, <1>3, <1>5, SeqEqual DEF x, y

\* What the first i calls of a chain mean, x being the result after them.
MeansUpTo(x, i, r, calls, void) ==
    \E from \in 0 .. i :
        /\ IF void THEN /\ from = 0 \/ Tracks(r, calls)[from]
                        /\ \A j \in from + 1 .. i : ~Tracks(r, calls)[j]
           ELSE from = 0
        /\ LET ran == {j \in from + 1 .. i : Ran(r, calls, j)}
           IN \E m \in 0 .. i : \E s \in [1 .. m -> ran] :
                Ascending(s, ran) /\ x.v = (IF from = 0 THEN r.v ELSE <<>>) \o s

LEMMA MeansForgotten ==
    ASSUME NEW i \in Nat, NEW r, NEW calls, NEW x, x.v = Unit, Tracks(r, calls)[i],
           i = 0 => r.v = Unit
    PROVE  MeansUpTo(x, i, r, calls, TRUE)
<1>1. {j \in i + 1 .. i : Ran(r, calls, j)} = {}
    OBVIOUS
<1>2. <<>> \in [1 .. 0 -> {}] /\ Ascending(<<>>, {}) /\ <<>> \o <<>> = <<>>
    BY DEF Ascending
<1>3. x.v = (IF i = 0 THEN r.v ELSE <<>>) \o <<>>
    BY <1>2 DEF Unit
<1>4. i \in 0 .. i /\ 0 \in 0 .. i /\ \A j \in i + 1 .. i : ~Tracks(r, calls)[j]
    OBVIOUS
<1> QED BY <1>1, <1>2, <1>3, <1>4 DEF MeansUpTo

LEMMA MeansStep ==
    ASSUME NEW V, NEW r, NEW calls, NEW void, IsRailway(r, calls, void, V),
           NEW i \in 1 .. Len(calls),
           MeansUpTo(ChainAt(r, calls, void)[i - 1], i - 1, r, calls, void)
    PROVE  MeansUpTo(ChainAt(r, calls, void)[i], i, r, calls, void)
<1> DEFINE t == Tracks(r, calls)
           x == ChainAt(r, calls, void)[i - 1]
           y == ChainAt(r, calls, void)[i]
<1>1. i \in Nat /\ i - 1 \in Nat /\ i - 1 \in 0 .. Len(calls) /\ i \in 0 .. Len(calls) /\ void \in BOOLEAN
    BY DEF IsRailway
<1>2. /\ x \in ResultsOf(V) /\ y \in ResultsOf(V)
      /\ void => (x.ok => x.v = Unit)
      /\ void => (y.ok => y.v = Unit)
      /\ y = CallOn(x, calls[i], i, void).res
    BY <1>1, ChainSteps
<1>3. t[i - 1] = x.ok /\ t[i] = y.ok
    BY <1>1, TrackSteps
<1>4. calls[i] \in Call /\ i \in V /\ (void => calls[i].op # "map")
    BY DEF IsRailway
<1> HIDE DEF x, y
<1>5. /\ ~RunsOn(calls[i].op, x.ok) => y = x
      /\ RunsOn(calls[i].op, x.ok) => y.v = (IF void /\ y.ok THEN Unit ELSE Append(x.v, i))
    BY <1>1, <1>2, <1>4, CallGives
<1>6. CASE void /\ y.ok
    <2>1. y.v = Unit /\ t[i] /\ i # 0
        <3>1. i # 0
            OBVIOUS
        <3>2. y.v = Unit
            BY <1>2, <1>6
        <3>3. t[i]
            BY <1>3, <1>6, Zenon
        <3> QED BY <3>1, <3>2, <3>3
    <2>3. void = TRUE
        BY <1>1, <1>6
    <2> HIDE DEF t
    <2>2. MeansUpTo(y, i, r, calls, TRUE)
        BY <1>1, <2>1, MeansForgotten DEF t
    <2> QED BY <2>2, <2>3 DEF y
<1>7. CASE ~(void /\ y.ok)
    <2> DEFINE ran(f, k) == {j \in f + 1 .. k : Ran(r, calls, j)}
               base(f) == IF f = 0 THEN r.v ELSE <<>>
    <2>1. PICK from \in 0 .. i - 1 :
            /\ IF void THEN /\ from = 0 \/ t[from]
                            /\ \A j \in from + 1 .. i - 1 : ~t[j]
               ELSE from = 0
            /\ \E m \in 0 .. i - 1 : \E s \in [1 .. m -> ran(from, i - 1)] :
                    Ascending(s, ran(from, i - 1)) /\ x.v = base(from) \o s
        BY DEF MeansUpTo, x
    <2>2. PICK m \in 0 .. i - 1 : \E s \in [1 .. m -> ran(from, i - 1)] :
                    Ascending(s, ran(from, i - 1)) /\ x.v = base(from) \o s
        BY <2>1
    <2>3. PICK s \in [1 .. m -> ran(from, i - 1)] :
                    Ascending(s, ran(from, i - 1)) /\ x.v = base(from) \o s
        BY <2>2
    <2>4. from \in 0 .. i
          /\ IF void THEN /\ from = 0 \/ t[from]
                          /\ \A j \in from + 1 .. i : ~t[j]
             ELSE from = 0
        <3>1. void => ~t[i]
            BY <1>3, <1>7
        <3> HIDE DEF t
        <3> QED BY <1>1, <2>1, <3>1
    <2>5. Ran(r, calls, i) <=> RunsOn(calls[i].op, x.ok)
        BY <1>3 DEF Ran
    <2>6. ran(from, i) = IF Ran(r, calls, i) THEN ran(from, i - 1) \cup {i} ELSE ran(from, i - 1)
        OBVIOUS
    <2>7. \E k \in 0 .. i : \E u \in [1 .. k -> ran(from, i)] :
              Ascending(u, ran(from, i)) /\ y.v = base(from) \o u
        <3>1. CASE ~Ran(r, calls, i)
            <4>1. y = x /\ ran(from, i) = ran(from, i - 1) /\ m \in 0 .. i
                BY <1>1, <1>5, <2>5, <2>6, <3>1
            <4> HIDE DEF ran, base
            <4> QED BY <2>3, <4>1
        <3>2. CASE Ran(r, calls, i)
            <4> DEFINE S == ran(from, i - 1)
            <4>1. S \subseteq 0 .. i - 1 /\ ran(from, i) = S \cup {i} /\ S \subseteq Nat
                BY <2>6, <3>2
            <4>2. y.v = Append(x.v, i)
                BY <1>5, <1>7, <2>5, <3>2
            <4>3. r.v \in Seq(V) /\ base(from) \in Seq(V) /\ S \subseteq V
                <5>1. <<>> \in Seq(V) /\ r.v \in Seq(V)
                    BY DEF IsRailway, ResultsOf
                <5>2. S \subseteq 1 .. Len(calls)
                    BY <1>1, <2>1
                <5> QED BY <5>1, <5>2 DEF IsRailway
            <4> HIDE DEF S, ran, base
            <4>4. Append(s, i) \in [1 .. m + 1 -> S \cup {i}] /\ Ascending(Append(s, i), S \cup {i})
                <5>1. m \in Nat /\ s \in [1 .. m -> S] /\ Ascending(s, S)
                    BY <2>3 DEF S
                <5> QED BY <1>1, <4>1, <5>1, AscendingAppend
            <4>5. Append(base(from) \o s, i) = base(from) \o Append(s, i)
                <5>1. s \in Seq(V)
                    BY <2>3, <4>3 DEF S
                <5>2. base(from) \in Seq(V) /\ i \in V
                    BY <1>4, <4>3
                <5>3. AppendLast(base(from) \o s, i) = base(from) \o AppendLast(s, i)
                    BY <5>1, <5>2, AppendConcat
                <5> QED BY <5>3 DEF AppendLast
            <4>6. m + 1 \in 0 .. i
                BY <1>1
            <4> QED BY <2>3, <4>1, <4>2, <4>4, <4>5, <4>6
        <3> QED BY <3>1, <3>2
    <2> QED BY <2>4, <2>7 DEF MeansUpTo, y
<1> QED BY <1>6, <1>7

LEMMA ChainMeans ==
    ASSUME NEW V, NEW r, NEW calls, NEW void, IsRailway(r, calls, void, V)
    PROVE  IsMeaning(Chain(r, calls, void), r, calls, void)
<1> DEFINE n == Len(calls)
           at == ChainAt(r, calls, void)
           T == {i \in 0 .. n : MeansUpTo(at[i], i, r, calls, void)}
<1>1. n \in Nat /\ n \in 0 .. n
    BY DEF IsRailway
<1>2. 0 \in T
    <2>1. at[0] = r
        BY ChainSteps
    <2>2. {j \in 0 + 1 .. 0 : Ran(r, calls, j)} = {} /\ \A j \in 0 + 1 .. 0 : ~Tracks(r, calls)[j]
        OBVIOUS
    <2>3. <<>> \in [1 .. 0 -> {}] /\ Ascending(<<>>, {})
        BY DEF Ascending
    <2>4. r.v \o <<>> = r.v
        BY DEF IsRailway, ResultsOf
    <2>5. MeansUpTo(r, 0, r, calls, void)
        <3> DEFINE ran == {j \in 0 + 1 .. 0 : Ran(r, calls, j)}
        <3>1. \E m \in 0 .. 0 : \E s \in [1 .. m -> ran] :
                Ascending(s, ran) /\ r.v = (IF 0 = 0 THEN r.v ELSE <<>>) \o s
            <4>1. ran = {} /\ 0 \in 0 .. 0
                BY <2>2
            <4> HIDE DEF ran
            <4> QED BY <2>3, <2>4, <4>1
        <3>2. 0 \in 0 .. 0 /\ IF void THEN /\ 0 = 0 \/ Tracks(r, calls)[0]
                                           /\ \A j \in 0 + 1 .. 0 : ~Tracks(r, calls)[j]
                             ELSE 0 = 0
            BY <2>2
        <3> QED BY <3>1, <3>2, Zenon DEF MeansUpTo
    <2> QED BY <1>1, <2>1, <2>5
<1>3. \A i \in 1 .. n : i - 1 \in T => i \in T
    <2> SUFFICES ASSUME NEW i \in 1 .. n, i - 1 \in T PROVE i \in T
        OBVIOUS
    <2>1. MeansUpTo(at[i], i, r, calls, void)
        BY MeansStep
    <2> HIDE DEF at
    <2> QED BY <1>1, <2>1
<1>4. n \in T
    <2> HIDE DEF T, n
    <2>1. \A i \in 0 .. n : i \in T
        BY <1>1, <1>2, <1>3, UpTo_n
    <2> QED BY <1>1, <2>1
<1>5. at[n].ok = Tracks(r, calls)[n]
    BY <1>1, TrackSteps
<1> QED BY <1>4, <1>5 DEF MeansUpTo, IsMeaning, Forgot, Chain

\* Result::map, and_then, map_err, catch_then and or_else, const& and && overloads,
\* of Result<T, E> and of Result<void, E>: a chain of any length gives what its
\* functions say, and a source that was not moved from can be used again.
THEOREM RailwayLaw ==
    ASSUME NEW V, NEW r, NEW calls, NEW void, IsRailway(r, calls, void, V)
    PROVE  RailwayOK(r, calls, void)
<1>1. IsMeaning(Chain(r, calls, void), r, calls, void)
    BY ChainMeans
<1>2. ASSUME Len(calls) > 0
      PROVE  LET src == CallOn(r, calls[1], 1, void).src
             IN /\ src.ok = r.ok
                /\ ~calls[1].moves => IsMeaning(Chain(src, Tail(calls), void), r, Tail(calls), void)
    <2> DEFINE src == CallOn(r, calls[1], 1, void).src
               c == calls[1]
    <2>1. calls \in Seq(Call) /\ calls # <<>> /\ c \in Call /\ r \in ResultsOf(V)
        BY <1>2 DEF IsRailway
    <2>2. src = IF void THEN LeftVoid(r, c.moves) ELSE Left(r, c.moves)
        BY DEF CallOn, Gives, Map, AndThen, MapErr, CatchThen, OrElse,
               AndThenVoid, MapErrVoid, CatchThenVoid, OrElseVoid
    <2> HIDE DEF src
    <2>3. src.ok = r.ok
        BY <2>1, <2>2 DEF LeftVoid, Left, ResultsOf
    <2>4. ~c.moves => src = r
        BY <2>2 DEF LeftVoid, Left
    <2>5. IsRailway(r, Tail(calls), void, V)
        <3>1. /\ Tail(calls) \in Seq(Call) /\ Len(Tail(calls)) = Len(calls) - 1
              /\ \A i \in 1 .. Len(Tail(calls)) : Tail(calls)[i] = calls[i + 1]
            BY <2>1
        <3>2. Len(calls) \in Nat
            BY <2>1
        <3>3. 1 .. Len(Tail(calls)) \subseteq V
            BY <3>1, <3>2 DEF IsRailway
        <3>4. void => \A i \in DOMAIN Tail(calls) : Tail(calls)[i].op # "map"
            BY <3>1, <3>2 DEF IsRailway
        <3> QED BY <3>1, <3>3, <3>4 DEF IsRailway
    <2>6. IsMeaning(Chain(r, Tail(calls), void), r, Tail(calls), void)
        BY <2>5, ChainMeans
    <2> QED BY <2>3, <2>4, <2>6 DEF src
<1> QED BY <1>1, <1>2 DEF RailwayOK

-----------------------------------------------------------------------------
(* Several results.                                                        *)

\* Results of values in W, and what a function on them may hold.
Given1(W) == [ok : BOOLEAN, v : W]
Made(W) == [ok : BOOLEAN, v : W \cup Seq(W)]

LEMMA ZipSteps ==
    ASSUME NEW W, NEW rs \in Seq(Given1(W)), NEW skip
    PROVE  LET tail == ZipTails(rs, skip)
           IN /\ tail[0] = Ok(<<>>)
              /\ \A n \in 1 .. Len(rs) :
                    LET i == Len(rs) - n + 1
                    IN tail[n] = IF ~rs[i].ok THEN rs[i] ELSE IF ~tail[n - 1].ok THEN tail[n - 1]
                                 ELSE IF i \in skip THEN tail[n - 1]
                                 ELSE Ok(<<rs[i].v>> \o tail[n - 1].v)
<1> DEFINE N == Len(rs)
           \* an ok tail holds a sequence
           S == {x \in Made(W) : x.ok => x.v \in Seq(W)}
           Next1(n, x) == LET i == N - n + 1
                          IN IF ~rs[i].ok THEN rs[i] ELSE IF ~x.ok THEN x
                             ELSE IF i \in skip THEN x ELSE Ok(<<rs[i].v>> \o x.v)
           step == [n \in 1 .. N |-> [x \in S |-> Next1(n, x)]]
           tail == ZipTails(rs, skip)
<1>1. N \in Nat
    OBVIOUS
<1>2. Ok(<<>>) \in S
    <2>1. <<>> \in Seq(W)
        OBVIOUS
    <2> QED BY <2>1 DEF Ok, Made
<1>3. ASSUME NEW n \in 1 .. N, NEW x \in S PROVE Next1(n, x) \in S
    <2> DEFINE i == N - n + 1
    <2>1. i \in 1 .. N
        BY <1>1
    <2>2. rs[i] \in Given1(W)
        BY <2>1
    <2>3. CASE ~rs[i].ok
        <3>1. rs[i] \in Made(W)
            BY <2>2 DEF Given1, Made
        <3> QED BY <2>3, <3>1
    <2>4. CASE rs[i].ok /\ (~x.ok \/ i \in skip)
        BY <2>4
    <2>5. CASE rs[i].ok /\ x.ok /\ i \notin skip
        <3>1. x.v \in Seq(W) /\ rs[i].v \in W
            BY <2>2, <2>5 DEF Given1
        <3>2. <<rs[i].v>> \o x.v \in Seq(W)
            BY <3>1
        <3>3. Ok(<<rs[i].v>> \o x.v) \in S
            BY <3>2 DEF Ok, Made
        <3> QED BY <2>5, <3>3
    <2> QED BY <2>3, <2>4, <2>5
<1>4. step \in [1 .. N -> [S -> S]]
    BY <1>3
<1>5. PICK g : Stepwise(g, N, S, Ok(<<>>), step)
    <2> HIDE DEF step, S, N
    <2> QED BY <1>1, <1>2, <1>4, StepsExist
<1>6. \A n \in 1 .. N : g[n] = Next1(n, g[n - 1])
    <2> HIDE DEF Next1, S, N
    <2>1. \A n \in 1 .. N : g[n - 1] \in S
        BY <1>1, <1>5 DEF Stepwise
    <2> QED BY <1>5, <2>1 DEF Stepwise
<1>7. g = [n \in 0 .. N |-> IF n = 0 THEN Ok(<<>>) ELSE Next1(n, g[n - 1])]
    <2> HIDE DEF Next1, S, N, step
    <2> QED BY <1>1, <1>5, <1>6 DEF Stepwise
<1>8. tail = [n \in 0 .. N |-> IF n = 0 THEN Ok(<<>>) ELSE Next1(n, tail[n - 1])]
    <2>1. tail = CHOOSE h : h = [n \in 0 .. N |-> IF n = 0 THEN Ok(<<>>) ELSE Next1(n, h[n - 1])]
        BY DEF ZipTails
    <2> HIDE DEF tail, Next1, N
    <2> QED BY <1>7, <2>1
<1>9. tail[0] = Ok(<<>>) /\ \A n \in 1 .. N : tail[n] = Next1(n, tail[n - 1])
    <2> HIDE DEF tail, Next1, N
    <2> QED BY <1>1, <1>8
<1> QED BY <1>9

LEMMA CollectSteps ==
    ASSUME NEW W, NEW rs \in Seq(Given1(W))
    PROVE  LET out == Collected(rs)
           IN /\ out[0] = Ok(<<>>)
              /\ \A i \in 1 .. Len(rs) :
                    out[i] = IF ~out[i - 1].ok THEN out[i - 1] ELSE IF ~rs[i].ok THEN rs[i]
                             ELSE Ok(Append(out[i - 1].v, rs[i].v))
<1> DEFINE N == Len(rs)
           S == {x \in Made(W) : x.ok => x.v \in Seq(W)}
           Next1(i, x) == IF ~x.ok THEN x ELSE IF ~rs[i].ok THEN rs[i] ELSE Ok(Append(x.v, rs[i].v))
           step == [i \in 1 .. N |-> [x \in S |-> Next1(i, x)]]
           out == Collected(rs)
<1>1. N \in Nat
    OBVIOUS
<1>2. Ok(<<>>) \in S
    <2>1. <<>> \in Seq(W)
        OBVIOUS
    <2> QED BY <2>1 DEF Ok, Made
<1>3. ASSUME NEW i \in 1 .. N, NEW x \in S PROVE Next1(i, x) \in S
    <2>1. rs[i] \in Given1(W)
        OBVIOUS
    <2>2. CASE ~x.ok
        BY <2>2
    <2>3. CASE x.ok /\ ~rs[i].ok
        <3>1. rs[i] \in Made(W)
            BY <2>1 DEF Given1, Made
        <3> QED BY <2>3, <3>1
    <2>4. CASE x.ok /\ rs[i].ok
        <3>1. x.v \in Seq(W) /\ rs[i].v \in W
            BY <2>1, <2>4 DEF Given1
        <3>2. Append(x.v, rs[i].v) \in Seq(W)
            BY <3>1
        <3>3. Ok(Append(x.v, rs[i].v)) \in S
            BY <3>2 DEF Ok, Made
        <3> QED BY <2>4, <3>3
    <2> QED BY <2>2, <2>3, <2>4
<1>4. step \in [1 .. N -> [S -> S]]
    BY <1>3
<1>5. PICK g : Stepwise(g, N, S, Ok(<<>>), step)
    <2> HIDE DEF step, S, N
    <2> QED BY <1>1, <1>2, <1>4, StepsExist
<1>6. \A i \in 1 .. N : g[i] = Next1(i, g[i - 1])
    <2> HIDE DEF Next1, S, N
    <2>1. \A i \in 1 .. N : g[i - 1] \in S
        BY <1>1, <1>5 DEF Stepwise
    <2> QED BY <1>5, <2>1 DEF Stepwise
<1>7. g = [i \in 0 .. N |-> IF i = 0 THEN Ok(<<>>) ELSE Next1(i, g[i - 1])]
    <2> HIDE DEF Next1, S, N, step
    <2> QED BY <1>1, <1>5, <1>6 DEF Stepwise
<1>8. out = [i \in 0 .. N |-> IF i = 0 THEN Ok(<<>>) ELSE Next1(i, out[i - 1])]
    <2>1. out = CHOOSE h : h = [i \in 0 .. N |-> IF i = 0 THEN Ok(<<>>) ELSE Next1(i, h[i - 1])]
        BY DEF Collected
    <2> HIDE DEF out, Next1, N
    <2> QED BY <1>7, <2>1
<1>9. out[0] = Ok(<<>>) /\ \A i \in 1 .. N : out[i] = Next1(i, out[i - 1])
    <2> HIDE DEF out, Next1, N
    <2> QED BY <1>1, <1>8
<1> QED BY <1>9

\* The error that comes first among the results from lo to hi, if there is one.
BadIn(rs, lo, hi) == {i \in lo .. hi : ~rs[i].ok}
IsFirst(x, rs, lo, hi) ==
    \E i \in BadIn(rs, lo, hi) : x = rs[i] /\ \A j \in BadIn(rs, lo, hi) : i <= j

\* The values of the results that s names, in that order.
ValuesAt(rs, s, m) == [k \in 1 .. m |-> rs[s[k]].v]

\* Putting a smaller number in front of numbers in order, and its value in front
\* of their values.
InFront(e, s) == <<e>> \o s
Prepended(u, j, s, m, S, rs) ==
    /\ u \in [1 .. m + 1 -> S \cup {j}]
    /\ u = [k \in 1 .. m + 1 |-> IF k = 1 THEN j ELSE s[k - 1]]
    /\ Ascending(u, S \cup {j})
    /\ InFront(rs[j].v, ValuesAt(rs, s, m)) = ValuesAt(rs, u, m + 1)

LEMMA AscendingPrepend ==
    ASSUME NEW S, NEW j \in Nat, S \subseteq Nat, \A x \in S : j < x,
           NEW m \in Nat, NEW s \in [1 .. m -> S], Ascending(s, S), NEW rs
    PROVE  \E u : Prepended(u, j, s, m, S, rs)
<1> DEFINE u == [k \in 1 .. m + 1 |-> IF k = 1 THEN j ELSE s[k - 1]]
<1>1. u \in [1 .. m + 1 -> S \cup {j}]
    OBVIOUS
<1>2. \A k, l \in 1 .. m + 1 : k < l => u[k] < u[l]
    <2> SUFFICES ASSUME NEW k \in 1 .. m + 1, NEW l \in 1 .. m + 1, k < l PROVE u[k] < u[l]
        OBVIOUS
    <2>1. l - 1 \in 1 .. m /\ s[l - 1] \in S /\ u[l] = s[l - 1]
        <3>1. l - 1 \in 1 .. m /\ l # 1
            OBVIOUS
        <3> QED BY <3>1
    <2>2. CASE k = 1
        BY <2>1, <2>2
    <2>3. CASE k # 1
        <3>1. k - 1 \in 1 .. m /\ k - 1 < l - 1 /\ u[k] = s[k - 1]
            BY <2>3
        <3>2. s[k - 1] < s[l - 1]
            BY <2>1, <3>1 DEF Ascending
        <3> QED BY <2>1, <3>1, <3>2
    <2> QED BY <2>2, <2>3
<1>3. \A x \in S \cup {j} : \E k \in 1 .. m + 1 : u[k] = x
    <2> SUFFICES ASSUME NEW x \in S \cup {j} PROVE \E k \in 1 .. m + 1 : u[k] = x
        OBVIOUS
    <2>1. CASE x = j
        <3>1. 1 \in 1 .. m + 1 /\ u[1] = j
            OBVIOUS
        <3> QED BY <2>1, <3>1
    <2>2. CASE x \in S
        <3>1. PICK k \in 1 .. m : s[k] = x
            BY <2>2 DEF Ascending
        <3>2. k + 1 \in 1 .. m + 1 /\ u[k + 1] = s[k]
            OBVIOUS
        <3> QED BY <3>1, <3>2
    <2> QED BY <2>1, <2>2
<1>4. <<rs[j].v>> \o ValuesAt(rs, s, m) = ValuesAt(rs, u, m + 1)
    <2> DEFINE a == <<rs[j].v>>
               b == ValuesAt(rs, s, m)
               c == ValuesAt(rs, u, m + 1)
               W == {rs[x].v : x \in S \cup {j}}
    <2>1. a \in Seq(W) /\ Len(a) = 1 /\ a[1] = rs[j].v
        OBVIOUS
    <2>2. b \in Seq(W) /\ Len(b) = m /\ \A k \in 1 .. m : b[k] = rs[s[k]].v
        BY DEF ValuesAt
    <2>3. c \in Seq(W) /\ Len(c) = m + 1 /\ \A k \in 1 .. m + 1 : c[k] = rs[u[k]].v
        <3> HIDE DEF u
        <3> QED BY <1>1 DEF ValuesAt
    <2> HIDE DEF a, b, c, W
    <2> DEFINE d == a \o b
    <2>4. /\ d \in Seq(W) /\ Len(d) = Len(a) + Len(b)
          /\ \A k \in 1 .. Len(a) + Len(b) : d[k] = IF k <= Len(a) THEN a[k] ELSE b[k - Len(a)]
        <3>1. a \in Seq(W) /\ b \in Seq(W)
            BY <2>1, <2>2
        <3> QED BY <3>1
    <2> HIDE DEF d
    <2>5. \A k \in 1 .. m + 1 : d[k] = c[k]
        <3> SUFFICES ASSUME NEW k \in 1 .. m + 1 PROVE d[k] = c[k]
            OBVIOUS
        <3>0. k \in 1 .. Len(a) + Len(b)
            BY <2>1, <2>2
        <3>1. CASE k = 1
            <4>1. d[1] = a[1] /\ u[1] = j
                BY <2>1, <2>4, <3>0, <3>1
            <4> QED BY <2>1, <2>3, <3>1, <4>1
        <3>2. CASE k # 1
            <4>1. k - 1 \in 1 .. m /\ ~(k <= 1) /\ u[k] = s[k - 1]
                BY <3>2
            <4>2. d[k] = b[k - 1]
                BY <2>1, <2>4, <3>0, <4>1
            <4> HIDE DEF u
            <4> QED BY <2>2, <2>3, <4>1, <4>2
        <3> QED BY <3>1, <3>2
    <2>6. Len(d) = Len(c)
        BY <2>1, <2>2, <2>3, <2>4
    <2>7. d = c
        BY <2>3, <2>4, <2>5, <2>6, SeqEqual
    <2> QED BY <2>7 DEF a, b, c, d
<1>5. Ascending(u, S \cup {j})
    BY <1>2, <1>3 DEF Ascending
<1>6. Prepended(u, j, s, m, S, rs)
    BY <1>1, <1>4, <1>5 DEF Prepended, InFront
<1> HIDE DEF u
<1> QED BY <1>6

\* What the last n results give: the first error among them, or the values of
\* those that are not skipped, in order.
Zipped(x, m, s, lo, n, rs, skip) ==
    /\ s \in [1 .. m -> (lo .. Len(rs)) \ skip]
    /\ Ascending(s, (lo .. Len(rs)) \ skip) /\ x = Ok(ValuesAt(rs, s, m))
    /\ skip = {} => m = n /\ \A k \in 1 .. m : s[k] = lo + k - 1
ZipsFrom(x, lo, n, rs, skip) ==
    /\ BadIn(rs, lo, Len(rs)) # {} => ~x.ok /\ IsFirst(x, rs, lo, Len(rs))
    /\ BadIn(rs, lo, Len(rs)) = {} => \E m \in 0 .. n : \E s : Zipped(x, m, s, lo, n, rs, skip)
ZipsLast(x, n, rs, skip) == ZipsFrom(x, Len(rs) - n + 1, n, rs, skip)

LEMMA ZipLastStep ==
    ASSUME NEW W, NEW rs \in Seq(Given1(W)), NEW skip, NEW n \in 1 .. Len(rs),
           ZipsLast(ZipTails(rs, skip)[n - 1], n - 1, rs, skip)
    PROVE  ZipsLast(ZipTails(rs, skip)[n], n, rs, skip)
<1> DEFINE N == Len(rs)
           i == N - n + 1
           x == ZipTails(rs, skip)[n - 1]
           y == ZipTails(rs, skip)[n]
           kept(l) == (l .. N) \ skip
<1>1. N \in Nat /\ i \in 1 .. N /\ N - (n - 1) + 1 = i + 1
    OBVIOUS
<1>2. y = IF ~rs[i].ok THEN rs[i] ELSE IF ~x.ok THEN x
          ELSE IF i \in skip THEN x ELSE Ok(<<rs[i].v>> \o x.v)
    BY ZipSteps
<1>3. BadIn(rs, i, N) = BadIn(rs, i + 1, N) \cup (IF rs[i].ok THEN {} ELSE {i})
    BY <1>1 DEF BadIn
<1>4. i .. N = (i + 1 .. N) \cup {i}
    BY <1>1
<1> HIDE DEF x, y, N
<1>5. /\ BadIn(rs, i + 1, N) # {} => ~x.ok /\ IsFirst(x, rs, i + 1, N)
      /\ BadIn(rs, i + 1, N) = {} => \E m \in 0 .. n - 1 : \E s : Zipped(x, m, s, i + 1, n - 1, rs, skip)
    <2>1. ZipsFrom(x, N - (n - 1) + 1, n - 1, rs, skip)
        BY DEF x, ZipsLast, N
    <2>2. ZipsFrom(x, i + 1, n - 1, rs, skip)
        BY <1>1, <2>1
    <2> HIDE DEF i
    <2> QED BY <2>2 DEF ZipsFrom, N
<1>6. BadIn(rs, i, N) # {} => ~y.ok /\ IsFirst(y, rs, i, N)
    <2>1. CASE ~rs[i].ok
        <3>1. y = rs[i] /\ i \in BadIn(rs, i, N)
            BY <1>2, <1>3, <2>1
        <3>2. \A j \in BadIn(rs, i, N) : i <= j
            BY <1>1 DEF BadIn
        <3> QED BY <2>1, <3>1, <3>2 DEF IsFirst
    <2>2. CASE rs[i].ok /\ BadIn(rs, i + 1, N) # {}
        <3>1. y = x /\ BadIn(rs, i, N) = BadIn(rs, i + 1, N)
            BY <1>2, <1>3, <1>5, <2>2
        <3> QED BY <1>5, <2>2, <3>1 DEF IsFirst
    <2> QED BY <1>3, <2>1, <2>2
<1>7. ASSUME BadIn(rs, i, N) = {}
      PROVE  \E m \in 0 .. n : \E s : Zipped(y, m, s, i, n, rs, skip)
    <2>1. rs[i].ok /\ BadIn(rs, i + 1, N) = {}
        BY <1>3, <1>7
    <2>2. PICK m \in 0 .. n - 1 : \E s : Zipped(x, m, s, i + 1, n - 1, rs, skip)
        BY <1>5, <2>1
    <2>3. PICK s : Zipped(x, m, s, i + 1, n - 1, rs, skip)
        BY <2>2
    <2>4. /\ s \in [1 .. m -> kept(i + 1)] /\ Ascending(s, kept(i + 1)) /\ x = Ok(ValuesAt(rs, s, m))
          /\ skip = {} => m = n - 1 /\ \A k \in 1 .. m : s[k] = (i + 1) + k - 1
        BY <2>3 DEF Zipped, N
    <2>5. x.ok /\ x.v = ValuesAt(rs, s, m)
        BY <2>4 DEF Ok
    <2>6. CASE i \in skip
        <3>1. y = x /\ kept(i) = kept(i + 1) /\ skip # {}
            BY <1>2, <1>4, <2>1, <2>5, <2>6
        <3>2. m \in 0 .. n
            BY <1>1
        <3>3. Zipped(y, m, s, i, n, rs, skip)
            BY <2>4, <3>1 DEF Zipped, N
        <3> QED BY <3>2, <3>3
    <2>7. CASE i \notin skip
        <3> DEFINE S == kept(i + 1)
        <3>1. y = Ok(InFront(rs[i].v, ValuesAt(rs, s, m))) /\ kept(i) = S \cup {i}
            BY <1>2, <1>4, <2>1, <2>5, <2>7 DEF InFront
        <3>2. S \subseteq Nat /\ i \in Nat /\ \A z \in S : i < z
            BY <1>1
        <3>3. s \in [1 .. m -> S] /\ Ascending(s, S) /\ m \in Nat
            BY <2>4
        <3>4. PICK u : Prepended(u, i, s, m, S, rs)
            <4> HIDE DEF S, kept, i
            <4> QED BY <3>2, <3>3, AscendingPrepend
        <3>5. m + 1 \in 0 .. n
            OBVIOUS
        <3> HIDE DEF i, S
        <3>6. ASSUME skip = {} PROVE m + 1 = n /\ \A k \in 1 .. m + 1 : u[k] = i + k - 1
            <4>1. m = n - 1 /\ \A k \in 1 .. m : s[k] = (i + 1) + k - 1
                BY <2>4, <3>6
            <4> SUFFICES ASSUME NEW k \in 1 .. m + 1 PROVE u[k] = i + k - 1
                BY <4>1
            <4>2. CASE k = 1
                BY <3>2, <3>4, <4>2 DEF Prepended
            <4>3. CASE k # 1
                <5>1. k - 1 \in 1 .. m /\ u[k] = s[k - 1]
                    BY <3>4, <4>3 DEF Prepended
                <5> QED BY <3>2, <4>1, <5>1
            <4> QED BY <4>2, <4>3
        <3>7. u \in [1 .. m + 1 -> kept(i)] /\ Ascending(u, kept(i)) /\ y = Ok(ValuesAt(rs, u, m + 1))
            <4> HIDE DEF kept
            <4> QED BY <3>1, <3>4 DEF Prepended
        <3>8. Zipped(y, m + 1, u, i, n, rs, skip)
            BY <3>6, <3>7 DEF Zipped, N
        <3> QED BY <3>5, <3>8
    <2> QED BY <2>6, <2>7
<1> HIDE DEF kept
<1>8. ZipsFrom(y, i, n, rs, skip)
    <2> HIDE DEF i
    <2> QED BY <1>6, <1>7 DEF ZipsFrom, N
<1> QED BY <1>8 DEF ZipsLast, y, N

LEMMA ZipsWhole ==
    ASSUME NEW W, NEW rs \in Seq(Given1(W)), NEW skip
    PROVE  ZipsFrom(ZipTails(rs, skip)[Len(rs)], 1, Len(rs), rs, skip)
<1> DEFINE N == Len(rs)
           tail == ZipTails(rs, skip)
           T == {n \in 0 .. N : ZipsLast(tail[n], n, rs, skip)}
<1>1. N \in Nat /\ N \in 0 .. N /\ 0 \in 0 .. N
    OBVIOUS
<1>2. 0 \in T
    <2> DEFINE lo == N - 0 + 1
               none == (lo .. N) \ skip
    <2>1. tail[0] = Ok(<<>>)
        BY ZipSteps
    <2>2. BadIn(rs, lo, N) = {} /\ none = {}
        BY <1>1 DEF BadIn
    <2>3. <<>> \in [1 .. 0 -> none] /\ Ascending(<<>>, none)
        BY <2>2 DEF Ascending
    <2>4. ValuesAt(rs, <<>>, 0) = <<>>
        BY DEF ValuesAt
    <2>5. Zipped(tail[0], 0, <<>>, lo, 0, rs, skip)
        <3> HIDE DEF lo, tail
        <3>1. skip = {} => 0 = 0 /\ \A k \in 1 .. 0 : <<>>[k] = lo + k - 1
            OBVIOUS
        <3> QED BY <2>1, <2>3, <2>4, <3>1 DEF Zipped
    <2>6. ZipsFrom(tail[0], lo, 0, rs, skip)
        <3>1. 0 \in 0 .. 0
            OBVIOUS
        <3> HIDE DEF lo, tail
        <3> QED BY <2>2, <2>5, <3>1 DEF ZipsFrom
    <2> QED BY <1>1, <2>6 DEF ZipsLast
<1>3. \A n \in 1 .. N : n - 1 \in T => n \in T
    <2> SUFFICES ASSUME NEW n \in 1 .. N, n - 1 \in T PROVE n \in T
        OBVIOUS
    <2>1. ZipsLast(tail[n], n, rs, skip)
        BY ZipLastStep
    <2> HIDE DEF tail
    <2> QED BY <1>1, <2>1
<1>4. ZipsLast(tail[N], N, rs, skip)
    <2> HIDE DEF T, N
    <2>1. \A n \in 0 .. N : n \in T
        BY <1>1, <1>2, <1>3, UpTo_n
    <2> QED BY <1>1, <2>1 DEF T
<1>5. N - N + 1 = 1
    BY <1>1
<1> QED BY <1>4, <1>5 DEF ZipsLast

\* What the loop over the first i results has made.
CollectsUpTo(x, i, rs) ==
    /\ BadIn(rs, 1, i) # {} => ~x.ok /\ IsFirst(x, rs, 1, i)
    /\ BadIn(rs, 1, i) = {} => x = Ok([k \in 1 .. i |-> rs[k].v])

LEMMA CollectsWhole ==
    ASSUME NEW W, NEW rs \in Seq(Given1(W))
    PROVE  CollectsUpTo(CollectResults(rs), Len(rs), rs)
<1> DEFINE N == Len(rs)
           out == Collected(rs)
           T == {i \in 0 .. N : CollectsUpTo(out[i], i, rs)}
<1>1. N \in Nat /\ N \in 0 .. N /\ 0 \in 0 .. N
    OBVIOUS
<1>2. 0 \in T
    <2>1. out[0] = Ok(<<>>)
        BY CollectSteps
    <2>2. BadIn(rs, 1, 0) = {} /\ [k \in 1 .. 0 |-> rs[k].v] = <<>>
        BY DEF BadIn
    <2> HIDE DEF out
    <2> QED BY <1>1, <2>1, <2>2 DEF CollectsUpTo
<1>3. \A i \in 1 .. N : i - 1 \in T => i \in T
    <2> SUFFICES ASSUME NEW i \in 1 .. N, i - 1 \in T PROVE CollectsUpTo(out[i], i, rs)
        BY <1>1
    <2> DEFINE x == out[i - 1]
               y == out[i]
               got == [k \in 1 .. i - 1 |-> rs[k].v]
    <2>1. y = IF ~x.ok THEN x ELSE IF ~rs[i].ok THEN rs[i] ELSE Ok(Append(x.v, rs[i].v))
        BY CollectSteps
    <2>2. CollectsUpTo(x, i - 1, rs)
        OBVIOUS
    <2>3. BadIn(rs, 1, i) = BadIn(rs, 1, i - 1) \cup (IF rs[i].ok THEN {} ELSE {i})
        BY <1>1 DEF BadIn
    <2> HIDE DEF x, y
    <2>4. CASE BadIn(rs, 1, i - 1) # {}
        <3>1. PICK j \in BadIn(rs, 1, i - 1) : x = rs[j] /\ \A k \in BadIn(rs, 1, i - 1) : j <= k
            BY <2>2, <2>4 DEF CollectsUpTo, IsFirst
        <3>2. y = x /\ ~x.ok /\ j \in BadIn(rs, 1, i) /\ j <= i
            BY <1>1, <2>1, <2>2, <2>3, <2>4, <3>1 DEF CollectsUpTo, BadIn
        <3>3. \A k \in BadIn(rs, 1, i) : j <= k
            BY <2>3, <3>1, <3>2
        <3> QED BY <2>3, <2>4, <3>1, <3>2, <3>3 DEF CollectsUpTo, IsFirst, y
    <2>5. CASE BadIn(rs, 1, i - 1) = {} /\ ~rs[i].ok
        <3>1. x.ok /\ y = rs[i] /\ BadIn(rs, 1, i) = {i}
            BY <2>1, <2>2, <2>3, <2>5 DEF CollectsUpTo, Ok
        <3>2. IsFirst(y, rs, 1, i)
            BY <1>1, <3>1 DEF IsFirst
        <3> QED BY <2>5, <3>1, <3>2 DEF CollectsUpTo, y
    <2>6. CASE BadIn(rs, 1, i - 1) = {} /\ rs[i].ok
        <3>1. x.ok /\ x.v = got
            <4>1. x = Ok(got)
                BY <2>2, <2>6 DEF CollectsUpTo
            <4> HIDE DEF got
            <4> QED BY <4>1 DEF Ok
        <3>2. y = Ok(Append(got, rs[i].v)) /\ BadIn(rs, 1, i) = {}
            BY <2>1, <2>3, <2>6, <3>1
        <3>3. Append(got, rs[i].v) = [k \in 1 .. i |-> rs[k].v]
            <4>1. \A k \in 1 .. N : rs[k].v \in W
                <5>1. \A k \in 1 .. N : rs[k] \in Given1(W)
                    OBVIOUS
                <5> QED BY <5>1 DEF Given1
            <4>2. got \in Seq(W) /\ Len(got) = i - 1
                BY <1>1, <4>1
            <4>3. DOMAIN Append(got, rs[i].v) = 1 .. i /\ Append(got, rs[i].v) \in Seq(W)
                BY <1>1, <4>1, <4>2
            <4>4. \A k \in 1 .. i : Append(got, rs[i].v)[k] = rs[k].v
                <5> SUFFICES ASSUME NEW k \in 1 .. i PROVE Append(got, rs[i].v)[k] = rs[k].v
                    OBVIOUS
                <5>1. CASE k = i
                    BY <1>1, <4>2, <5>1
                <5>2. CASE k # i
                    <6>1. k \in 1 .. i - 1 /\ got[k] = rs[k].v
                        BY <5>2
                    <6> HIDE DEF got
                    <6> QED BY <4>2, <6>1
                <5> QED BY <5>1, <5>2
            <4> QED BY <4>3, <4>4
        <3> QED BY <3>2, <3>3 DEF CollectsUpTo, y
    <2> QED BY <2>4, <2>5, <2>6
<1>4. CollectsUpTo(out[N], N, rs)
    <2> HIDE DEF T, N
    <2>1. \A i \in 0 .. N : i \in T
        BY <1>1, <1>2, <1>3, UpTo_n
    <2> QED BY <1>1, <2>1 DEF T
<1> QED BY <1>4 DEF CollectResults

\* zip_results, all_ok, zip_results_skip_void and collect_results, of any number of
\* results: all the values in order, the void ones left out, or the first error.
THEOREM ZipLaw ==
    ASSUME NEW W, NEW rs \in Seq(Given1(W)), NEW void
    PROVE  ZipsOK(rs, void)
<1> DEFINE N == Len(rs)
           bad == {i \in DOMAIN rs : ~rs[i].ok}
           first == rs[CHOOSE i \in bad : \A j \in bad : i <= j]
           Values == [k \in DOMAIN rs |-> rs[k].v]
<1>1. N \in Nat /\ DOMAIN rs = 1 .. N /\ bad = BadIn(rs, 1, N) /\ bad \subseteq Nat
    BY DEF BadIn
<1>2. ASSUME NEW x, IsFirst(x, rs, 1, N) PROVE x = first
    <2>1. PICK i \in bad : x = rs[i] /\ \A j \in bad : i <= j
        BY <1>1, <1>2 DEF IsFirst
    <2> HIDE DEF bad
    <2>2. PICK k \in bad : k = (CHOOSE l \in bad : \A j \in bad : l <= j) /\ \A j \in bad : k <= j
        BY <2>1
    <2>3. k = i
        <3>1. k <= i /\ i <= k /\ k \in Nat /\ i \in Nat
            BY <1>1, <2>1, <2>2
        <3> QED BY <3>1
    <2> QED BY <2>1, <2>2, <2>3
<1>3. ASSUME NEW skip, bad # {} PROVE ZipTails(rs, skip)[N] = first
    BY <1>1, <1>2, <1>3, ZipsWhole DEF ZipsFrom
<1>4. ASSUME NEW skip, bad = {}
      PROVE  \E m \in 0 .. N : \E s : Zipped(ZipTails(rs, skip)[N], m, s, 1, N, rs, skip)
    BY <1>1, <1>4, ZipsWhole DEF ZipsFrom
<1> HIDE DEF bad, first
<1>5. ZipResults(rs) = IF bad # {} THEN first ELSE Ok(Values)
    <2>1. CASE bad = {}
        <3>1. PICK m \in 0 .. N : \E s : Zipped(ZipTails(rs, {})[N], m, s, 1, N, rs, {})
            BY <1>4, <2>1
        <3>2. PICK s : Zipped(ZipTails(rs, {})[N], m, s, 1, N, rs, {})
            BY <3>1
        <3>3. m = N /\ \A k \in 1 .. N : s[k] = k
            <4>1. m = N /\ \A k \in 1 .. m : s[k] = 1 + k - 1
                BY <3>2 DEF Zipped
            <4>2. \A k \in 1 .. N : 1 + k - 1 = k
                BY <1>1
            <4> HIDE DEF N
            <4> QED BY <4>1, <4>2
        <3>4. ValuesAt(rs, s, m) = Values
            <4>1. \A k \in 1 .. N : rs[s[k]].v = rs[k].v
                BY <3>3
            <4>2. ValuesAt(rs, s, m) = ValuesAt(rs, s, N)
                BY <3>3
            <4>3. ValuesAt(rs, s, N) = [k \in 1 .. N |-> rs[k].v]
                <5> HIDE DEF N
                <5> QED BY <4>1 DEF ValuesAt
            <4> QED BY <1>1, <4>2, <4>3
        <3>5. ZipTails(rs, {})[N] = Ok(ValuesAt(rs, s, m))
            BY <3>2 DEF Zipped
        <3> QED BY <2>1, <3>4, <3>5 DEF ZipResults
    <2> QED BY <1>3, <2>1 DEF ZipResults
<1>6. CollectResults(rs) = IF bad # {} THEN first ELSE Ok(Values)
    BY <1>1, <1>2, CollectsWhole DEF CollectsUpTo
<1>7. AllOk(rs) = IF bad # {} THEN first ELSE Ok(Unit)
    <2>1. CASE bad = {}
        <3> DEFINE all == DOMAIN rs
        <3>1. PICK m \in 0 .. N : \E s : Zipped(ZipTails(rs, all)[N], m, s, 1, N, rs, all)
            BY <1>4, <2>1
        <3>2. PICK s : Zipped(ZipTails(rs, all)[N], m, s, 1, N, rs, all)
            BY <3>1
        <3>3. s \in [1 .. m -> {}]
            BY <1>1, <3>2 DEF Zipped
        <3>4. m = 0
            BY <3>3
        <3>5. ValuesAt(rs, s, m) = <<>>
            BY <3>4 DEF ValuesAt
        <3>6. ZipTails(rs, all)[N] = Ok(ValuesAt(rs, s, m))
            BY <3>2 DEF Zipped
        <3> QED BY <2>1, <3>5, <3>6 DEF AllOk, Unit
    <2> QED BY <1>3, <2>1 DEF AllOk
<1>8. bad # {} => ZipResultsSkipVoid(rs, void) = first
    BY <1>3 DEF ZipResultsSkipVoid
<1>9. ASSUME bad = {}
      PROVE  \E m \in 0 .. N : \E s \in [1 .. m -> DOMAIN rs \ void] :
                /\ Ascending(s, DOMAIN rs \ void)
                /\ ZipResultsSkipVoid(rs, void) = Ok([k \in 1 .. m |-> rs[s[k]].v])
    <2>1. PICK m \in 0 .. N : \E s : Zipped(ZipTails(rs, void)[N], m, s, 1, N, rs, void)
        BY <1>4, <1>9
    <2>2. PICK s : Zipped(ZipTails(rs, void)[N], m, s, 1, N, rs, void)
        BY <2>1
    <2>3. /\ s \in [1 .. m -> DOMAIN rs \ void] /\ Ascending(s, DOMAIN rs \ void)
          /\ ZipResultsSkipVoid(rs, void) = Ok(ValuesAt(rs, s, m))
        BY <1>1, <2>2 DEF Zipped, ZipResultsSkipVoid
    <2> QED BY <2>3 DEF ValuesAt
<1> QED BY <1>5, <1>6, <1>7, <1>8, <1>9 DEF ZipsOK, bad, first

\* Whatever chain of calls or list of results the functions of result_monad.hpp are
\* given, of any length and over any values: the laws that the run checks hold.
THEOREM ResultLawsHold ==
    ASSUME NEW V, NEW W,
           part = "railway" /\ input # None => IsRailway(input[1].r, input[1].calls, input[1].void, V),
           part = "zip" /\ input # None => input[1].rs \in Seq(Given1(W))
    PROVE  ResultLaws
<1>1. ASSUME part = "railway", input # None
      PROVE  RailwayOK(input[1].r, input[1].calls, input[1].void)
    BY <1>1, RailwayLaw
<1>2. ASSUME part = "zip", input # None
      PROVE  ZipsOK(input[1].rs, input[1].void \cap DOMAIN input[1].rs)
    BY <1>2, ZipLaw
<1> QED BY <1>1, <1>2 DEF ResultLaws, On

\* A sequence of the run's inputs is a sequence.
LEMMA UpToSeq ==
    ASSUME NEW S, NEW n \in Nat, NEW x \in UpTo(S, n)
    PROVE  x \in Seq(S)
<1>1. PICK m \in 0 .. n : x \in [1 .. m -> S]
    BY DEF UpTo
<1> QED BY <1>1

\* The inputs of the run are among them: what TLC enumerates is an instance.
COROLLARY RunResultLaws ==
    ASSUME part = "railway" /\ input # None => input[1] \in Railways,
           part = "zip" /\ input # None => input[1] \in Zips
    PROVE  ResultLaws
<1> DEFINE V == {"v", "e"} \cup Nat
           W == {<<"a">>, <<"b">>, <<"e">>, <<"f">>}
<1>1. ASSUME NEW x \in Railways
      PROVE  IsRailway(x.r, x.calls, x.void, V)
    <2>1. /\ \/ x.r \in {Ok(<<"v">>), Err(<<"e">>)} /\ x.void \in {FALSE}
             \/ x.r \in {Ok(Unit), Err(<<"e">>)} /\ x.void \in {TRUE}
          /\ x.calls \in UpTo(Call, 3)
          /\ x.void => \A i \in DOMAIN x.calls : x.calls[i].op # "map"
        BY DEF Railways
    <2>2. x.calls \in Seq(Call) /\ x.void \in BOOLEAN
        BY <2>1, UpToSeq
    <2>3. <<"v">> \in Seq(V) /\ <<"e">> \in Seq(V) /\ Unit \in Seq(V)
        BY DEF Unit
    <2>4. x.r \in ResultsOf(V)
        <3> HIDE DEF V
        <3>1. \A v \in Seq(V) : Ok(v) \in ResultsOf(V) /\ Err(v) \in ResultsOf(V)
            BY DEF ResultsOf, Ok, Err
        <3> QED BY <2>1, <2>3, <3>1
    <2>5. ASSUME x.void
          PROVE  x.r.ok => x.r.v = Unit
        <3>1. x.r = Ok(Unit) \/ x.r = Err(<<"e">>)
            BY <2>1, <2>5, Zenon
        <3>2. Ok(Unit).v = Unit /\ ~Err(<<"e">>).ok
            BY DEF Ok, Err
        <3> QED BY <3>1, <3>2
    <2>6. 1 .. Len(x.calls) \subseteq V
        BY <2>2
    <2> QED BY <2>1, <2>2, <2>4, <2>5, <2>6 DEF IsRailway
<1>2. ASSUME NEW x \in Zips
      PROVE  x.rs \in Seq(Given1(W))
    <2>1. x.rs \in Seq({Ok(<<"a">>), Ok(<<"b">>), Err(<<"e">>), Err(<<"f">>)})
        BY UpToSeq DEF Zips
    <2>2. {Ok(<<"a">>), Ok(<<"b">>), Err(<<"e">>), Err(<<"f">>)} \subseteq Given1(W)
        BY DEF Given1, Ok, Err
    <2> QED BY <2>1, <2>2
<1> HIDE DEF V, W
<1>3. part = "railway" /\ input # None => IsRailway(input[1].r, input[1].calls, input[1].void, V)
    BY <1>1
<1>4. part = "zip" /\ input # None => input[1].rs \in Seq(Given1(W))
    BY <1>2
<1> QED BY <1>3, <1>4, ResultLawsHold

-----------------------------------------------------------------------------
(* Messages: JSON values of a set J that holds the parts of its members.   *)

JsonValues(J) ==
    \A j \in J : \/ j = JNull
                 \/ \E b \in BOOLEAN : j = JBool(b)
                 \/ \E n \in Int : j = JNum(n)
                 \/ \E x \in STRING : j = JStr(x)
                 \/ \E e \in Seq(J) : j = JArr(e)
                 \/ \E d \in SUBSET STRING : \E f \in [d -> J] : j = JObj(f)

AnyMeta == {NoMeta} \cup [total : Int, offset : Nat, limit : Nat]
AnyData ==
    {NoData} \cup {OneData(v) : v \in Int} \cup {ListData(s, m) : s \in Seq(Int), m \in AnyMeta}
AnyError(J) ==
    [code : Int, key : STRING, status : Int, json : BOOLEAN, alt : {NoBody} \cup J, preview : {FALSE}]
AnyAnswer(J) ==
    [kind : {"data"}, data : AnyData, status : Int]
      \cup [kind : {"success", "redirect", "none"}, status : Int]
      \cup [kind : {"inline"}, body : {EmptyBody, OtherText} \cup {Text(j) : j \in J}, status : Int]
      \cup [kind : {"file"}, opens : BOOLEAN, status : Int]
      \cup [kind : {"error"}, error : AnyError(J)]

\* The tag of a JSON value tells which one it is.
LEMMA JsonTags ==
    /\ JNull.t = "null" /\ \A b : JBool(b).t = "bool" /\ JBool(b).b = b
    /\ \A n : JNum(n).t = "num" /\ JNum(n).n = n
    /\ \A x : JStr(x).t = "str" /\ JStr(x).s = x
    /\ \A e : JArr(e).t = "arr" /\ JArr(e).e = e
    /\ \A f : JObj(f).t = "obj" /\ JObj(f).f = f
BY DEF JNull, JBool, JNum, JStr, JArr, JObj

\* Data with its meta data survives JSON, except that nothing is read as malformed.
LEMMA DataSurvives ==
    ASSUME NEW d \in AnyData
    PROVE  /\ d # NoData => DataFromJson(DataToJson(d)) = Got(d)
           /\ d = NoData => DataFromJson(DataToJson(d)) = Threw
           /\ DataToJson(d).t = "obj"
           /\ HasField(DataToJson(d), "data") /\ ~HasField(DataToJson(d), "error")
           /\ DataToJson(d).f["data"].t = "num" <=> d.kind = "one"
           /\ d.kind = "one" => DataToJson(d).f["data"].n = d.one
<1>1. CASE d = NoData
    BY <1>1 DEF NoData, NoMeta, DataToJson, DataFromJson, JObj, JNull, HasField, IsObject, ValueTo, Threw, MetaThrows
<1>2. ASSUME NEW v \in Int, d = OneData(v)
      PROVE  /\ d # NoData /\ DataFromJson(DataToJson(d)) = Got(d)
             /\ DataToJson(d) = JObj([k \in {"data"} |-> JNum(v)]) /\ d.kind = "one" /\ d.one = v
    <2>1. DataToJson(d) = JObj([k \in {"data"} |-> JNum(v)]) /\ d.kind = "one" /\ d.one = v /\ d # NoData
        BY <1>2 DEF OneData, NoData, DataToJson
    <2>2. DataFromJson(DataToJson(d)) = Got([OneData(v) EXCEPT !.meta = NoMeta])
        <3> DEFINE g == [k \in {"data"} |-> JNum(v)]
                   j == JObj(g)
        <3>1. DOMAIN g = {"data"} /\ g["data"] = JNum(v)
            OBVIOUS
        <3> HIDE DEF g
        <3>2. j.t = "obj" /\ j.f = g
            BY JsonTags
        <3> HIDE DEF j
        <3>3. ~HasField(j, "meta") /\ HasField(j, "data") /\ j.f["data"] = JNum(v)
            BY <3>1, <3>2 DEF HasField, IsObject
        <3>4. ValueTo(JNum(v)) = Got(v) /\ JNum(v).t # "arr"
            BY JsonTags DEF ValueTo
        <3>5. ~Got(v).threw /\ Got(v).v = v
            BY DEF Got
        <3>6. DataFromJson(j) = Got([OneData(v) EXCEPT !.meta = NoMeta])
            BY <3>3, <3>4, <3>5 DEF DataFromJson
        <3> QED BY <2>1, <3>6 DEF g, j
    <2>3. [OneData(v) EXCEPT !.meta = NoMeta] = d
        BY <1>2 DEF OneData
    <2> QED BY <2>1, <2>2, <2>3
<1>3. ASSUME NEW s \in Seq(Int), NEW m \in AnyMeta, d = ListData(s, m)
      PROVE  /\ d # NoData /\ DataFromJson(DataToJson(d)) = Got(d) /\ d.kind = "list"
             /\ DataToJson(d).t = "obj" /\ DataToJson(d).f["data"].t = "arr"
             /\ "data" \in DOMAIN DataToJson(d).f /\ "error" \notin DOMAIN DataToJson(d).f
    <2> DEFINE e == [i \in DOMAIN s |-> JNum(s[i])]
               j == DataToJson(d)
    <2>1. d.kind = "list" /\ d.list = s /\ d.meta = m /\ d # NoData
        BY <1>3 DEF ListData, NoData
    <2>2. \A i \in DOMAIN s : ~ValueTo(e[i]).threw /\ ValueTo(e[i]).v = s[i]
        BY JsonTags DEF ValueTo, Got
    <2>3. [i \in DOMAIN e |-> ValueTo(e[i]).v] = s
        BY <2>2
    <2>4. CASE m = NoMeta
        <3>1. j = JObj([k \in {"data"} |-> JArr(e)])
            BY <2>1, <2>4 DEF DataToJson
        <3> HIDE DEF e, j
        <3>2. j.t = "obj" /\ DOMAIN j.f = {"data"} /\ j.f["data"] = JArr(e)
            BY <3>1, JsonTags
        <3>3. ~HasField(j, "meta") /\ HasField(j, "data") /\ j.f["data"].t = "arr" /\ j.f["data"].e = e
            BY <3>2, JsonTags DEF HasField, IsObject
        <3>4. DataFromJson(j) = Got(ListData([i \in DOMAIN e |-> ValueTo(e[i]).v], NoMeta))
            <4>1. ~ \E i \in DOMAIN e : ValueTo(e[i]).threw
                BY <2>2 DEF e
            <4> QED BY <3>3, <4>1 DEF DataFromJson
        <3> QED BY <1>3, <2>1, <2>3, <2>4, <3>2, <3>3, <3>4 DEF j
    <2>5. CASE m # NoMeta
        <3> DEFINE mj == MetaToJson(m)
        <3>1. j = JObj([k \in {"data", "meta"} |-> IF k = "data" THEN JArr(e) ELSE mj])
            BY <2>1, <2>5 DEF DataToJson
        <3>2. /\ m \in [total : Int, offset : Nat, limit : Nat]
              /\ mj = JObj([k \in {"total", "offset", "limit"} |-> JNum(m[k])])
            BY <2>5 DEF AnyMeta, MetaToJson
        <3>3. ~MetaThrows(mj) /\ MetaFromJson(mj) = m
            <4>1. mj.t = "obj" /\ mj.f = [k \in {"total", "offset", "limit"} |-> JNum(m[k])]
                BY <3>2, JsonTags
            <4>2. \A k \in {"total", "offset", "limit"} :
                    HasField(mj, k) /\ mj.f[k].t = "num" /\ mj.f[k].n = m[k]
                BY <4>1, JsonTags DEF HasField, IsObject
            <4> HIDE DEF mj
            <4>3. ~MetaThrows(mj)
                <5>1. m["offset"] \in Nat /\ m["limit"] \in Nat
                    BY <3>2
                <5>2. ASSUME NEW n \in Nat
                      PROVE  ~(n < 0)
                    OBVIOUS
                <5>3. ASSUME NEW k \in {"total", "offset", "limit"}
                      PROVE  mj.f[k].t = "num" /\ (k # "total" => ~(mj.f[k].n < 0))
                    <6>1. mj.f[k].t = "num" /\ mj.f[k].n = m[k]
                        BY <4>2
                    <6>2. k # "total" => m[k] \in Nat
                        BY <5>1
                    <6> QED BY <5>2, <6>1, <6>2
                <5> QED BY <5>3 DEF MetaThrows
            <4>4. MetaFromJson(mj) = [k \in {"total", "offset", "limit"} |-> m[k]]
                BY <4>2 DEF MetaFromJson
            <4> QED BY <3>2, <4>3, <4>4
        <3> HIDE DEF e, j, mj
        <3>4. /\ j.t = "obj" /\ DOMAIN j.f = {"data", "meta"}
              /\ j.f["data"] = JArr(e) /\ j.f["meta"] = mj
            BY <3>1, JsonTags
        <3>5. /\ HasField(j, "meta") /\ HasField(j, "data")
              /\ j.f["data"].t = "arr" /\ j.f["data"].e = e
            BY <3>4, JsonTags DEF HasField, IsObject
        <3>6. DataFromJson(j) = Got(ListData([i \in DOMAIN e |-> ValueTo(e[i]).v], m))
            <4>1. ~ \E i \in DOMAIN e : ValueTo(e[i]).threw
                BY <2>2 DEF e
            <4> QED BY <3>3, <3>4, <3>5, <4>1 DEF DataFromJson
        <3> QED BY <1>3, <2>1, <2>3, <3>4, <3>5, <3>6 DEF j
    <2> QED BY <2>4, <2>5
<1>4. ASSUME NEW v \in Int, d = OneData(v)
      PROVE  /\ DataToJson(d).t = "obj" /\ DOMAIN DataToJson(d).f = {"data"}
             /\ DataToJson(d).f["data"].t = "num" /\ DataToJson(d).f["data"].n = v
    <2> DEFINE g == [k \in {"data"} |-> JNum(v)]
    <2>1. DOMAIN g = {"data"} /\ g["data"] = JNum(v) /\ DataToJson(d) = JObj(g)
        BY <1>2, <1>4
    <2> HIDE DEF g
    <2> QED BY <2>1, JsonTags
<1>5. CASE \E v \in Int : d = OneData(v)
    BY <1>2, <1>4, <1>5 DEF HasField, IsObject
<1>6. CASE \E s \in Seq(Int), m \in AnyMeta : d = ListData(s, m)
    BY <1>3, <1>6 DEF HasField, IsObject
<1> QED BY <1>1, <1>5, <1>6 DEF AnyData

\* Ok and Err, and an error that the decoding makes of a response.
LEMMA ResultFields ==
    /\ \A v : Ok(v).ok /\ Ok(v).v = v
    /\ \A e : ~Err(e).ok /\ Err(e).v = e
    /\ \A c, ex : ~DecodeError(c, ex).ok /\ DecodeError(c, ex).v.status = ex.status
<1>1. \A v : Ok(v).ok /\ Ok(v).v = v
    BY DEF Ok
<1>2. \A e : ~Err(e).ok /\ Err(e).v = e
    BY DEF Err
<1>3. ASSUME NEW c, NEW ex
      PROVE  DecodeError(c, ex).v.status = ex.status
    <2> DEFINE e == [MakeError(c, NoKey) EXCEPT !.status = ex.status, !.preview = (ex # NoResponse)]
    <2>1. e.status = ex.status
        BY DEF MakeError
    <2> HIDE DEF e
    <2>2. DecodeError(c, ex) = Err(e)
        BY DEF DecodeError, e
    <2> QED BY <1>2, <2>1, <2>2
<1>4. ASSUME NEW c, NEW ex
      PROVE  ~DecodeError(c, ex).ok
    BY <1>2 DEF DecodeError
<1> QED BY <1>1, <1>2, <1>3, <1>4

\* A body is one of three.
LEMMA BodyKinds ==
    /\ \A j : Text(j) # EmptyBody /\ Text(j) # OtherText /\ Text(j).j = j
    /\ EmptyBody # OtherText
BY DEF Text, EmptyBody, OtherText

\* What the three calls make of a response whose body is the text of a JSON value.
LEMMA JsonDecoded ==
    ASSUME NEW ex, NEW j, ex.body = Text(j)
    PROVE  /\ ParseJsonResponseResult(ex) = ResultFromJson(j)
           /\ ParseJsonResponse(ex) = IF ValueTo(j).threw THEN DecodeError(9003, ex) ELSE Ok(ValueTo(j).v)
           /\ ParseJsonDataResponse(ex) =
                IF j.t # "obj" THEN DecodeError(9005, ex)
                ELSE IF ~HasField(j, "data") THEN DecodeError(9004, ex)
                ELSE IF ValueTo(j.f["data"]).threw THEN DecodeError(9003, ex)
                ELSE Ok(ValueTo(j.f["data"]).v)
<1>1. ex # NoResponse
    BY BodyKinds DEF NoResponse
<1>2. GetJsonResponse(ex) = Ok(j)
    BY <1>1, BodyKinds DEF GetJsonResponse
<1>3. GetJsonResponse(ex).ok /\ GetJsonResponse(ex).v = j
    BY <1>2, ResultFields
<1> QED BY <1>3 DEF ParseJsonResponseResult, ParseJsonResponse, ParseJsonDataResponse

\* Without one they make the same error.
LEMMA NothingDecoded ==
    ASSUME NEW ex, ex.body \in {EmptyBody, OtherText}
    PROVE  \E c : /\ ParseJsonResponseResult(ex) = DecodeError(c, ex)
                  /\ ParseJsonResponse(ex) = DecodeError(c, ex)
                  /\ ParseJsonDataResponse(ex) = DecodeError(c, ex)
<1>1. PICK c : GetJsonResponse(ex) = DecodeError(c, ex)
    BY BodyKinds DEF GetJsonResponse
<1>2. ~GetJsonResponse(ex).ok
    BY <1>1, ResultFields
<1> QED BY <1>1, <1>2 DEF ParseJsonResponseResult, ParseJsonResponse, ParseJsonDataResponse

\* What an error or a value that was read tells.
LEMMA GotFields ==
    /\ \A v : ~Got(v).threw /\ Got(v).v = v
    /\ Threw.threw
BY DEF Got, Threw

\* value_to<ApiResponseResult<T>> of an object without "error", and of anything else.
LEMMA ResultRead ==
    ASSUME NEW j
    PROVE  /\ j.t # "obj" => ~ResultFromJson(j).ok
           /\ ~HasField(j, "data") => ~ResultFromJson(j).ok
           /\ j.t = "obj" /\ HasField(j, "data") /\ ~HasField(j, "error") =>
                ResultFromJson(j) = IF DataFromJson(j).threw THEN Err(MakeError(9001, NoKey))
                                    ELSE Ok(DataFromJson(j).v)
BY ResultFields DEF ResultFromJson

\* One number and its meta data are all that can keep data from being read.
LEMMA OneRead ==
    ASSUME NEW j, HasField(j, "data"), j.f["data"].t = "num", DataFromJson(j).threw
    PROVE  HasField(j, "meta") /\ MetaThrows(j.f["meta"])
<1>1. SUFFICES ASSUME ~(HasField(j, "meta") /\ MetaThrows(j.f["meta"]))
               PROVE  FALSE
    OBVIOUS
<1>2. ValueTo(j.f["data"]) = Got(j.f["data"].n)
    BY DEF ValueTo
<1>3. ~ValueTo(j.f["data"]).threw
    BY <1>2, GotFields
<1>4. \E d : DataFromJson(j) = Got(d)
    BY <1>1, <1>3 DEF DataFromJson
<1> QED BY <1>4, GotFields

\* Whatever a response holds: what the calls say of it agrees.
LEMMA DecodingsAgree ==
    ASSUME NEW ex, ex.status \in Int,
           ex.body \in {EmptyBody, OtherText} \/ \E j : ex.body = Text(j)
    PROVE  LET res == ParseJsonResponseResult(ex)
               one == ParseJsonDataResponse(ex)
               top == ParseJsonResponse(ex)
           IN /\ (one.ok /\ ~res.ok) => \/ HasField(ex.body.j, "error")
                                        \/ HasField(ex.body.j, "meta") /\ MetaThrows(ex.body.j.f["meta"])
              /\ top.ok => ~res.ok /\ ~one.ok
              /\ (~one.ok => one.v.status = ex.status) /\ (~top.ok => top.v.status = ex.status)
              /\ Is2xx(ex) = Expect2xx(ex).ok /\ Is2xx(ex) = ~Not2xx(ex)
<1> DEFINE res == ParseJsonResponseResult(ex)
           one == ParseJsonDataResponse(ex)
           top == ParseJsonResponse(ex)
<1>1. Is2xx(ex) = Expect2xx(ex).ok /\ Is2xx(ex) = ~Not2xx(ex)
    <2>1. Is2xx(ex) = ~Not2xx(ex)
        BY DEF Is2xx, Not2xx
    <2>2. CASE Not2xx(ex)
        <3>1. \E e : Expect2xx(ex) = Err(e)
            BY <2>2 DEF Expect2xx, Not2xx
        <3>2. ~Expect2xx(ex).ok
            BY <3>1, ResultFields
        <3>3. Expect2xx(ex).ok = FALSE
            BY <3>1 DEF Err
        <3> QED BY <2>1, <2>2, <3>3 DEF Is2xx
    <2>3. CASE ~Not2xx(ex)
        <3>1. Expect2xx(ex) = Ok(Unit)
            BY <2>3 DEF Expect2xx, Not2xx
        <3>2. Expect2xx(ex).ok = TRUE
            BY <3>1 DEF Ok
        <3>3. Is2xx(ex) = TRUE
            BY <2>1, <2>3 DEF Is2xx, Not2xx
        <3> QED BY <2>1, <3>2, <3>3
    <2> QED BY <2>2, <2>3
<1>2. CASE ex.body \in {EmptyBody, OtherText}
    <2>1. PICK c : res = DecodeError(c, ex) /\ one = DecodeError(c, ex) /\ top = DecodeError(c, ex)
        BY <1>2, NothingDecoded
    <2> HIDE DEF res, one, top
    <2> SUFFICES /\ ~one.ok /\ ~top.ok /\ one.v.status = ex.status /\ top.v.status = ex.status
        BY <1>1 DEF res, one, top
    <2> QED BY <2>1, ResultFields
<1>3. ASSUME NEW j, ex.body = Text(j)
      PROVE  /\ (one.ok /\ ~res.ok) => HasField(j, "error") \/ (HasField(j, "meta") /\ MetaThrows(j.f["meta"]))
             /\ top.ok => ~res.ok /\ ~one.ok
             /\ (~one.ok => one.v.status = ex.status) /\ (~top.ok => top.v.status = ex.status)
    <2> HIDE DEF res, one, top
    <2>1. /\ res = ResultFromJson(j)
          /\ top = IF ValueTo(j).threw THEN DecodeError(9003, ex) ELSE Ok(ValueTo(j).v)
          /\ one = IF j.t # "obj" THEN DecodeError(9005, ex)
                   ELSE IF ~HasField(j, "data") THEN DecodeError(9004, ex)
                   ELSE IF ValueTo(j.f["data"]).threw THEN DecodeError(9003, ex)
                   ELSE Ok(ValueTo(j.f["data"]).v)
        BY <1>3, JsonDecoded DEF res, one, top
    <2>2. \A x : ~ValueTo(x).threw <=> x.t = "num"
        BY GotFields DEF ValueTo
    <2>3. (~one.ok => one.v.status = ex.status) /\ (~top.ok => top.v.status = ex.status)
        BY <2>1, ResultFields
    <2>4. top.ok => j.t = "num"
        BY <2>1, <2>2, ResultFields
    <2>5. j.t = "num" => ~res.ok /\ ~one.ok
        BY <2>1, ResultFields, ResultRead
    <2>6. one.ok => j.t = "obj" /\ HasField(j, "data") /\ j.f["data"].t = "num"
        BY <2>1, <2>2, ResultFields
    <2>7. ASSUME one.ok, ~res.ok, ~HasField(j, "error")
          PROVE  HasField(j, "meta") /\ MetaThrows(j.f["meta"])
        <3>1. DataFromJson(j).threw
            BY <2>1, <2>6, <2>7, ResultRead, ResultFields
        <3> QED BY <2>6, <2>7, <3>1, OneRead
    <2>8. (one.ok /\ ~res.ok) => HasField(j, "error") \/ (HasField(j, "meta") /\ MetaThrows(j.f["meta"]))
        BY <2>7, Zenon
    <2>9. top.ok => ~res.ok /\ ~one.ok
        BY <2>4, <2>5, Zenon
    <2> QED BY <2>3, <2>8, <2>9, Zenon
<1>4. ASSUME NEW j, ex.body = Text(j)
      PROVE  ex.body.j = j
    BY <1>4, BodyKinds
<1> HIDE DEF res, one, top
<1>5. CASE \E j : ex.body = Text(j)
    <2>1. PICK j : ex.body = Text(j)
        BY <1>5
    <2>2. ex.body.j = j
        BY <1>4, <2>1
    <2> QED BY <1>1, <1>3, <2>1, <2>2 DEF res, one, top
<1> QED BY <1>2, <1>5

Exchanged(a) == IF Generate(a).ok THEN Generate(a).v ELSE NoResponse

\* An answer that can be generated is the response that the client gets.
LEMMA Responded ==
    ASSUME NEW s, NEW b
    PROVE  /\ Response(s, b).ok
           /\ Response(s, b).v.status = s /\ Response(s, b).v.body = b
<1> DEFINE ex == [status |-> s, body |-> b, location |-> FALSE]
<1>1. ex.status = s /\ ex.body = b
    OBVIOUS
<1> HIDE DEF ex
<1>2. Response(s, b) = Ok(ex)
    BY DEF Response, ex
<1> QED BY <1>1, <1>2, ResultFields

\* The client never takes an answer without "data" for a good one.
LEMMA NoDataNoResult ==
    ASSUME NEW ex,
           \/ ex.body \in {EmptyBody, OtherText}
           \/ \E j : ex.body = Text(j) /\ ~HasField(j, "data")
    PROVE  ~ParseJsonResponseResult(ex).ok
<1>1. CASE ex.body \in {EmptyBody, OtherText}
    BY <1>1, NothingDecoded, ResultFields
<1>2. ASSUME NEW j, ex.body = Text(j), ~HasField(j, "data")
      PROVE  ~ParseJsonResponseResult(ex).ok
    <2>1. ParseJsonResponseResult(ex) = ResultFromJson(j)
        BY <1>2, JsonDecoded
    <2> QED BY <1>2, <2>1, ResultRead
<1> QED BY <1>1, <1>2

\* An error that is sent as JSON keeps its code and its key, and loses its status.
LEMMA ErrorSurvives ==
    ASSUME NEW J, NEW e \in AnyError(J), e.json, e.alt = NoBody
    PROVE  \E j : /\ ErrorToResponse(e) = Text(j)
                  /\ ResultFromJson(j) = Err([e EXCEPT !.status = 500])
<1> DEFINE f == [k \in {"code", "key"} |-> IF k = "code" THEN JNum(e.code) ELSE JStr(e.key)]
           g == [k \in {"error"} |-> ErrorToJson(e)]
<1>1. DOMAIN f = {"code", "key"} /\ f["code"] = JNum(e.code) /\ f["key"] = JStr(e.key)
    OBVIOUS
<1>2. DOMAIN g = {"error"} /\ g["error"] = ErrorToJson(e)
    OBVIOUS
<1>3. ErrorToJson(e) = JObj(f)
    BY DEF ErrorToJson
<1>4. ErrorToResponse(e) = Text(JObj(g))
    BY DEF ErrorToResponse
<1> HIDE DEF f, g
<1>5. JObj(f).t = "obj" /\ JObj(f).f = f /\ JObj(g).t = "obj" /\ JObj(g).f = g
    BY JsonTags
<1>6. HasField(JObj(f), "code") /\ HasField(JObj(f), "key")
    BY <1>1, <1>5 DEF HasField, IsObject
<1>7. /\ f["code"].t = "num" /\ f["code"].n = e.code
      /\ f["key"].t = "str" /\ f["key"].s = e.key
    BY <1>1, JsonTags
<1>8. ErrorFromJson(JObj(f)) = Got(MakeError(e.code, e.key))
    <2>1. \A k \in {"what", "params", "response_status", "content_type", "alternative_body"} :
             ~HasField(JObj(f), k)
        BY <1>1, <1>5 DEF HasField
    <2> QED BY <1>5, <1>6, <1>7, <2>1 DEF ErrorFromJson, MakeError
<1>9. MakeError(e.code, e.key) = [e EXCEPT !.status = 500]
    <2>1. e \in [code : Int, key : STRING, status : Int, json : BOOLEAN, alt : {NoBody} \cup J, preview : {FALSE}]
        BY DEF AnyError
    <2>2. e.json = TRUE /\ e.preview = FALSE
        BY <2>1
    <2>3. PICK c, k, s, y, b, p :
             /\ e = [code |-> c, key |-> k, status |-> s, json |-> y, alt |-> b, preview |-> p]
             /\ c = e.code /\ k = e.key /\ y = e.json /\ b = e.alt /\ p = e.preview
        BY <2>1
    <2>4. e = [code |-> c, key |-> k, status |-> s, json |-> y, alt |-> b, preview |-> p]
        BY <2>3, Zenon
    <2>5. [e EXCEPT !.status = 500] = [code |-> c, key |-> k, status |-> 500, json |-> y, alt |-> b, preview |-> p]
        BY ONLY <2>4
    <2>6. y = TRUE /\ b = NoBody /\ p = FALSE
        BY <2>2, <2>3, Zenon
    <2>7. c = e.code /\ k = e.key
        BY <2>3, Zenon
    <2> QED BY <2>5, <2>6, <2>7, Zenon DEF MakeError
<1>10. HasField(JObj(g), "error") /\ JObj(g).f["error"] = JObj(f)
    BY <1>2, <1>3, <1>5 DEF HasField, IsObject
<1>11. ResultFromJson(JObj(g)) = Err(MakeError(e.code, e.key))
    BY <1>5, <1>8, <1>10, GotFields DEF ResultFromJson
<1> QED BY <1>4, <1>9, <1>11

\* The fields of the answers, kind by kind.
LEMMA AnswerKinds ==
    ASSUME NEW J, NEW a \in AnyAnswer(J)
    PROVE  \/ a.kind = "data" /\ a.data \in AnyData /\ a.status \in Int
           \/ a.kind \in {"success", "redirect", "none"} /\ a.status \in Int
           \/ /\ a.kind = "inline" /\ a.status \in Int
              /\ a.body \in {EmptyBody, OtherText} \/ \E j : a.body = Text(j)
           \/ a.kind = "file" /\ a.status \in Int
           \/ a.kind = "error" /\ a.error \in AnyError(J)
<1>1. CASE a \in [kind : {"data"}, data : AnyData, status : Int]
    BY <1>1
<1>2. CASE a \in [kind : {"success", "redirect", "none"}, status : Int]
    BY <1>2
<1>3. CASE a \in [kind : {"inline"}, body : {EmptyBody, OtherText} \cup {Text(j) : j \in J}, status : Int]
    BY <1>3
<1>4. CASE a \in [kind : {"file"}, opens : BOOLEAN, status : Int]
    BY <1>4
<1>5. CASE a \in [kind : {"error"}, error : AnyError(J)]
    BY <1>5
<1> QED BY <1>1, <1>2, <1>3, <1>4, <1>5 DEF AnyAnswer

\* The response that an answer becomes.
LEMMA Exchanges ==
    ASSUME NEW J, NEW a \in AnyAnswer(J)
    PROVE  LET ex == Exchanged(a)
           IN /\ ex.status \in Int
              /\ ex.body \in {EmptyBody, OtherText} \/ \E j : ex.body = Text(j)
              /\ a.kind = "data" => ex.body = Text(DataToJson(a.data))
              /\ a.kind = "error" => ex.body = ErrorToResponse(a.error)
              /\ a.kind \notin {"data", "inline", "error"} =>
                    \/ ex.body \in {EmptyBody, OtherText}
                    \/ \E j : ex.body = Text(j) /\ ~HasField(j, "data")
<1> DEFINE ex == Exchanged(a)
<1>1. ASSUME NEW s, NEW b, Generate(a) = Response(s, b)
      PROVE  ex.status = s /\ ex.body = b
    BY <1>1, Responded DEF Exchanged
<1>2. NoResponse.status = 0 /\ NoResponse.body = EmptyBody
    BY DEF NoResponse
<1> HIDE DEF ex
<1>3. CASE a.kind = "data" /\ a.data \in AnyData /\ a.status \in Int
    <2>1. Generate(a) = Response(a.status, Text(DataToJson(a.data)))
        BY <1>3 DEF Generate, GenData
    <2> QED BY <1>1, <1>3, <2>1 DEF ex
<1>4. CASE a.kind = "success" /\ a.status \in Int
    <2> DEFINE g == [k \in {"code", "message"} |-> IF k = "code" THEN JNum(7) ELSE JStr("done")]
    <2>1. Generate(a) = Response(a.status, Text(JObj(g)))
        BY <1>4 DEF Generate, GenSuccess
    <2>2. "data" \notin DOMAIN g
        OBVIOUS
    <2> HIDE DEF g
    <2>3. ~HasField(JObj(g), "data")
        BY <2>2, JsonTags DEF HasField
    <2>4. ex.status = a.status /\ ex.body = Text(JObj(g))
        BY <1>1, <2>1
    <2> QED BY <1>4, <2>3, <2>4 DEF ex
<1>5. CASE a.kind = "redirect" /\ a.status \in Int
    <2> DEFINE x == [status |-> a.status, body |-> EmptyBody, location |-> TRUE]
    <2>1. x.status = a.status /\ x.body = EmptyBody
        OBVIOUS
    <2> HIDE DEF x
    <2>2. Generate(a) = Ok(x)
        BY <1>5 DEF Generate, GenRedirect, x
    <2>3. ex = x
        BY <2>2, ResultFields DEF ex, Exchanged
    <2> QED BY <1>5, <2>1, <2>3 DEF ex
<1>6. CASE a.kind = "none"
    <2>1. Generate(a) = Response(204, EmptyBody)
        BY <1>6 DEF Generate, GenNoContent
    <2>2. ex.status = 204 /\ ex.body = EmptyBody
        BY <1>1, <2>1
    <2> QED BY <1>6, <2>2 DEF ex
<1>7. CASE /\ a.kind = "inline" /\ a.status \in Int
           /\ a.body \in {EmptyBody, OtherText} \/ \E j : a.body = Text(j)
    <2>1. Generate(a) = Response(a.status, a.body)
        BY <1>7 DEF Generate, GenInline
    <2>2. ex.status = a.status /\ ex.body = a.body
        BY <1>1, <2>1
    <2> QED BY <1>7, <2>2 DEF ex
<1>8. CASE a.kind = "file" /\ a.status \in Int
    <2>1. Generate(a) = Response(a.status, OtherText) \/ \E e : Generate(a) = Err(e)
        BY <1>8 DEF Generate, GenFile
    <2>2. ASSUME NEW e, Generate(a) = Err(e)
          PROVE  ex = NoResponse
        BY <2>2, ResultFields DEF ex, Exchanged
    <2>3. (ex.status = a.status /\ ex.body = OtherText) \/ (ex.status = 0 /\ ex.body = EmptyBody)
        BY <1>1, <1>2, <2>1, <2>2
    <2> QED BY <1>8, <2>3 DEF ex
<1>9. CASE a.kind = "error" /\ a.error \in AnyError(J)
    <2>1. Generate(a) = Response(a.error.status, ErrorToResponse(a.error))
        BY <1>9 DEF Generate
    <2>2. ex.status = a.error.status /\ ex.body = ErrorToResponse(a.error)
        BY <1>1, <2>1
    <2>3. a.error.status \in Int
        BY <1>9 DEF AnyError
    <2>4. ErrorToResponse(a.error) = OtherText \/ \E j : ErrorToResponse(a.error) = Text(j)
        BY DEF ErrorToResponse
    <2> QED BY <1>9, <2>2, <2>3, <2>4 DEF ex
<1>10. a.kind \in {"success", "redirect", "none"} /\ a.status \in Int
         => \/ a.kind = "success" /\ a.status \in Int
            \/ a.kind = "redirect" /\ a.status \in Int
            \/ a.kind = "none"
    OBVIOUS
<1> QED BY <1>3, <1>4, <1>5, <1>6, <1>7, <1>8, <1>9, <1>10, AnswerKinds

\* Data as the two calls for it read it.
LEMMA DataAnswers ==
    ASSUME NEW d \in AnyData, NEW ex, ex.body = Text(DataToJson(d))
    PROVE  LET res == ParseJsonResponseResult(ex)
               one == ParseJsonDataResponse(ex)
           IN /\ d # NoData => res = Ok(d)
              /\ d = NoData => res = Err(MakeError(9001, NoKey))
              /\ one.ok <=> d.kind = "one"
              /\ one.ok => one.v = d.one
<1> DEFINE j == DataToJson(d)
           one == ParseJsonDataResponse(ex)
<1>1. /\ d # NoData => DataFromJson(j) = Got(d)
      /\ d = NoData => DataFromJson(j) = Threw
      /\ j.t = "obj" /\ HasField(j, "data") /\ ~HasField(j, "error")
      /\ j.f["data"].t = "num" <=> d.kind = "one"
      /\ d.kind = "one" => j.f["data"].n = d.one
    BY DataSurvives
<1> HIDE DEF j
<1>2. ParseJsonResponseResult(ex) = ResultFromJson(j)
    BY JsonDecoded DEF j
<1>3. one = IF ValueTo(j.f["data"]).threw THEN DecodeError(9003, ex) ELSE Ok(ValueTo(j.f["data"]).v)
    BY <1>1, JsonDecoded DEF j
<1> HIDE DEF one
<1>4. ResultFromJson(j) = IF DataFromJson(j).threw THEN Err(MakeError(9001, NoKey)) ELSE Ok(DataFromJson(j).v)
    BY <1>1, ResultRead
<1>5. d # NoData => ResultFromJson(j) = Ok(d)
    BY <1>1, <1>4, GotFields
<1>6. d = NoData => ResultFromJson(j) = Err(MakeError(9001, NoKey))
    BY <1>1, <1>4, GotFields
<1>7. CASE d.kind = "one"
    <2>1. ValueTo(j.f["data"]) = Got(d.one)
        BY <1>1, <1>7 DEF ValueTo
    <2>2. one = Ok(d.one)
        BY <1>3, <2>1, GotFields
    <2>3. one.ok /\ one.v = d.one
        BY <2>2, ResultFields
    <2> QED BY <1>2, <1>5, <1>6, <1>7, <2>3 DEF one
<1>8. CASE d.kind # "one"
    <2>1. ValueTo(j.f["data"]) = Threw
        BY <1>1, <1>8 DEF ValueTo
    <2>2. one = DecodeError(9003, ex)
        BY <1>3, <2>1, GotFields
    <2>3. ~one.ok
        BY <2>2, ResultFields
    <2> QED BY <1>2, <1>5, <1>6, <1>8, <2>3 DEF one
<1> QED BY <1>7, <1>8

\* For every answer of a handler, with any data, meta data, code, key, status and JSON
\* body: api_handler_base.hpp writes what the client's calls in http_client_monad.hpp
\* and api_response_result.hpp read back, and what these calls say of one response agrees.
THEOREM RoundTripLaw ==
    ASSUME NEW J, NEW a \in AnyAnswer(J)
    PROVE  RoundTripOK(a)
<1> DEFINE ex == Exchanged(a)
           res == ParseJsonResponseResult(ex)
           one == ParseJsonDataResponse(ex)
           top == ParseJsonResponse(ex)
           err == a.kind = "error" /\ a.error.json /\ a.error.alt = NoBody
<1>1. /\ ex.status \in Int
      /\ ex.body \in {EmptyBody, OtherText} \/ \E j : ex.body = Text(j)
      /\ a.kind = "data" => ex.body = Text(DataToJson(a.data))
      /\ a.kind = "error" => ex.body = ErrorToResponse(a.error)
      /\ a.kind \notin {"data", "inline", "error"} =>
            \/ ex.body \in {EmptyBody, OtherText}
            \/ \E j : ex.body = Text(j) /\ ~HasField(j, "data")
    BY Exchanges
<1> HIDE DEF ex
<1>2. /\ (one.ok /\ ~res.ok) => \/ HasField(ex.body.j, "error")
                                \/ HasField(ex.body.j, "meta") /\ MetaThrows(ex.body.j.f["meta"])
      /\ top.ok => ~res.ok /\ ~one.ok
      /\ (~one.ok => one.v.status = ex.status) /\ (~top.ok => top.v.status = ex.status)
      /\ Is2xx(ex) = Expect2xx(ex).ok /\ Is2xx(ex) = ~Not2xx(ex)
    BY <1>1, DecodingsAgree
<1>3. /\ a.kind = "data" => a.data \in AnyData
      /\ a.kind = "error" => a.error \in AnyError(J)
    BY AnswerKinds
<1>4. a.kind = "data" => /\ a.data # NoData => res = Ok(a.data)
                         /\ a.data = NoData => res = Err(MakeError(9001, NoKey))
                         /\ one.ok <=> a.data.kind = "one"
                         /\ one.ok => one.v = a.data.one
    BY <1>1, <1>3, DataAnswers
<1>5. a.kind \notin {"data", "inline", "error"} => ~res.ok
    BY <1>1, NoDataNoResult
<1>6. err => res = Err([a.error EXCEPT !.status = 500])
    <2>1. SUFFICES ASSUME err
                   PROVE  res = Err([a.error EXCEPT !.status = 500])
        OBVIOUS
    <2>2. PICK j : /\ ErrorToResponse(a.error) = Text(j)
                   /\ ResultFromJson(j) = Err([a.error EXCEPT !.status = 500])
        BY <1>3, <2>1, ErrorSurvives
    <2>3. ex.body = Text(j)
        BY <1>1, <2>1, <2>2
    <2> QED BY <2>2, <2>3, JsonDecoded
<1> HIDE DEF res, one, top
<1>7. /\ (a.kind = "data" /\ a.data # NoData) => res = Ok(a.data)
      /\ (a.kind = "data" /\ a.data = NoData) => res = Err(MakeError(9001, NoKey))
      /\ a.kind = "data" => (one.ok <=> a.data.kind = "one") /\ (one.ok => one.v = a.data.one)
    BY <1>4
<1> QED BY <1>2, <1>5, <1>6, <1>7, Zenon DEF RoundTripOK, ex, res, one, top, Exchanged

-----------------------------------------------------------------------------
(* Sessions: the fields of a SessionAttributes and their types.            *)

AnyPermission == [obtype : STRING, obid : STRING, actions : Seq(STRING)]
KnownFields == IntFields \cup StrFields \cup BoolFields \cup DOMAIN EmptySession
Typed(k, v) ==
    /\ k \in IntFields \cup {"auth_by"} => v \in Int
    /\ k \in StrFields => v \in STRING
    /\ k \in BoolFields => v \in BOOLEAN
    /\ k \in ListFields => v \in Seq(STRING)
    /\ k = "user_permissions" => v \in Seq(AnyPermission)
IsSession(sa) ==
    /\ sa = [k \in DOMAIN sa |-> sa[k]]
    /\ DOMAIN EmptySession \subseteq DOMAIN sa /\ DOMAIN sa \subseteq KnownFields
    /\ \A k \in DOMAIN sa : Typed(k, sa[k])

\* A field has one type, and the lists are empty at first.
LEMMA FieldsApart ==
    /\ \A k \in BoolFields : k \notin IntFields \cup {"auth_by"} /\ k \notin StrFields
    /\ \A k \in StrFields : k \notin IntFields \cup {"auth_by"}
    /\ \A k \in ListFields \cup {"user_permissions"} :
          k \notin IntFields \cup {"auth_by"} /\ k \notin StrFields /\ k \notin BoolFields
    /\ "user_permissions" \notin ListFields
    /\ DOMAIN EmptySession = ListFields \cup {"user_permissions", "auth_by"}
    /\ \A k \in ListFields \cup {"user_permissions"} : EmptySession[k] = <<>>
    /\ EmptySession["auth_by"] = 0
<1>1. /\ \A k \in BoolFields : k \notin IntFields \cup {"auth_by"} /\ k \notin StrFields
      /\ \A k \in StrFields : k \notin IntFields \cup {"auth_by"}
    BY DEF IntFields, StrFields, BoolFields
<1>2. \A k \in ListFields \cup {"user_permissions"} :
          k \notin IntFields \cup {"auth_by"} /\ k \notin StrFields /\ k \notin BoolFields
    BY DEF IntFields, StrFields, BoolFields, ListFields
<1>3. "user_permissions" \notin ListFields
    BY DEF ListFields
<1>4. /\ DOMAIN EmptySession = ListFields \cup {"user_permissions", "auth_by"}
      /\ \A k \in ListFields \cup {"user_permissions"} : EmptySession[k] = <<>>
      /\ EmptySession["auth_by"] = 0
    BY <1>2 DEF EmptySession
<1> QED BY <1>1, <1>2, <1>3, <1>4

\* A list of strings is read as it was written.
LEMMA StringsBack ==
    ASSUME NEW s \in Seq(STRING)
    PROVE  StringsFromJson(Strings(s)) = Got(s)
<1> DEFINE e == [i \in DOMAIN s |-> JStr(s[i])]
<1>1. DOMAIN e = DOMAIN s /\ \A i \in DOMAIN s : e[i] = JStr(s[i])
    OBVIOUS
<1> HIDE DEF e
<1>2. Strings(s).t = "arr" /\ Strings(s).e = e
    BY JsonTags DEF Strings, e
<1>3. \A i \in DOMAIN e : e[i].t = "str" /\ e[i].s = s[i]
    BY <1>1, JsonTags
<1>4. [i \in DOMAIN e |-> e[i].s] = [i \in DOMAIN s |-> s[i]]
    BY <1>1, <1>3
<1>5. [i \in DOMAIN s |-> s[i]] = s
    OBVIOUS
<1>6. StringsFromJson(Strings(s)) = Got([i \in DOMAIN e |-> e[i].s])
    BY <1>2, <1>3 DEF StringsFromJson
<1> QED BY <1>4, <1>5, <1>6

\* So is a permission.
LEMMA PermissionBack ==
    ASSUME NEW p \in AnyPermission
    PROVE  PermissionFromJson(PermissionToJson(p)) = Got(p)
<1> DEFINE S == {"obtype", "obid", "actions"}
           f == [k \in S |-> IF k = "actions" THEN Strings(p.actions) ELSE JStr(p[k])]
           j == JObj(f)
<1>1. /\ DOMAIN f = S /\ f["actions"] = Strings(p.actions)
      /\ f["obtype"] = JStr(p.obtype) /\ f["obid"] = JStr(p.obid)
    OBVIOUS
<1> HIDE DEF f
<1>2. j.t = "obj" /\ j.f = f
    BY JsonTags
<1> HIDE DEF j
<1>3. \A k \in S : HasField(j, k)
    BY <1>1, <1>2 DEF HasField, IsObject
<1>4. p.actions \in Seq(STRING)
    BY DEF AnyPermission
<1>5. StringsFromJson(j.f["actions"]) = Got(p.actions)
    BY <1>1, <1>2, <1>4, StringsBack
<1>6. /\ j.f["obtype"].t = "str" /\ j.f["obtype"].s = p.obtype
      /\ j.f["obid"].t = "str" /\ j.f["obid"].s = p.obid
    BY <1>1, <1>2, JsonTags
<1>7. PermissionFromJson(j) = Got(Permission(p.obtype, p.obid, p.actions))
    BY <1>3, <1>5, <1>6, GotFields DEF PermissionFromJson
<1>8. Permission(p.obtype, p.obid, p.actions) = p
    BY DEF Permission, AnyPermission
<1>9. PermissionToJson(p) = j
    BY DEF PermissionToJson, j, f
<1> QED BY <1>7, <1>8, <1>9

\* So is a list of permissions.
LEMMA PermissionsBack ==
    ASSUME NEW s \in Seq(AnyPermission)
    PROVE  PermissionsFromJson(JArr([i \in DOMAIN s |-> PermissionToJson(s[i])])) = Got(s)
<1> DEFINE e == [i \in DOMAIN s |-> PermissionToJson(s[i])]
<1>1. DOMAIN e = DOMAIN s /\ \A i \in DOMAIN s : e[i] = PermissionToJson(s[i])
    OBVIOUS
<1> HIDE DEF e
<1>2. JArr(e).t = "arr" /\ JArr(e).e = e
    BY JsonTags
<1>3. \A i \in DOMAIN s : s[i] \in AnyPermission
    OBVIOUS
<1>4. \A i \in DOMAIN e : PermissionFromJson(e[i]) = Got(s[i])
    BY <1>1, <1>3, PermissionBack
<1>5. \A i \in DOMAIN e : ~PermissionFromJson(e[i]).threw /\ PermissionFromJson(e[i]).v = s[i]
    BY <1>4, GotFields
<1>6. [i \in DOMAIN e |-> PermissionFromJson(e[i]).v] = [i \in DOMAIN s |-> s[i]]
    BY <1>1, <1>5
<1>7. [i \in DOMAIN s |-> s[i]] = s
    OBVIOUS
<1>8. PermissionsFromJson(JArr(e)) = Got([i \in DOMAIN e |-> PermissionFromJson(e[i]).v])
    BY <1>2, <1>5 DEF PermissionsFromJson
<1> QED BY <1>6, <1>7, <1>8 DEF e

\* Every field is read as it was written; false is not absent.
LEMMA FieldBack ==
    ASSUME NEW sa, NEW k \in KnownFields, Typed(k, sa[k])
    PROVE  /\ FieldFromJson(k, FieldToJson(sa, k)) = Got(sa[k])
           /\ k \in BoolFields => ParseOptionalBool(FieldToJson(sa, k)) # {}
<1> DEFINE v == sa[k]
           j == FieldToJson(sa, k)
<1> HIDE DEF v, j
<1>1. CASE k \in IntFields \cup {"auth_by"}
    <2>1. j = JNum(v)
        BY <1>1 DEF FieldToJson, j, v
    <2>2. j.t = "num" /\ j.n = v
        BY <2>1, JsonTags
    <2>3. FieldFromJson(k, j) = Got(v)
        BY <1>1, <2>2 DEF FieldFromJson
    <2> QED BY <1>1, <2>3, FieldsApart DEF j, v
<1>2. CASE k \in StrFields
    <2>1. k \notin IntFields \cup {"auth_by"} /\ k \notin BoolFields
        BY <1>2, FieldsApart
    <2>2. j = JStr(v)
        BY <1>2, <2>1 DEF FieldToJson, j, v
    <2>3. j.t = "str" /\ j.s = v
        BY <2>2, JsonTags
    <2>4. FieldFromJson(k, j) = Got(v)
        BY <1>2, <2>1, <2>3 DEF FieldFromJson
    <2> QED BY <2>1, <2>4 DEF j, v
<1>3. CASE k \in BoolFields
    <2>1. k \notin IntFields \cup {"auth_by"} /\ k \notin StrFields
        BY <1>3, FieldsApart
    <2>2. j = JBool(v)
        BY <1>3, <2>1 DEF FieldToJson, j, v
    <2>3. j.t = "bool" /\ j.b = v
        BY <2>2, JsonTags
    <2>4. ParseOptionalBool(j) = {v}
        BY <2>3 DEF ParseOptionalBool
    <2>5. (CHOOSE b \in {v} : TRUE) = v
        OBVIOUS
    <2>6. FieldFromJson(k, j) = Got(CHOOSE b \in ParseOptionalBool(j) : TRUE)
        BY <1>3, <2>1 DEF FieldFromJson
    <2>7. FieldFromJson(k, j) = Got(v)
        BY <2>4, <2>5, <2>6, Zenon
    <2>8. ParseOptionalBool(j) # {}
        BY <2>4
    <2> QED BY <2>7, <2>8 DEF j, v
<1>4. CASE k \in ListFields
    <2>1. k \notin IntFields \cup {"auth_by"} /\ k \notin StrFields /\ k \notin BoolFields
        BY <1>4, FieldsApart
    <2>2. v \in Seq(STRING)
        BY <1>4 DEF Typed, v
    <2>3. j = Strings(v)
        BY <1>4, <2>1 DEF FieldToJson, j, v
    <2>4. StringsFromJson(j) = Got(v)
        BY <2>2, <2>3, StringsBack
    <2>5. FieldFromJson(k, j) = StringsFromJson(j)
        BY <1>4, <2>1 DEF FieldFromJson
    <2> QED BY <2>1, <2>4, <2>5 DEF j, v
<1>5. CASE k = "user_permissions"
    <2>1. /\ k \notin IntFields \cup {"auth_by"} /\ k \notin StrFields /\ k \notin BoolFields
          /\ k \notin ListFields
        BY <1>5, FieldsApart
    <2>2. v \in Seq(AnyPermission)
        BY <1>5 DEF Typed, v
    <2>3. j = JArr([i \in DOMAIN v |-> PermissionToJson(v[i])])
        BY <2>1 DEF FieldToJson, j, v
    <2>4. PermissionsFromJson(j) = Got(v)
        BY <2>2, <2>3, PermissionsBack
    <2>5. FieldFromJson(k, j) = PermissionsFromJson(j)
        BY <2>1 DEF FieldFromJson
    <2> QED BY <2>1, <2>4, <2>5 DEF j, v
<1> QED BY <1>1, <1>2, <1>3, <1>4, <1>5, FieldsApart DEF KnownFields

\* What SessionFromJson reads of an object whose fields can be read.
LEMMA SessionRead ==
    ASSUME NEW j, IsObject(j)
    PROVE  LET read == {k \in DOMAIN j.f : k \in KnownFields /\ (k \in BoolFields => ParseOptionalBool(j.f[k]) # {})}
           IN SessionFromJson(j) =
                IF \E k \in read : FieldFromJson(k, j.f[k]).threw THEN Threw
                ELSE Got([k \in DOMAIN EmptySession \cup read |->
                            IF k \in read THEN FieldFromJson(k, j.f[k]).v ELSE EmptySession[k]])
<1> DEFINE there == {k \in DOMAIN j.f : k \in KnownFields}
           read == {k \in there : k \in BoolFields => ParseOptionalBool(j.f[k]) # {}}
           some == {k \in DOMAIN j.f : k \in KnownFields /\ (k \in BoolFields => ParseOptionalBool(j.f[k]) # {})}
<1>1. read = some
    OBVIOUS
<1>2. SessionFromJson(j) =
        IF \E k \in read : FieldFromJson(k, j.f[k]).threw THEN Threw
        ELSE Got([k \in DOMAIN EmptySession \cup read |->
                    IF k \in read THEN FieldFromJson(k, j.f[k]).v ELSE EmptySession[k]])
    BY Zenon DEF SessionFromJson, KnownFields
<1> HIDE DEF read, some
<1>3. SessionFromJson(j) =
        IF \E k \in some : FieldFromJson(k, j.f[k]).threw THEN Threw
        ELSE Got([k \in DOMAIN EmptySession \cup some |->
                    IF k \in some THEN FieldFromJson(k, j.f[k]).v ELSE EmptySession[k]])
    BY <1>1, <1>2, Zenon
<1> QED BY <1>3, Zenon DEF some

\* Every session survives being written as JSON and read, with any fields, any values,
\* and any number of roles, factors and permissions (simple_data.hpp).
THEOREM SessionLaw ==
    ASSUME NEW sa, IsSession(sa)
    PROVE  SessionRoundTrip(sa)
<1> DEFINE F == {x \in DOMAIN sa : FieldSet(sa, x)}
           g == [k \in F |-> FieldToJson(sa, k)]
           j == JObj(g)
           read == {k \in DOMAIN j.f : k \in KnownFields /\ (k \in BoolFields => ParseOptionalBool(j.f[k]) # {})}
<1>1. DOMAIN g = F /\ \A k \in F : g[k] = FieldToJson(sa, k)
    OBVIOUS
<1>2. F \subseteq DOMAIN sa
    OBVIOUS
<1>3. ASSUME NEW k \in DOMAIN sa, k \notin F
      PROVE  k \in DOMAIN EmptySession /\ sa[k] = EmptySession[k]
    <2>1. k \in ListFields \cup {"user_permissions"} /\ sa[k] = <<>>
        BY <1>3 DEF FieldSet
    <2> QED BY <2>1, FieldsApart
<1>4. SessionToJson(sa) = j
    BY DEF SessionToJson
<1> HIDE DEF F, g
<1>5. IsObject(j) /\ j.f = g
    BY JsonTags DEF IsObject
<1> HIDE DEF j
<1>6. /\ DOMAIN EmptySession \subseteq DOMAIN sa /\ DOMAIN sa \subseteq KnownFields
      /\ \A k \in DOMAIN sa : Typed(k, sa[k])
    BY DEF IsSession
<1>7. ASSUME NEW k \in F
      PROVE  /\ FieldFromJson(k, j.f[k]) = Got(sa[k])
             /\ k \in KnownFields /\ (k \in BoolFields => ParseOptionalBool(j.f[k]) # {})
    <2>1. k \in KnownFields /\ Typed(k, sa[k]) /\ j.f[k] = FieldToJson(sa, k)
        BY <1>1, <1>2, <1>5, <1>6
    <2> QED BY <2>1, FieldBack
<1>8. read = F
    BY <1>1, <1>5, <1>7
<1>9. SessionFromJson(j) =
        IF \E k \in read : FieldFromJson(k, j.f[k]).threw THEN Threw
        ELSE Got([k \in DOMAIN EmptySession \cup read |->
                    IF k \in read THEN FieldFromJson(k, j.f[k]).v ELSE EmptySession[k]])
    BY <1>5, SessionRead
<1> HIDE DEF read
<1>10. \A k \in read : ~FieldFromJson(k, j.f[k]).threw /\ FieldFromJson(k, j.f[k]).v = sa[k]
    BY <1>7, <1>8, GotFields
<1> DEFINE back == [k \in DOMAIN EmptySession \cup read |->
                      IF k \in read THEN FieldFromJson(k, j.f[k]).v ELSE EmptySession[k]]
<1>11. SessionFromJson(j) = Got(back)
    BY <1>9, <1>10
<1>12. DOMAIN EmptySession \cup read = DOMAIN sa
    BY <1>2, <1>3, <1>6, <1>8
<1>13. \A k \in DOMAIN sa : (IF k \in read THEN FieldFromJson(k, j.f[k]).v ELSE EmptySession[k]) = sa[k]
    BY <1>3, <1>8, <1>10
<1>14. back = [k \in DOMAIN sa |-> sa[k]]
    BY <1>12, <1>13
<1>15. back = sa
    BY <1>14 DEF IsSession
<1> QED BY <1>4, <1>11, <1>15 DEF SessionRoundTrip

\* What the parts of a JSON value are.
LEMMA JsonParts ==
    ASSUME NEW J, JsonValues(J), NEW j \in J
    PROVE  /\ j.t = "bool" => j.b \in BOOLEAN
           /\ j.t = "num" => j.n \in Int /\ j = JNum(j.n)
           /\ j.t = "str" => j.s \in STRING /\ j = JStr(j.s)
           /\ j.t = "arr" => j.e \in Seq(J)
           /\ j.t = "obj" => \A k \in DOMAIN j.f : j.f[k] \in J
<1>1. \/ j = JNull
      \/ \E b \in BOOLEAN : j = JBool(b)
      \/ \E n \in Int : j = JNum(n)
      \/ \E x \in STRING : j = JStr(x)
      \/ \E e \in Seq(J) : j = JArr(e)
      \/ \E d \in SUBSET STRING : \E f \in [d -> J] : j = JObj(f)
    BY DEF JsonValues
<1>2. CASE j = JNull
    BY <1>2, JsonTags
<1>3. CASE \E b \in BOOLEAN : j = JBool(b)
    <2>1. PICK b \in BOOLEAN : j = JBool(b)
        BY <1>3
    <2>2. j.t = "bool" /\ j.b = b
        BY <2>1, JsonTags
    <2> QED BY <2>2
<1>4. CASE \E n \in Int : j = JNum(n)
    BY <1>4, JsonTags
<1>5. CASE \E x \in STRING : j = JStr(x)
    BY <1>5, JsonTags
<1>6. CASE \E e \in Seq(J) : j = JArr(e)
    BY <1>6, JsonTags
<1>7. CASE \E d \in SUBSET STRING : \E f \in [d -> J] : j = JObj(f)
    <2>1. PICK d \in SUBSET STRING : \E f \in [d -> J] : j = JObj(f)
        BY <1>7
    <2>2. PICK f \in [d -> J] : j = JObj(f)
        BY <2>1
    <2>3. j.t = "obj" /\ j.f = f
        BY <2>2, JsonTags
    <2>4. \A k \in DOMAIN f : f[k] \in J
        OBVIOUS
    <2> QED BY <2>3, <2>4
<1> QED BY <1>1, <1>2, <1>3, <1>4, <1>5, <1>6, <1>7

\* A list of strings that could be read is one.
LEMMA StringsTyped ==
    ASSUME NEW J, JsonValues(J), NEW j \in J, ~StringsFromJson(j).threw
    PROVE  StringsFromJson(j).v \in Seq(STRING)
<1>1. j.t = "arr" /\ (\A i \in DOMAIN j.e : j.e[i].t = "str") /\ StringsFromJson(j) = Got([i \in DOMAIN j.e |-> j.e[i].s])
    BY GotFields DEF StringsFromJson
<1>2. j.e \in Seq(J)
    BY <1>1, JsonParts
<1>3. \A i \in DOMAIN j.e : j.e[i] \in J
    BY <1>2
<1>4. \A i \in DOMAIN j.e : j.e[i].s \in STRING
    BY <1>1, <1>3, JsonParts
<1>5. [i \in DOMAIN j.e |-> j.e[i].s] \in Seq(STRING)
    BY <1>2, <1>4
<1> QED BY <1>1, <1>5, GotFields

\* So is a permission.
LEMMA PermissionTyped ==
    ASSUME NEW J, JsonValues(J), NEW j \in J, ~PermissionFromJson(j).threw
    PROVE  PermissionFromJson(j).v \in AnyPermission
<1>1. \A k \in {"obtype", "obid", "actions"} : HasField(j, k)
    BY GotFields DEF PermissionFromJson
<1>2. /\ j.f["obtype"].t = "str" /\ j.f["obid"].t = "str" /\ ~StringsFromJson(j.f["actions"]).threw
      /\ PermissionFromJson(j) = Got(Permission(j.f["obtype"].s, j.f["obid"].s, StringsFromJson(j.f["actions"]).v))
    BY <1>1, GotFields DEF PermissionFromJson
<1>3. j.f["obtype"] \in J /\ j.f["obid"] \in J /\ j.f["actions"] \in J
    <2>1. j.t = "obj" /\ "obtype" \in DOMAIN j.f /\ "obid" \in DOMAIN j.f /\ "actions" \in DOMAIN j.f
        BY <1>1 DEF HasField, IsObject
    <2> QED BY <2>1, JsonParts
<1>4. j.f["obtype"].s \in STRING /\ j.f["obid"].s \in STRING
    BY <1>2, <1>3, JsonParts
<1>5. StringsFromJson(j.f["actions"]).v \in Seq(STRING)
    BY <1>2, <1>3, StringsTyped
<1>6. ASSUME NEW a \in STRING, NEW b \in STRING, NEW c \in Seq(STRING)
      PROVE  Permission(a, b, c) \in AnyPermission
    BY DEF Permission, AnyPermission
<1> QED BY <1>2, <1>4, <1>5, <1>6, GotFields

\* And a list of permissions.
LEMMA PermissionsTyped ==
    ASSUME NEW J, JsonValues(J), NEW j \in J, ~PermissionsFromJson(j).threw
    PROVE  PermissionsFromJson(j).v \in Seq(AnyPermission)
<1>1. /\ j.t = "arr" /\ \A i \in DOMAIN j.e : ~PermissionFromJson(j.e[i]).threw
      /\ PermissionsFromJson(j) = Got([i \in DOMAIN j.e |-> PermissionFromJson(j.e[i]).v])
    BY GotFields DEF PermissionsFromJson
<1>2. j.e \in Seq(J)
    BY <1>1, JsonParts
<1>3. \A i \in DOMAIN j.e : j.e[i] \in J
    BY <1>2
<1>4. \A i \in DOMAIN j.e : PermissionFromJson(j.e[i]).v \in AnyPermission
    BY <1>1, <1>3, PermissionTyped
<1>5. [i \in DOMAIN j.e |-> PermissionFromJson(j.e[i]).v] \in Seq(AnyPermission)
    BY <1>2, <1>4
<1> QED BY <1>1, <1>5, GotFields

\* A field that is read has its type, whatever the JSON holds.
LEMMA FieldTyped ==
    ASSUME NEW J, JsonValues(J), NEW j \in J, NEW k \in KnownFields,
           ~FieldFromJson(k, j).threw, k \in BoolFields => ParseOptionalBool(j) # {}
    PROVE  Typed(k, FieldFromJson(k, j).v)
<1> DEFINE v == FieldFromJson(k, j).v
<1>1. CASE k \in IntFields \cup {"auth_by"}
    <2>1. j.t = "num" /\ FieldFromJson(k, j) = Got(j.n)
        BY <1>1, GotFields DEF FieldFromJson
    <2>2. v \in Int
        BY <2>1, GotFields, JsonParts
    <2> QED BY <1>1, <2>2, FieldsApart DEF Typed
<1>2. CASE k \in StrFields
    <2>1. k \notin IntFields \cup {"auth_by"}
        BY <1>2, FieldsApart
    <2>2. j.t = "str" /\ FieldFromJson(k, j) = Got(j.s)
        BY <1>2, <2>1, GotFields DEF FieldFromJson
    <2>3. v \in STRING
        BY <2>2, GotFields, JsonParts
    <2> QED BY <1>2, <2>1, <2>3, FieldsApart DEF Typed
<1>3. CASE k \in BoolFields
    <2>1. k \notin IntFields \cup {"auth_by"} /\ k \notin StrFields
        BY <1>3, FieldsApart
    <2>2. FieldFromJson(k, j) = Got(CHOOSE b \in ParseOptionalBool(j) : TRUE)
        BY <1>3, <2>1 DEF FieldFromJson
    <2>3. ParseOptionalBool(j) \subseteq BOOLEAN
        <3>1. CASE j.t = "bool"
            <4>1. j.b \in BOOLEAN
                BY <3>1, JsonParts
            <4>2. ParseOptionalBool(j) = {j.b}
                BY <3>1 DEF ParseOptionalBool
            <4> QED BY <4>1, <4>2
        <3>2. CASE j.t # "bool"
            <4>1. \/ ParseOptionalBool(j) = {j.n # 0}
                  \/ ParseOptionalBool(j) = {TRUE}
                  \/ ParseOptionalBool(j) = {FALSE}
                  \/ ParseOptionalBool(j) = {}
                BY <3>2, Zenon DEF ParseOptionalBool
            <4>2. (j.n # 0) \in BOOLEAN
                OBVIOUS
            <4>3. ASSUME NEW b \in BOOLEAN, NEW S, S = {b}
                  PROVE  S \subseteq BOOLEAN
                BY <4>3, Zenon
            <4>4. ParseOptionalBool(j) = {} \/ \E b \in BOOLEAN : ParseOptionalBool(j) = {b}
                BY <4>1, <4>2, Zenon
            <4> QED BY <4>3, <4>4, Zenon
        <3> QED BY <3>1, <3>2
    <2>4. (CHOOSE b \in ParseOptionalBool(j) : TRUE) \in ParseOptionalBool(j)
        BY <1>3, Zenon
    <2>5. v = (CHOOSE b \in ParseOptionalBool(j) : TRUE)
        BY <2>2, GotFields, Zenon
    <2>6. v \in BOOLEAN
        BY <2>3, <2>4, <2>5, Zenon
    <2> QED BY <1>3, <2>1, <2>6, FieldsApart DEF Typed
<1>4. CASE k \in ListFields
    <2>1. k \notin IntFields \cup {"auth_by"} /\ k \notin StrFields /\ k \notin BoolFields
        BY <1>4, FieldsApart
    <2>2. FieldFromJson(k, j) = StringsFromJson(j)
        BY <1>4, <2>1 DEF FieldFromJson
    <2>3. v \in Seq(STRING)
        BY <2>2, StringsTyped
    <2> QED BY <1>4, <2>1, <2>3, FieldsApart DEF Typed
<1>5. CASE k = "user_permissions"
    <2>1. /\ k \notin IntFields \cup {"auth_by"} /\ k \notin StrFields /\ k \notin BoolFields
          /\ k \notin ListFields
        BY <1>5, FieldsApart
    <2>2. FieldFromJson(k, j) = PermissionsFromJson(j)
        BY <2>1 DEF FieldFromJson
    <2>3. v \in Seq(AnyPermission)
        BY <2>2, PermissionsTyped
    <2> QED BY <2>1, <2>3 DEF Typed
<1> QED BY <1>1, <1>2, <1>3, <1>4, <1>5, FieldsApart DEF KnownFields

\* An empty session, which is what JSON that is no object is read as.
LEMMA EmptyIsSession == IsSession(EmptySession)
<1>1. EmptySession = [k \in DOMAIN EmptySession |-> EmptySession[k]]
    BY DEF EmptySession
<1>2. ASSUME NEW k \in DOMAIN EmptySession
      PROVE  Typed(k, EmptySession[k])
    <2>1. CASE k \in ListFields \cup {"user_permissions"}
        <3>1. EmptySession[k] = <<>>
            BY <2>1, FieldsApart
        <3>2. <<>> \in Seq(STRING) /\ <<>> \in Seq(AnyPermission)
            OBVIOUS
        <3> QED BY <2>1, <3>1, <3>2, FieldsApart DEF Typed
    <2>2. CASE k = "auth_by"
        <3>1. EmptySession[k] \in Int
            BY <2>2, FieldsApart
        <3> QED BY <2>2, <3>1, FieldsApart DEF Typed
    <2> QED BY <2>1, <2>2, FieldsApart
<1> QED BY <1>1, <1>2 DEF IsSession, KnownFields

\* Null adds no permissions, and a list that could be read adds all that it holds.
LEMMA Added ==
    ASSUME NEW sa
    PROVE  /\ AddPermissions(sa, JNull) = sa
           /\ \A j : ~PermissionsFromJson(j).threw =>
                 AddPermissions(sa, j) = [sa EXCEPT !["user_permissions"] = @ \o PermissionsFromJson(j).v]
<1>1. PermissionsFromJson(JNull) = Threw
    BY JsonTags DEF PermissionsFromJson
<1>2. PermissionsFromJson(JNull).threw
    BY <1>1, GotFields
<1> QED BY <1>2 DEF AddPermissions

\* Whatever JSON is read as a session: the session survives being written and read, its
\* optional fields hold what the JSON does, and its permissions can be added again.
THEOREM ForeignLaw ==
    ASSUME NEW J, JsonValues(J), NEW j \in J
    PROVE  SessionReadOK(j)
<1> DEFINE r == SessionFromJson(j)
           up == "user_permissions"
<1>1. SUFFICES ASSUME ~r.threw
               PROVE  /\ SessionRoundTrip(r.v)
                      /\ \A k \in DOMAIN r.v \ (BoolFields \cup DOMAIN EmptySession) : FieldToJson(r.v, k) = j.f[k]
                      /\ AddPermissions(r.v, JNull) = r.v
                      /\ HasField(j, up) => Len(AddPermissions(r.v, j.f[up])[up]) = 2 * Len(r.v[up])
    BY DEF SessionReadOK
<1> HIDE DEF r
<1>2. CASE ~IsObject(j)
    <2>1. r = Got([k \in DOMAIN EmptySession |-> EmptySession[k]])
        <3>1. \A S : S = {} => [k \in DOMAIN EmptySession \cup S |-> IF k \in S THEN FieldFromJson(k, j.f[k]).v ELSE EmptySession[k]]
                                 = [k \in DOMAIN EmptySession |-> EmptySession[k]]
            OBVIOUS
        <3>2. {k \in {} : k \in BoolFields => ParseOptionalBool(j.f[k]) # {}} = {}
            OBVIOUS
        <3>3. r = LET read == {k \in {} : k \in BoolFields => ParseOptionalBool(j.f[k]) # {}}
                  IN IF \E k \in read : FieldFromJson(k, j.f[k]).threw THEN Threw
                     ELSE Got([k \in DOMAIN EmptySession \cup read |->
                                 IF k \in read THEN FieldFromJson(k, j.f[k]).v ELSE EmptySession[k]])
            BY <1>2, Zenon DEF SessionFromJson, r
        <3> QED BY <3>1, <3>2, <3>3
    <2>2. r = Got(EmptySession)
        BY <2>1, EmptyIsSession DEF IsSession
    <2>3. r.v = EmptySession
        BY <2>2, GotFields
    <2>4. SessionRoundTrip(EmptySession)
        BY EmptyIsSession, SessionLaw
    <2>5. ~HasField(j, up)
        BY <1>2 DEF HasField
    <2> QED BY <2>3, <2>4, <2>5, Added
<1>3. CASE IsObject(j)
    <2> DEFINE read == {k \in DOMAIN j.f : k \in KnownFields /\ (k \in BoolFields => ParseOptionalBool(j.f[k]) # {})}
               sa == [k \in DOMAIN EmptySession \cup read |->
                        IF k \in read THEN FieldFromJson(k, j.f[k]).v ELSE EmptySession[k]]
    <2>1. r = IF \E k \in read : FieldFromJson(k, j.f[k]).threw THEN Threw ELSE Got(sa)
        BY <1>3, SessionRead DEF r
    <2>2. \A k \in read : /\ k \in DOMAIN j.f /\ k \in KnownFields
                          /\ k \in BoolFields => ParseOptionalBool(j.f[k]) # {}
        OBVIOUS
    <2>3. HasField(j, up) => up \in read
        BY FieldsApart DEF HasField, KnownFields
    <2>4. /\ DOMAIN sa = DOMAIN EmptySession \cup read
          /\ \A k \in read : sa[k] = FieldFromJson(k, j.f[k]).v
          /\ \A k \in DOMAIN EmptySession : k \notin read => sa[k] = EmptySession[k]
          /\ sa = [k \in DOMAIN sa |-> sa[k]]
        OBVIOUS
    <2> HIDE DEF read, sa
    <2>5. (\A k \in read : ~FieldFromJson(k, j.f[k]).threw) /\ r.v = sa
        BY <1>1, <2>1, GotFields
    <2>6. \A k \in DOMAIN j.f : j.f[k] \in J
        BY <1>3, JsonParts DEF IsObject
    <2>7. ASSUME NEW k \in read
          PROVE  Typed(k, sa[k])
        BY <2>2, <2>4, <2>5, <2>6, FieldTyped
    <2>8. ASSUME NEW k \in DOMAIN EmptySession
          PROVE  Typed(k, EmptySession[k])
        BY EmptyIsSession DEF IsSession
    <2>9. IsSession(sa)
        <3>1. \A k \in DOMAIN sa : Typed(k, sa[k])
            BY <2>4, <2>7, <2>8
        <3>2. DOMAIN sa \subseteq KnownFields
            BY <2>2, <2>4 DEF KnownFields
        <3> QED BY <2>4, <3>1, <3>2 DEF IsSession
    <2>10. SessionRoundTrip(sa)
        BY <2>9, SessionLaw
    <2>11. ASSUME NEW k \in DOMAIN sa, k \notin BoolFields, k \notin DOMAIN EmptySession
           PROVE  FieldToJson(sa, k) = j.f[k]
        <3>1. k \in read /\ j.f[k] \in J /\ sa[k] = FieldFromJson(k, j.f[k]).v /\ ~FieldFromJson(k, j.f[k]).threw
            BY <2>2, <2>4, <2>5, <2>6, <2>11
        <3>2. k \in IntFields \/ k \in StrFields
            BY <2>2, <2>11, <3>1 DEF KnownFields
        <3>3. CASE k \in IntFields
            <4>1. j.f[k].t = "num" /\ FieldFromJson(k, j.f[k]) = Got(j.f[k].n)
                BY <3>1, <3>3, GotFields DEF FieldFromJson
            <4>2. sa[k] = j.f[k].n
                BY <3>1, <4>1, GotFields
            <4>3. FieldToJson(sa, k) = JNum(sa[k])
                BY <3>3 DEF FieldToJson
            <4> QED BY <3>1, <4>1, <4>2, <4>3, JsonParts
        <3>4. CASE k \in StrFields
            <4> k \notin IntFields \cup {"auth_by"}
                BY <3>4, FieldsApart
            <4>1. j.f[k].t = "str" /\ FieldFromJson(k, j.f[k]) = Got(j.f[k].s)
                BY <3>1, <3>4, GotFields DEF FieldFromJson
            <4>2. sa[k] = j.f[k].s
                BY <3>1, <4>1, GotFields
            <4>3. FieldToJson(sa, k) = JStr(sa[k])
                BY <3>4 DEF FieldToJson
            <4> QED BY <3>1, <4>1, <4>2, <4>3, JsonParts
        <3> QED BY <3>2, <3>3, <3>4
    <2>12. ASSUME HasField(j, up)
           PROVE  Len(AddPermissions(sa, j.f[up])[up]) = 2 * Len(sa[up])
        <3> DEFINE p == PermissionsFromJson(j.f[up])
        <3>1. up \in read
            BY <2>3, <2>12
        <3>2. FieldFromJson(up, j.f[up]) = p
            BY FieldsApart DEF FieldFromJson
        <3>3. ~p.threw /\ sa[up] = p.v
            BY <2>4, <2>5, <3>1, <3>2
        <3>4. sa[up] \in Seq(AnyPermission)
            BY <2>7, <3>1 DEF Typed
        <3> HIDE DEF p
        <3>5. AddPermissions(sa, j.f[up]) = [sa EXCEPT ![up] = @ \o p.v]
            BY <3>3, Added DEF p
        <3>6. AddPermissions(sa, j.f[up])[up] = sa[up] \o p.v
            BY <2>4, <3>1, <3>5
        <3>7. ASSUME NEW s \in Seq(AnyPermission)
              PROVE  Len(s \o s) = 2 * Len(s)
            OBVIOUS
        <3> QED BY <3>3, <3>4, <3>6, <3>7
    <2> QED BY <2>5, <2>10, <2>11, <2>12, Added
<1> QED BY <1>2, <1>3

\* Whatever a handler answers, whatever a session holds and whatever JSON one is read
\* from, of any size: what is written is read back, as the run checks on small inputs.
THEOREM RoundTripsHold ==
    ASSUME NEW J, JsonValues(J),
           part = "answer" /\ input # None => input[1] \in AnyAnswer(J),
           part = "session" /\ input # None => IsSession(input[1]),
           part = "foreign" /\ input # None => input[1] \in J
    PROVE  RoundTrips
<1>1. ASSUME part = "answer", input # None
      PROVE  RoundTripOK(input[1])
    BY <1>1, RoundTripLaw
<1>2. ASSUME part = "session", input # None
      PROVE  SessionRoundTrip(input[1])
    BY <1>2, SessionLaw
<1>3. ASSUME part = "foreign", input # None
      PROVE  SessionReadOK(input[1])
    BY <1>3, ForeignLaw
<1> QED BY <1>1, <1>2, <1>3 DEF RoundTrips, On

-----------------------------------------------------------------------------
(* Text: the hosts that go around the proxy of the environment.            *)

\* The end of a text, character by character.
LEMMA SuffixMeans ==
    ASSUME NEW S, NEW s \in Seq(S), NEW t \in Seq(S)
    PROVE  IsSuffix(s, t) <=> /\ Len(s) <= Len(t)
                              /\ \A i \in 1 .. Len(s) : s[i] = t[Len(t) - Len(s) + i]
<1> DEFINE n == Len(s)
           m == Len(t)
           rs == [i \in 1 .. n |-> s[n - i + 1]]
           rt == [i \in 1 .. m |-> t[m - i + 1]]
<1>1. n \in Nat /\ m \in Nat
    OBVIOUS
<1>2. Reverse(s) = rs /\ Reverse(t) = rt
    BY DEF Reverse
<1>3. /\ rs \in Seq(S) /\ Len(rs) = n /\ \A i \in 1 .. n : rs[i] = s[n - i + 1]
      /\ rt \in Seq(S) /\ Len(rt) = m /\ \A i \in 1 .. m : rt[i] = t[m - i + 1]
    BY <1>1
<1> HIDE DEF rs, rt
<1>4. IsSuffix(s, t) <=> n <= m /\ SubSeq(rs, 1, n) = SubSeq(rt, 1, n)
    BY <1>2, <1>3 DEF IsSuffix, IsPrefix
<1>5. ASSUME n <= m
      PROVE  SubSeq(rs, 1, n) = SubSeq(rt, 1, n) <=> \A i \in 1 .. n : rs[i] = rt[i]
    <2>1. SubSeq(rs, 1, n) = [i \in 1 .. n |-> rs[i]] /\ SubSeq(rt, 1, n) = [i \in 1 .. n |-> rt[i]]
        BY <1>1, <1>3, <1>5
    <2> QED BY <2>1
<1>6. ASSUME n <= m
      PROVE  (\A i \in 1 .. n : rs[i] = rt[i]) <=> \A i \in 1 .. n : s[i] = t[m - n + i]
    <2>1. ASSUME \A i \in 1 .. n : rs[i] = rt[i], NEW i \in 1 .. n
          PROVE  s[i] = t[m - n + i]
        <3>1. n - i + 1 \in 1 .. n /\ n - i + 1 \in 1 .. m /\ n - (n - i + 1) + 1 = i /\ m - (n - i + 1) + 1 = m - n + i
            BY <1>1, <1>6
        <3>2. rs[n - i + 1] = s[n - (n - i + 1) + 1] /\ rt[n - i + 1] = t[m - (n - i + 1) + 1]
            BY <1>3, <3>1
        <3> QED BY <2>1, <3>1, <3>2
    <2>2. ASSUME \A i \in 1 .. n : s[i] = t[m - n + i], NEW i \in 1 .. n
          PROVE  rs[i] = rt[i]
        <3>1. n - i + 1 \in 1 .. n /\ i \in 1 .. m /\ m - n + (n - i + 1) = m - i + 1
            BY <1>1, <1>6
        <3> QED BY <1>3, <2>2, <3>1
    <2> QED BY <2>1, <2>2
<1> QED BY <1>4, <1>5, <1>6

\* The end of a text without its first character.
LEMMA TailEnds ==
    ASSUME NEW S, NEW s \in Seq(S), NEW t \in Seq(S), s # <<>>
    PROVE  /\ IsSuffix(s, t) => /\ IsSuffix(Tail(s), t)
                                /\ Len(t) - Len(Tail(s)) > 0 /\ t[Len(t) - Len(Tail(s))] = Head(s)
           /\ IsSuffix(t, t) /\ IsSuffix(Tail(s), s)
<1>1. Tail(s) \in Seq(S) /\ Len(Tail(s)) = Len(s) - 1 /\ Len(s) > 0 /\ Head(s) = s[1]
      /\ \A i \in 1 .. Len(s) - 1 : Tail(s)[i] = s[i + 1]
    OBVIOUS
<1>2. ASSUME NEW x \in Seq(S), IsSuffix(s, x)
      PROVE  IsSuffix(Tail(s), x) /\ Len(x) - Len(Tail(s)) > 0 /\ x[Len(x) - Len(Tail(s))] = Head(s)
    <2>1. Len(s) <= Len(x) /\ \A i \in 1 .. Len(s) : s[i] = x[Len(x) - Len(s) + i]
        BY <1>2, SuffixMeans
    <2>2. Len(x) \in Nat /\ Len(s) \in Nat
        OBVIOUS
    <2>3. ASSUME NEW i \in 1 .. Len(Tail(s))
          PROVE  Tail(s)[i] = x[Len(x) - Len(Tail(s)) + i]
        <3>1. i + 1 \in 1 .. Len(s) /\ i \in 1 .. Len(s) - 1 /\ Len(x) - Len(s) + (i + 1) = Len(x) - Len(Tail(s)) + i
            BY <1>1, <2>2
        <3>2. s[i + 1] = x[Len(x) - Len(s) + (i + 1)]
            BY <2>1, <3>1
        <3> QED BY <1>1, <3>1, <3>2
    <2>4. IsSuffix(Tail(s), x)
        <3>1. Len(Tail(s)) <= Len(x)
            BY <1>1, <2>1, <2>2
        <3> QED BY <1>1, <2>3, <3>1, SuffixMeans
    <2>5. 1 \in 1 .. Len(s) /\ Len(x) - Len(s) + 1 = Len(x) - Len(Tail(s)) /\ Len(x) - Len(Tail(s)) > 0
        BY <1>1, <2>1, <2>2
    <2> QED BY <1>1, <2>1, <2>4, <2>5
<1>3. \A x \in Seq(S) : IsSuffix(x, x)
    BY SuffixMeans
<1> QED BY <1>2, <1>3

\* A token without a colon has no port.
LEMMA NoPort ==
    ASSUME NEW t, \A i \in DOMAIN t : t[i] # ":"
    PROVE  StripPort(t) = t
BY DEF StripPort

\* What is left of a token is a part of it.
LEMMA StripTyped ==
    ASSUME NEW S, NEW t \in Seq(S)
    PROVE  StripPort(t) \in Seq(S)
<1> DEFINE colons == {i \in DOMAIN t : t[i] = ":"}
           n == Len(t)
           back == {n - i : i \in colons}
<1>1. CASE colons = {}
    BY <1>1 DEF StripPort
<1>2. CASE colons # {}
    <2>1. n \in Nat /\ colons \subseteq 1 .. n
        OBVIOUS
    <2>2. back \subseteq Nat /\ back # {}
        BY <1>2, <2>1
    <2>3. PICK b \in back : \A c \in back : b <= c
        BY <2>2, LeastExists
    <2>4. PICK i \in colons : b = n - i
        BY <2>3
    <2>5. ASSUME NEW y \in colons
          PROVE  i >= y
        <3>1. n - y \in back
            OBVIOUS
        <3>2. n - i <= n - y
            BY <2>3, <2>4, <3>1
        <3> HIDE DEF colons
        <3> QED BY <2>1, <3>2
    <2> HIDE DEF colons
    <2>6. Max(colons) \in colons
        BY <2>5, Zenon DEF Max
    <2>7. Max(colons) \in 1 .. n
        BY <2>1, <2>6
    <2>8. StripPort(t) = t \/ StripPort(t) = SubSeq(t, 1, Max(colons) - 1)
        BY <1>2, Zenon DEF StripPort, colons
    <2>9. ASSUME NEW k \in 1 .. n
          PROVE  SubSeq(t, 1, k - 1) \in Seq(S)
        BY <2>1
    <2> QED BY <2>7, <2>8, <2>9
<1> QED BY <1>1, <1>2

\* For every NO_PROXY list and every host, of any length: a host that is named there, or
\* is below a domain named there, goes direct, no host does whose end is not in the
\* list, and a token with a dot in front does not mean the domain itself
\* (should_bypass_env_proxy_for_url of http_client_monad.hpp).
THEOREM BypassLaw ==
    ASSUME NEW S, NEW upper \in Seq(Seq(S)), NEW lower \in Seq(Seq(S)), NEW host \in Seq(S)
    PROVE  BypassOK(upper, lower, host)
<1> DEFINE list == IF upper # <<>> THEN upper ELSE lower
           sound(t) == t = <<"*">> \/ IsSuffix(IF StripPort(t) # <<>> /\ Head(StripPort(t)) = "."
                                               THEN Tail(StripPort(t)) ELSE StripPort(t), host)
           plain(t) == t # <<>> /\ \A i \in DOMAIN t : t[i] # ":"
           below(t) == IF Head(t) = "." THEN t # <<".">> /\ IsSuffix(t, host) ELSE IsSuffix(<<".">> \o t, host)
<1>1. SUFFICES ASSUME host # <<>>
               PROVE  /\ ShouldBypass(upper, lower, host) => \E i \in DOMAIN list : sound(list[i])
                      /\ (\E i \in DOMAIN list : plain(list[i]) /\ (host = list[i] \/ (below(list[i]) /\ host # list[i])))
                            => ShouldBypass(upper, lower, host)
                      /\ (Len(list) = 1 /\ plain(list[1]) /\ Head(list[1]) = "." /\ Len(list[1]) > 1
                            /\ host = Tail(list[1])) => ~ShouldBypass(upper, lower, host)
    BY DEF BypassOK
<1>2. list \in Seq(Seq(S)) /\ \A i \in DOMAIN list : list[i] \in Seq(S)
    OBVIOUS
<1>3. ShouldBypass(upper, lower, host) <=> \E i \in DOMAIN list : TokenMatches(list[i], host)
    BY <1>1 DEF ShouldBypass
<1> HIDE DEF list
<1>4. ASSUME NEW t \in Seq(S), TokenMatches(t, host)
      PROVE  sound(t)
    <2>1. StripPort(t) \in Seq(S)
        BY StripTyped
    <2>2. StripPort(t) # <<>> => IsSuffix(StripPort(t), StripPort(t)) /\ IsSuffix(Tail(StripPort(t)), StripPort(t))
        BY <2>1, TailEnds
    <2> QED BY <1>4, <2>2 DEF TokenMatches
<1>5. ASSUME NEW t \in Seq(S), plain(t), host = t \/ (below(t) /\ host # t)
      PROVE  TokenMatches(t, host)
    <2>1. StripPort(t) = t
        BY <1>5, NoPort
    <2>2. CASE host = t
        BY <1>1, <2>1, <2>2 DEF TokenMatches
    <2>3. CASE Head(t) = "." /\ t # <<".">> /\ IsSuffix(t, host)
        <3>1. /\ IsSuffix(Tail(t), host)
              /\ Len(host) - Len(Tail(t)) > 0 /\ host[Len(host) - Len(Tail(t))] = "."
            BY <1>5, <2>3, TailEnds
        <3>2. Tail(t) # <<>>
            <4>1. SUFFICES ASSUME Tail(t) = <<>> PROVE FALSE
                OBVIOUS
            <4>2. Len(Tail(t)) = Len(t) - 1 /\ Len(t) \in Nat /\ Head(t) = t[1]
                BY <1>5
            <4>3. Len(Tail(t)) = 0
                <5>1. Len(<<>>) = 0
                    OBVIOUS
                <5> QED BY <4>1, <5>1, Zenon
            <4>4. Len(t) = 1 /\ t[1] = "."
                BY <2>3, <4>2, <4>3
            <4>5. t = <<".">>
                BY <4>4
            <4> QED BY <2>3, <4>5
        <3> QED BY <1>5, <2>1, <2>3, <3>1, <3>2 DEF TokenMatches
    <2>4. CASE Head(t) # "." /\ IsSuffix(<<".">> \o t, host)
        <3> DEFINE u == <<".">> \o t
                   T == S \cup {"."}
        <3>1. t \in Seq(T) /\ host \in Seq(T) /\ <<".">> \in Seq(T)
            OBVIOUS
        <3>2. u \in Seq(T) /\ u # <<>> /\ Tail(u) = t
            BY <3>1
        <3> HIDE DEF u, T
        <3>3. IsSuffix(t, host) /\ Len(host) - Len(t) > 0
            BY <2>4, <3>1, <3>2, TailEnds DEF u
        <3> QED BY <1>5, <2>1, <2>4, <3>3 DEF TokenMatches
    <2> QED BY <1>5, <2>2, <2>3, <2>4
<1>6. ASSUME NEW t \in Seq(S), plain(t), Head(t) = ".", Len(t) > 1, host = Tail(t)
      PROVE  ~TokenMatches(t, host)
    <2>1. StripPort(t) = t
        BY <1>6, NoPort
    <2>2. Len(host) = Len(t) - 1 /\ Len(t) \in Nat
        BY <1>6
    <2>3. Len(host) # Len(t) /\ Len(host) - Len(Tail(t)) = 0
        <3>1. Len(Tail(t)) = Len(host)
            BY <1>6, Zenon
        <3> QED BY <2>2, <3>1
    <2>4. t # <<"*">>
        BY <1>6
    <2>5. host # t
        BY <2>3
    <2> QED BY <1>6, <2>1, <2>3, <2>4, <2>5 DEF TokenMatches
<1>7. ASSUME Len(list) = 1, plain(list[1]), Head(list[1]) = ".", Len(list[1]) > 1, host = Tail(list[1])
      PROVE  ~ShouldBypass(upper, lower, host)
    <2>1. DOMAIN list = {1} /\ list[1] \in Seq(S)
        BY <1>2, <1>7
    <2> QED BY <1>3, <1>6, <1>7, <2>1
<1> QED BY <1>2, <1>3, <1>4, <1>5, <1>7

-----------------------------------------------------------------------------
(* Variables: overrides of any names and values, set in any order, and     *)
(* AppProperties built at any time from any files.                         *)

OverridesNext ==
    \/ \E k, v : SetCliOverride(k, v) \/ SetEnv(k, v)
    \/ \E m : MergeEnvOverrides(m) \/ KeepProperties(m)
OverridesSpec == ConfigInit /\ [][OverridesNext]_configVars

\* What it rests on: ConfigSources forgets no name that AppProperties gave it.
PropertiesKept == built => DOMAIN props \subseteq DOMAIN over

\* A reference that json_content leaves in the text, for no source has the variable, is
\* not found by substitue_envs either, which reads the properties in place of the
\* overrides; and a property that nothing outranks has the value of the overrides.
ReferencesStay ==
    built => \A k : /\ ResolveEnvVar(cli, env, over, k) = {} => ResolveEnvVar(cli, env, props, k) = {}
                    /\ (k \in DOMAIN props /\ k \notin DOMAIN cli /\ (k \in DOMAIN env => env[k] = <<>>))
                          => ResolveEnvVar(cli, env, over, k) = {over[k]}

\* What is merged has the names of both.
LEMMA OverDomain ==
    ASSUME NEW f, NEW g
    PROVE  DOMAIN Over(f, g) = DOMAIN f \cup DOMAIN g
BY DEF Over

\* In whatever order the command line, the environment and other code set overrides, and
\* whenever AppProperties is built in between: what json_content leaves in a text because
\* no source has it, substitue_envs leaves there too.  (On a variable that has a value the
\* two may differ: overrides merged after AppProperties was built are known to the first
\* only.)
THEOREM OverridesAgree == OverridesSpec => []ReferencesStay
<1>1. ConfigInit => PropertiesKept
    BY DEF ConfigInit, PropertiesKept
<1>2. PropertiesKept /\ [OverridesNext]_configVars => PropertiesKept'
    <2> SUFFICES ASSUME PropertiesKept, [OverridesNext]_configVars
                 PROVE  PropertiesKept'
        OBVIOUS
    <2>1. ASSUME NEW k, NEW v, SetCliOverride(k, v) \/ SetEnv(k, v)
          PROVE  PropertiesKept'
        BY <2>1 DEF PropertiesKept, SetCliOverride, SetEnv
    <2>2. ASSUME NEW m, MergeEnvOverrides(m)
          PROVE  PropertiesKept'
        <3>1. props' = props /\ built' = built /\ over' = Over(over, m)
            BY <2>2 DEF MergeEnvOverrides
        <3>2. DOMAIN over \subseteq DOMAIN over'
            BY <3>1, OverDomain
        <3> QED BY <3>1, <3>2 DEF PropertiesKept
    <2>3. ASSUME NEW m, KeepProperties(m)
          PROVE  PropertiesKept'
        <3>1. over' = Over(over, props')
            BY <2>3 DEF KeepProperties
        <3>2. DOMAIN props' \subseteq DOMAIN over'
            BY <3>1, OverDomain
        <3> QED BY <3>2 DEF PropertiesKept
    <2>4. CASE UNCHANGED configVars
        BY <2>4 DEF configVars, PropertiesKept
    <2> QED BY <2>1, <2>2, <2>3, <2>4 DEF OverridesNext
<1>3. PropertiesKept => ReferencesStay
    <2> SUFFICES ASSUME PropertiesKept, built, NEW k
                 PROVE  /\ ResolveEnvVar(cli, env, over, k) = {} => ResolveEnvVar(cli, env, props, k) = {}
                        /\ (k \in DOMAIN props /\ k \notin DOMAIN cli /\ (k \in DOMAIN env => env[k] = <<>>))
                              => ResolveEnvVar(cli, env, over, k) = {over[k]}
        BY DEF ReferencesStay
    <2>1. k \in DOMAIN props => k \in DOMAIN over
        BY DEF PropertiesKept
    <2> QED BY <2>1 DEF ResolveEnvVar
<1> QED BY <1>1, <1>2, <1>3, PTL DEF OverridesSpec
=============================================================================
