------------------------ MODULE ConnectionPool_proofs ------------------------
(***************************************************************************)
(* Proofs about ConnectionPool, for any number of clients, origins and     *)
(* connections and any configuration of the pool.                          *)
(***************************************************************************)
EXTENDS ConnectionPool, SequenceTheorems, FiniteSetTheorems, FunctionTheorems, TLAPS

(***************************************************************************)
(* Every change of the deques other than push_back removes entries and     *)
(* keeps the others in order.                                              *)
(***************************************************************************)
Deques == [Origins -> Seq(Conns)]

Increasing(g) == \A m, n \in DOMAIN g : m < n => g[m] < g[n]

Within(q, d) ==
    \A o \in Origins : \E g \in [DOMAIN q[o] -> DOMAIN d[o]] :
        Increasing(g) /\ \A n \in DOMAIN q[o] : q[o][n] = d[o][g[n]]

Distinct(d) ==
    \A o, p \in Origins : \A i \in DOMAIN d[o], j \in DOMAIN d[p] :
        d[o][i] = d[p][j] => o = p /\ i = j

\* What is within deques without duplicates has no duplicates.
LEMMA WithinDistinct ==
    ASSUME NEW d \in Deques, NEW q \in Deques, Within(q, d), Distinct(d)
    PROVE  Distinct(q)
<1> SUFFICES ASSUME NEW o \in Origins, NEW p \in Origins,
                    NEW i \in DOMAIN q[o], NEW j \in DOMAIN q[p],
                    q[o][i] = q[p][j]
             PROVE  o = p /\ i = j
    BY DEF Distinct
<1>1. PICK g \in [DOMAIN q[o] -> DOMAIN d[o]] :
        Increasing(g) /\ \A n \in DOMAIN q[o] : q[o][n] = d[o][g[n]]
    BY DEF Within
<1>2. PICK h \in [DOMAIN q[p] -> DOMAIN d[p]] :
        Increasing(h) /\ \A n \in DOMAIN q[p] : q[p][n] = d[p][h[n]]
    BY DEF Within
<1>3. o = p /\ g[i] = h[j]
    BY <1>1, <1>2 DEF Distinct
<1>4. d[o][g[j]] = d[o][h[j]]
    BY <1>1, <1>2, <1>3
<1>5. g[j] = h[j]
    BY <1>1, <1>2, <1>3, <1>4 DEF Distinct
<1>6. i \in Int /\ j \in Int
    BY <1>3 DEF Deques
<1>7. g[i] \in Int /\ g[j] \in Int
    BY <1>1, <1>3 DEF Deques
<1>8. ~(i < j) /\ ~(j < i)
    BY <1>1, <1>3, <1>5, <1>7 DEF Increasing
<1> QED
    BY <1>3, <1>6, <1>8

\* Nothing new appears in it.
LEMMA WithinPooled ==
    ASSUME NEW d, NEW q, Within(q, d)
    PROVE  \A o \in Origins : \A i \in DOMAIN q[o] :
                \E j \in DOMAIN d[o] : q[o][i] = d[o][j]
BY DEF Within

LEMMA WithinTransitive ==
    ASSUME NEW d \in Deques, NEW q \in Deques, NEW r \in Deques,
           Within(q, d), Within(r, q)
    PROVE  Within(r, d)
<1> SUFFICES ASSUME NEW o \in Origins
             PROVE  \E f \in [DOMAIN r[o] -> DOMAIN d[o]] :
                        Increasing(f) /\ \A n \in DOMAIN r[o] : r[o][n] = d[o][f[n]]
    BY DEF Within
<1>1. PICK g \in [DOMAIN q[o] -> DOMAIN d[o]] :
        Increasing(g) /\ \A n \in DOMAIN q[o] : q[o][n] = d[o][g[n]]
    BY DEF Within
<1>2. PICK h \in [DOMAIN r[o] -> DOMAIN q[o]] :
        Increasing(h) /\ \A n \in DOMAIN r[o] : r[o][n] = q[o][h[n]]
    BY DEF Within
<1> DEFINE f == [n \in DOMAIN r[o] |-> g[h[n]]]
<1>3. f \in [DOMAIN r[o] -> DOMAIN d[o]]
    OBVIOUS
<1>4. Increasing(f)
    BY <1>1, <1>2 DEF Increasing
<1>5. \A n \in DOMAIN r[o] : r[o][n] = d[o][f[n]]
    BY <1>1, <1>2
<1> QED
    BY <1>3, <1>4, <1>5

\* Cutting a deque off at either end.
LEMMA CutWithin ==
    ASSUME NEW d \in Deques, NEW v \in Origins, NEW s \in Seq(Conns), NEW e \in Nat,
           \A n \in DOMAIN s : n + e \in DOMAIN d[v] /\ s[n] = d[v][n + e]
    PROVE  [d EXCEPT ![v] = s] \in Deques /\ Within([d EXCEPT ![v] = s], d)
<1> DEFINE q == [d EXCEPT ![v] = s]
<1>1. q \in Deques
    BY DEF Deques
<1> SUFFICES ASSUME NEW o \in Origins
             PROVE  \E g \in [DOMAIN q[o] -> DOMAIN d[o]] :
                        Increasing(g) /\ \A n \in DOMAIN q[o] : q[o][n] = d[o][g[n]]
    BY <1>1 DEF Within
<1> DEFINE g == [n \in DOMAIN q[o] |-> IF o = v THEN n + e ELSE n]
<1>2. q[o] = IF o = v THEN s ELSE d[o]
    BY DEF Deques
<1>3. DOMAIN q[o] \subseteq Int
    BY <1>1 DEF Deques
<1>4. g \in [DOMAIN q[o] -> DOMAIN d[o]]
    BY <1>2
<1>5. Increasing(g)
    BY <1>3 DEF Increasing
<1>6. \A n \in DOMAIN q[o] : q[o][n] = d[o][g[n]]
    BY <1>2
<1> QED
    BY <1>4, <1>5, <1>6

LEMMA TailWithin ==
    ASSUME NEW d \in Deques, NEW v \in Origins, d[v] # <<>>
    PROVE  [d EXCEPT ![v] = Tail(@)] \in Deques /\ Within([d EXCEPT ![v] = Tail(@)], d)
<1>1. d[v] \in Seq(Conns)
    BY DEF Deques
<1>2. Tail(d[v]) \in Seq(Conns)
    BY <1>1
<1>3. \A n \in DOMAIN Tail(d[v]) : n + 1 \in DOMAIN d[v] /\ Tail(d[v])[n] = d[v][n + 1]
    BY <1>1
<1> QED
    BY <1>2, <1>3, CutWithin

LEMMA WithinReflexive ==
    ASSUME NEW d \in Deques
    PROVE  Within(d, d)
<1> SUFFICES ASSUME NEW o \in Origins
             PROVE  \E g \in [DOMAIN d[o] -> DOMAIN d[o]] :
                        Increasing(g) /\ \A n \in DOMAIN d[o] : d[o][n] = d[o][g[n]]
    BY DEF Within
<1> DEFINE g == [n \in DOMAIN d[o] |-> n]
<1>1. g \in [DOMAIN d[o] -> DOMAIN d[o]] /\ Increasing(g)
    BY DEF Increasing
<1> QED
    BY <1>1

LEMMA ShrunkWithin ==
    ASSUME NEW d \in Deques, NEW q \in Shrunk(d)
    PROVE  q \in Deques /\ Within(q, d)
<1>1. CASE TotalIdle(d) <= MaxTotalIdle
    BY <1>1, WithinReflexive DEF Shrunk
<1>2. CASE ~ (TotalIdle(d) <= MaxTotalIdle)
    <2>1. PICK v \in Largest(d) : q = [d EXCEPT ![v] = Tail(@)]
        BY <1>2 DEF Shrunk
    <2> QED
        BY <2>1, TailWithin DEF Largest
<1> QED
    BY <1>1, <1>2

LEMMA PrunedWithin ==
    ASSUME idle \in Deques, NEW p \in Pruned
    PROVE  p \in Deques /\ Within(p, idle)
<1>1. ASSUME NEW o \in Origins
      PROVE  /\ p[o] \in Seq(Conns)
             /\ \E g \in [DOMAIN p[o] -> DOMAIN idle[o]] :
                    Increasing(g) /\ \A n \in DOMAIN p[o] : p[o][n] = idle[o][g[n]]
    <2>1. p[o] \in PrunedDeque(idle[o])
        BY DEF Pruned
    <2>2. PICK f \in Enumerations(Kept(idle[o])) : p[o] = [n \in DOMAIN f |-> idle[o][f[n]]]
        BY <2>1 DEF PrunedDeque
    <2> DEFINE N == Cardinality(Kept(idle[o]))
    <2>3. idle[o] \in Seq(Conns)
        BY DEF Deques
    <2>4. f \in [1..N -> Kept(idle[o])] /\ Increasing(f)
        BY DEF Enumerations, Increasing
    <2>5. Kept(idle[o]) \subseteq DOMAIN idle[o]
        BY DEF Kept
    <2>6. N \in Nat
        <3>1. IsFiniteSet(1 .. Len(idle[o]))
            BY <2>3, FS_Interval
        <3>2. DOMAIN idle[o] = 1 .. Len(idle[o])
            BY <2>3
        <3> QED
            BY <3>1, <3>2, <2>5, FS_Subset, FS_CardinalityType
    <2>7. p[o] \in [1..N -> Conns]
        BY <2>2, <2>3, <2>4, <2>5
    <2>8. p[o] \in Seq(Conns)
        BY <2>6, <2>7
    <2>9. f \in [DOMAIN p[o] -> DOMAIN idle[o]]
        BY <2>2, <2>4, <2>5
    <2>10. \A n \in DOMAIN p[o] : p[o][n] = idle[o][f[n]]
        BY <2>2
    <2> QED
        BY <2>4, <2>8, <2>9, <2>10
<1>2. p \in [Origins -> UNION {PrunedDeque(idle[o]) : o \in Origins}]
    BY DEF Pruned
<1>3. p \in Deques
    BY <1>1, <1>2 DEF Deques
<1> QED
    BY <1>1, <1>3 DEF Within

-----------------------------------------------------------------------------
(***************************************************************************)
(* Type correctness.                                                       *)
(***************************************************************************)
LEMMA PushBackType ==
    ASSUME NEW dq \in Seq(Conns), NEW c \in Conns
    PROVE  PushBack(dq, c) \in Seq(Conns)
<1>1. CASE Len(dq) >= MaxIdlePerOrigin
    <2>1. dq # <<>>
        BY <1>1, PoolAssumption
    <2>2. Tail(dq) \in Seq(Conns)
        BY <2>1
    <2> QED
        BY <1>1, <2>2 DEF PushBack
<1>2. CASE ~(Len(dq) >= MaxIdlePerOrigin)
    BY <1>2 DEF PushBack
<1> QED
    BY <1>1, <1>2

LEMMA DisposeType ==
    ASSUME TypeOK, NEW S, Dispose(S)
    PROVE  /\ sock' \in [Conns -> SockStates]
           /\ origin' \in [Conns -> Origins \cup {NoOrigin}]
BY DEF Dispose, TypeOK, SockStates

LEMMA IdleAgesType ==
    ASSUME TypeOK, NEW d
    PROVE  IdleAges(d) \in [Conns -> 0 .. KeepAlive + 1]
BY PoolAssumption DEF IdleAges, TypeOK

\* Every handler leaves the variables well typed.
LEMMA TypeStep == TypeOK /\ [Next]_vars => TypeOK'
<1> SUFFICES ASSUME TypeOK, [Next]_vars PROVE TypeOK'
    OBVIOUS
<1> USE DEF PcStates, Opening, InUse
<1>1. ASSUME NEW k \in Clients, NEW o \in Origins, Acquire(k, o)
      PROVE  TypeOK'
    BY <1>1, PoolAssumption DEF Acquire, TypeOK
<1>2. ASSUME NEW k \in Clients, NEW b \in BOOLEAN, Release(k, b)
      PROVE  TypeOK'
    BY <1>2 DEF Release, TypeOK, SockStates
<1>3. ASSUME NEW k \in Clients, AcquireReuse(k)
      PROVE  TypeOK'
    <2> DEFINE dq == idle[want[k]]
    <2>1. want[k] \in Origins /\ dq \in Seq(Conns)
        BY <1>3 DEF AcquireReuse, TypeOK
    <2>2. PICK i \in DOMAIN dq :
            /\ idle' = [idle EXCEPT ![want[k]] = SubSeq(dq, 1, i-1)]
            /\ Dispose({dq[j] : j \in i+1 .. Len(dq)})
            /\ conn' = [conn EXCEPT ![k] = dq[i]]
        BY <1>3 DEF AcquireReuse, TakenFrom
    <2>3. SubSeq(dq, 1, i-1) \in Seq(Conns) /\ dq[i] \in Conns
        BY <2>1
    <2>4. idle' \in [Origins -> Seq(Conns)]
        BY <2>1, <2>2, <2>3 DEF TypeOK
    <2>5. age' \in [Conns -> 0 .. KeepAlive + 1]
        BY <1>3, IdleAgesType DEF AcquireReuse
    <2>6. /\ pc' = [pc EXCEPT ![k] = "held"]
          /\ want' = [want EXCEPT ![k] = NoOrigin]
          /\ UNCHANGED <<reaper_armed, waits>>
        BY <1>3 DEF AcquireReuse
    <2> QED
        BY <2>2, <2>3, <2>4, <2>5, <2>6, DisposeType, PoolAssumption DEF TypeOK
<1>4. ASSUME NEW k \in Clients, AcquireCreate(k)
      PROVE  TypeOK'
    <2>1. age' \in [Conns -> 0 .. KeepAlive + 1]
        BY <1>4, IdleAgesType DEF AcquireCreate
    <2>2. idle' \in [Origins -> Seq(Conns)]
        BY <1>4 DEF AcquireCreate, TypeOK
    <2>3. /\ pc[k] = "posted"
          /\ pc' = [pc EXCEPT ![k] = "resolving"]
          /\ want' = [want EXCEPT ![k] = NoOrigin]
          /\ UNCHANGED <<reaper_armed, waits>>
        BY <1>4 DEF AcquireCreate
    <2>4. PICK c \in Conns : conn' = [conn EXCEPT ![k] = c]
        BY <1>4 DEF AcquireCreate
    <2>5. sock' \in [Conns -> SockStates]
        BY <1>4 DEF AcquireCreate, TypeOK, SockStates
    <2>6. origin' \in [Conns -> Origins \cup {NoOrigin}]
        BY <1>4 DEF AcquireCreate, TypeOK
    <2> QED
        BY <2>1, <2>2, <2>3, <2>4, <2>5, <2>6, PoolAssumption DEF TypeOK
<1>5. ASSUME NEW k \in Clients, Resolved(k) \/ Connected(k) \/ HandshakeDone(k)
      PROVE  TypeOK'
    BY <1>5 DEF Resolved, Connected, HandshakeDone, TypeOK, SockStates
<1>6. ASSUME NEW k \in Clients, OpenFailed(k) \/ ReleaseDrop(k)
      PROVE  TypeOK'
    BY <1>6, DisposeType DEF OpenFailed, ReleaseDrop, TypeOK
<1>7. ASSUME NEW k \in Clients, ReleaseKeep(k)
      PROVE  TypeOK'
    <2> DEFINE c == conn[k]
               pushed == [idle EXCEPT ![origin[c]] = PushBack(@, c)]
    <2>1. c \in Conns
        BY <1>7 DEF ReleaseKeep, TypeOK
    <2>2. pushed \in Deques
        BY <2>1, PushBackType DEF TypeOK, Deques
    <2>3. idle' \in [Origins -> Seq(Conns)]
        BY <1>7, <2>2, ShrunkWithin DEF ReleaseKeep, Key, Deques
    <2>4. age' \in [Conns -> 0 .. KeepAlive + 1]
        <3>1. IdleAges(idle') \in [Conns -> 0 .. KeepAlive + 1]
            BY IdleAgesType
        <3>2. age' = [IdleAges(idle') EXCEPT ![c] = 0]
            BY <1>7 DEF ReleaseKeep
        <3>3. 0 \in 0 .. KeepAlive + 1
            BY PoolAssumption
        <3> HIDE DEF c
        <3> QED
            BY <3>1, <3>2, <3>3, <2>1
    <2>5. reaper_armed' \in BOOLEAN /\ waits' \in Nat
        <3>1. \/ reaper_armed' = TRUE /\ waits' = waits + 1
              \/ UNCHANGED <<reaper_armed, waits>>
            BY <1>7 DEF ReleaseKeep, ArmReapIfNeeded
        <3>2. waits' \in Nat
            BY <3>1 DEF TypeOK
        <3> QED
            BY <3>1, <3>2, Zenon DEF TypeOK
    <2>6. /\ Dispose((Pooled(idle) \cup {c}) \ Pooled(idle'))
          /\ pc[k] = "reuse"
          /\ pc' = [pc EXCEPT ![k] = "out"]
          /\ conn' = [conn EXCEPT ![k] = NoConn]
          /\ UNCHANGED want
        BY <1>7 DEF ReleaseKeep
    <2> QED
        BY <2>3, <2>4, <2>5, <2>6, DisposeType DEF TypeOK
<1>8. ASSUME Reap
      PROVE  TypeOK'
    <2>1. PICK p \in Pruned : idle' \in Shrunk(p)
        BY <1>8 DEF Reap
    <2>2. idle' \in [Origins -> Seq(Conns)]
        BY <2>1, PrunedWithin, ShrunkWithin DEF TypeOK, Deques
    <2>3. age' \in [Conns -> 0 .. KeepAlive + 1]
        BY <1>8, IdleAgesType DEF Reap
    <2>4. reaper_armed' \in BOOLEAN /\ waits' \in Nat
        <3>1. \/ reaper_armed' = FALSE /\ waits' = waits - 1
              \/ UNCHANGED <<reaper_armed, waits>>
            BY <1>8 DEF Reap, ReArm
        <3>2. waits' \in Nat
            BY <1>8, <3>1 DEF Reap, TypeOK
        <3> QED
            BY <3>1, <3>2, Zenon DEF TypeOK
    <2> QED
        BY <1>8, <2>2, <2>3, <2>4, DisposeType DEF Reap, TypeOK
<1>9. ASSUME Tick
      PROVE  TypeOK'
    <2>1. age' \in [Conns -> 0 .. KeepAlive + 1]
        BY <1>9, PoolAssumption DEF Tick, TypeOK
    <2> QED
        BY <1>9, <2>1 DEF Tick, TypeOK
<1>10. CASE UNCHANGED vars
    BY <1>10 DEF vars, TypeOK
<1> QED
    BY <1>1, <1>2, <1>3, <1>4, <1>5, <1>6, <1>7, <1>8, <1>9, <1>10 DEF Next, OnStrand

\* TypeOK for every interleaving of the pool's handlers, in any configuration.
THEOREM TypeCorrect == Spec => []TypeOK
<1>1. Init => TypeOK
    <2> SUFFICES ASSUME Init PROVE TypeOK
        OBVIOUS
    <2>1. reaper_armed \in BOOLEAN
        BY Zenon DEF Init
    <2> QED
        BY <2>1, PoolAssumption DEF Init, TypeOK, PcStates, Opening, InUse, SockStates
<1> QED
    BY <1>1, TypeStep, PTL DEF Spec

-----------------------------------------------------------------------------
(***************************************************************************)
(* Exclusive leases.  ExclusiveLease is not inductive alone: acquire makes *)
(* an object in a slot that must not be one a deque or a client refers to, *)
(* which IdleReady and LeaseReady say; release files a connection under    *)
(* its origin, which LeaseReady says is one.                               *)
(***************************************************************************)
LeaseInv ==
    /\ TypeOK
    /\ ExclusiveLease
    /\ IdleReady
    /\ LeaseReady
    /\ NoOrphan

Separate(d) ==
    \A k \in Clients, o \in Origins : \A i \in DOMAIN d[o] : conn[k] # d[o][i]

OneClient == \A k, l \in Clients : k # l /\ conn[k] = conn[l] => conn[k] = NoConn

LEMMA InPooled ==
    ASSUME NEW d, NEW c
    PROVE  c \in Pooled(d) <=> \E o \in Origins : \E i \in DOMAIN d[o] : c = d[o][i]
BY DEF Pooled

\* acquire hands out dq[i], which it popped, and closes what was behind it.
LEMMA LeaseReuse ==
    ASSUME LeaseInv, TypeOK', NEW k \in Clients, AcquireReuse(k)
    PROVE  LeaseInv'
<1> DEFINE w == want[k]
           dq == idle[w]
<1>1. w \in Origins /\ dq \in Seq(Conns) /\ idle \in Deques /\ idle' \in Deques
    BY DEF AcquireReuse, LeaseInv, TypeOK, Deques
<1>2. PICK i \in DOMAIN dq :
        /\ idle' = [idle EXCEPT ![w] = SubSeq(dq, 1, i-1)]
        /\ Dispose({dq[j] : j \in i+1 .. Len(dq)})
        /\ conn' = [conn EXCEPT ![k] = dq[i]]
    BY DEF AcquireReuse, TakenFrom
<1>3. pc[k] = "posted" /\ pc' = [pc EXCEPT ![k] = "held"]
    BY DEF AcquireReuse
<1> DEFINE c == dq[i]
           S == {dq[j] : j \in i+1 .. Len(dq)}
<1>4. /\ \A n \in DOMAIN idle'[w] : n \in DOMAIN dq /\ n < i /\ idle'[w][n] = dq[n]
      /\ \A o \in Origins \ {w} : idle'[o] = idle[o]
    BY <1>1, <1>2 DEF Deques
<1>5. \A o \in Origins : \A n \in DOMAIN idle'[o] :
        n \in DOMAIN idle[o] /\ idle'[o][n] = idle[o][n]
    BY <1>4
<1>6. \A o \in Origins : \A n \in DOMAIN idle'[o] : idle'[o][n] # c /\ idle'[o][n] \notin S
    <2> SUFFICES ASSUME NEW o \in Origins, NEW n \in DOMAIN idle'[o],
                        NEW j \in i .. Len(dq), idle'[o][n] = dq[j]
                 PROVE  FALSE
        BY <1>1
    <2>1. j \in DOMAIN dq /\ i \in Int /\ j >= i
        BY <1>1
    <2>2. o = w /\ n = j
        BY <1>1, <1>5, <2>1 DEF LeaseInv, ExclusiveLease
    <2> QED
        BY <1>4, <2>1, <2>2
<1>7. \A l \in Clients : conn[l] # c /\ conn[l] \notin S
    BY <1>1 DEF LeaseInv, ExclusiveLease
<1>8. \A x \in Conns : x \notin S => sock'[x] = sock[x] /\ origin'[x] = origin[x]
    BY <1>2 DEF Dispose
<1>9. c \in Conns /\ sock[c] = "open" /\ origin[c] = w
    BY <1>1 DEF LeaseInv, IdleReady
<1>10. c \notin S
    <2> SUFFICES ASSUME NEW j \in i+1 .. Len(dq), c = dq[j] PROVE FALSE
        OBVIOUS
    <2>1. j \in DOMAIN dq /\ i # j
        BY <1>1
    <2> QED
        BY <1>1, <2>1 DEF LeaseInv, ExclusiveLease
<1>11. \A l \in Clients : conn'[l] = IF l = k THEN c ELSE conn[l]
    BY <1>2 DEF LeaseInv, TypeOK
<1>12. \A l \in Clients : pc'[l] = IF l = k THEN "held" ELSE pc[l]
    BY <1>3 DEF LeaseInv, TypeOK
<1> HIDE DEF c, S
<1>13. OneClient'
    BY <1>7, <1>11 DEF OneClient, LeaseInv, ExclusiveLease
<1>14. Separate(idle)'
    BY <1>5, <1>6, <1>11 DEF Separate, LeaseInv, ExclusiveLease
<1>15. Distinct(idle)'
    BY <1>5 DEF Distinct, LeaseInv, ExclusiveLease
<1>16. IdleReady'
    <2> SUFFICES ASSUME NEW o \in Origins, NEW n \in DOMAIN idle'[o]
                 PROVE  sock'[idle'[o][n]] = "open" /\ origin'[idle'[o][n]] = o
        BY DEF IdleReady
    <2>1. idle'[o][n] \in Conns
        BY <1>1 DEF Deques
    <2> QED
        BY <1>5, <1>6, <1>8, <2>1 DEF LeaseInv, IdleReady
<1>17. LeaseReady'
    <2> SUFFICES ASSUME NEW l \in Clients
                 PROVE /\ pc'[l] \in {"resolving", "connecting"} => sock'[conn'[l]] = "opening"
                       /\ pc'[l] \in {"handshaking", "held", "reuse"} => sock'[conn'[l]] = "open"
                       /\ pc'[l] = "drop" => sock'[conn'[l]] = "closed"
                       /\ conn'[l] # NoConn => origin'[conn'[l]] \in Origins
        BY DEF LeaseReady
    <2>1. CASE l = k
        BY <1>1, <1>8, <1>9, <1>10, <1>11, <1>12, <2>1
    <2>2. CASE l # k
        <3>1. conn'[l] = conn[l] /\ pc'[l] = pc[l] /\ conn[l] \in Conns \cup {NoConn}
            BY <1>11, <1>12, <2>2 DEF LeaseInv, TypeOK
        <3>2. CASE conn[l] = NoConn
            BY <3>1, <3>2 DEF LeaseInv, TypeOK, Opening, InUse
        <3>3. CASE conn[l] \in Conns
            BY <1>7, <1>8, <3>1, <3>3 DEF LeaseInv, LeaseReady
        <3> QED
            BY <3>1, <3>2, <3>3
    <2> QED
        BY <2>1, <2>2
<1>18. NoOrphan'
    <2> SUFFICES ASSUME NEW x \in Conns, sock'[x] # "none"
                 PROVE  x \in Pooled(idle') \/ \E l \in Clients : conn'[l] = x
        BY DEF NoOrphan
    <2>1. x \notin S /\ sock[x] # "none"
        BY <1>2, <1>8 DEF Dispose, S
    <2>2. CASE \E l \in Clients : conn[l] = x
        <3>1. PICK l \in Clients : conn[l] = x
            BY <2>2
        <3>2. l # k
            BY <1>3, <3>1, PoolAssumption DEF LeaseInv, TypeOK, Opening, InUse
        <3> QED
            BY <1>11, <3>1, <3>2
    <2>3. CASE x \in Pooled(idle)
        <3>0. PICK o \in Origins : \E j \in DOMAIN idle[o] : x = idle[o][j]
            BY <2>3, InPooled
        <3>1. PICK j \in DOMAIN idle[o] : x = idle[o][j]
            BY <3>0
        <3>2. CASE o = w /\ j >= i
            <4>1. CASE j = i
                BY <1>11, <3>1, <3>2, <4>1 DEF c
            <4>2. CASE j # i
                <5>1. j \in i+1 .. Len(dq)
                    BY <1>1, <3>2, <4>2
                <5> QED
                    BY <2>1, <3>1, <3>2, <5>1 DEF S
            <4> QED
                BY <4>1, <4>2
        <3>3. CASE ~(o = w /\ j >= i)
            <4>1. j \in DOMAIN idle'[o] /\ idle'[o][j] = idle[o][j]
                BY <1>1, <1>2, <3>3 DEF Deques
            <4> QED
                BY <3>1, <4>1, InPooled
        <3> QED
            BY <3>2, <3>3
    <2> QED
        BY <2>1, <2>2, <2>3 DEF LeaseInv, NoOrphan
<1> QED
    BY <1>13, <1>14, <1>15, <1>16, <1>17, <1>18 DEF LeaseInv, ExclusiveLease, OneClient, Separate, Distinct

\* acquire makes an object in a free slot: neither idle nor in a client's hands.
LEMMA LeaseCreate ==
    ASSUME LeaseInv, TypeOK', NEW k \in Clients, AcquireCreate(k)
    PROVE  LeaseInv'
<1> DEFINE w == want[k]
           dq == idle[w]
           S == {dq[j] : j \in DOMAIN dq}
<1>1. w \in Origins /\ dq \in Seq(Conns) /\ idle \in Deques
    BY DEF AcquireCreate, LeaseInv, TypeOK, Deques
<1>2. PICK c \in Conns :
        /\ sock[c] = "none"
        /\ sock' = [x \in Conns |-> IF x = c THEN "opening" ELSE IF x \in S THEN "none" ELSE sock[x]]
        /\ origin' = [x \in Conns |-> IF x = c THEN w ELSE IF x \in S THEN NoOrigin ELSE origin[x]]
        /\ conn' = [conn EXCEPT ![k] = c]
    BY DEF AcquireCreate
<1>3. pc[k] = "posted" /\ pc' = [pc EXCEPT ![k] = "resolving"]
      /\ idle' = [idle EXCEPT ![w] = <<>>]
    BY DEF AcquireCreate
<1>4. \A o \in Origins : \A n \in DOMAIN idle'[o] :
        o # w /\ n \in DOMAIN idle[o] /\ idle'[o][n] = idle[o][n]
    BY <1>1, <1>3 DEF Deques
<1>5. \A o \in Origins : \A n \in DOMAIN idle[o] : idle[o][n] # c
    BY <1>1, <1>2 DEF LeaseInv, IdleReady
<1>6. \A l \in Clients : conn[l] # c
    BY <1>2, PoolAssumption DEF LeaseInv, LeaseReady, TypeOK, Opening, InUse
<1>7. \A l \in Clients : conn[l] \notin S
    BY <1>1 DEF LeaseInv, ExclusiveLease
<1>8. \A o \in Origins \ {w} : \A n \in DOMAIN idle[o] : idle[o][n] \notin S
    BY <1>1 DEF LeaseInv, ExclusiveLease
<1>9. \A x \in Conns : x # c /\ x \notin S => sock'[x] = sock[x] /\ origin'[x] = origin[x]
    BY <1>2
<1>10. sock'[c] = "opening" /\ origin'[c] = w
    BY <1>2
<1>11. \A l \in Clients : conn'[l] = IF l = k THEN c ELSE conn[l]
    BY <1>2 DEF LeaseInv, TypeOK
<1>12. \A l \in Clients : pc'[l] = IF l = k THEN "resolving" ELSE pc[l]
    BY <1>3 DEF LeaseInv, TypeOK
<1>13. \A x \in S : x # c => sock'[x] = "none"
    <2>1. S \subseteq Conns
        BY <1>1
    <2> QED
        BY <1>2, <2>1
<1> HIDE DEF S
<1>14. OneClient'
    BY <1>6, <1>11 DEF OneClient, LeaseInv, ExclusiveLease
<1>15. Separate(idle)'
    BY <1>4, <1>5, <1>11 DEF Separate, LeaseInv, ExclusiveLease
<1>16. Distinct(idle)'
    BY <1>4 DEF Distinct, LeaseInv, ExclusiveLease
<1>17. IdleReady'
    <2> SUFFICES ASSUME NEW o \in Origins, NEW n \in DOMAIN idle'[o]
                 PROVE  sock'[idle'[o][n]] = "open" /\ origin'[idle'[o][n]] = o
        BY DEF IdleReady
    <2>1. o # w /\ n \in DOMAIN idle[o] /\ idle'[o][n] = idle[o][n]
        BY <1>4
    <2>2. idle[o][n] \in Conns /\ idle[o][n] # c /\ idle[o][n] \notin S
        BY <1>1, <1>5, <1>8, <2>1 DEF Deques
    <2> QED
        BY <1>9, <2>1, <2>2 DEF LeaseInv, IdleReady
<1>18. LeaseReady'
    <2> SUFFICES ASSUME NEW l \in Clients
                 PROVE /\ pc'[l] \in {"resolving", "connecting"} => sock'[conn'[l]] = "opening"
                       /\ pc'[l] \in {"handshaking", "held", "reuse"} => sock'[conn'[l]] = "open"
                       /\ pc'[l] = "drop" => sock'[conn'[l]] = "closed"
                       /\ conn'[l] # NoConn => origin'[conn'[l]] \in Origins
        BY DEF LeaseReady
    <2>1. CASE l = k
        BY <1>1, <1>10, <1>11, <1>12, <2>1
    <2>2. CASE l # k
        <3>1. conn'[l] = conn[l] /\ pc'[l] = pc[l] /\ conn[l] \in Conns \cup {NoConn}
            BY <1>11, <1>12, <2>2 DEF LeaseInv, TypeOK
        <3>2. CASE conn[l] = NoConn
            BY <3>1, <3>2 DEF LeaseInv, TypeOK, Opening, InUse
        <3>3. CASE conn[l] \in Conns
            BY <1>6, <1>7, <1>9, <3>1, <3>3 DEF LeaseInv, LeaseReady
        <3> QED
            BY <3>1, <3>2, <3>3
    <2> QED
        BY <2>1, <2>2
<1>19. NoOrphan'
    <2> SUFFICES ASSUME NEW x \in Conns, sock'[x] # "none", x # c
                 PROVE  x \in Pooled(idle') \/ \E l \in Clients : conn'[l] = x
        BY <1>11 DEF NoOrphan
    <2>1. x \notin S /\ sock[x] # "none"
        BY <1>9, <1>13
    <2>2. CASE \E l \in Clients : conn[l] = x
        <3>1. PICK l \in Clients : conn[l] = x
            BY <2>2
        <3>2. l # k
            BY <1>3, <3>1, PoolAssumption DEF LeaseInv, TypeOK, Opening, InUse
        <3> QED
            BY <1>11, <3>1, <3>2
    <2>3. CASE x \in Pooled(idle)
        <3>1. PICK o \in Origins : \E j \in DOMAIN idle[o] : x = idle[o][j]
            BY <2>3, InPooled
        <3>2. o # w
            BY <2>1, <3>1 DEF S
        <3>3. idle'[o] = idle[o]
            BY <1>1, <1>3, <3>2 DEF Deques
        <3> QED
            BY <3>1, <3>3, InPooled
    <2> QED
        BY <2>1, <2>2, <2>3 DEF LeaseInv, NoOrphan
<1> QED
    BY <1>14, <1>15, <1>16, <1>17, <1>18, <1>19
       DEF LeaseInv, ExclusiveLease, OneClient, Separate, Distinct

\* A connection a client loses is nobody else's.
LEMMA LeaseDrop ==
    ASSUME LeaseInv, TypeOK', NEW k \in Clients, OpenFailed(k) \/ ReleaseDrop(k)
    PROVE  LeaseInv'
<1> DEFINE c == conn[k]
<1>1. /\ pc[k] \in Opening \cup InUse
      /\ Dispose({c})
      /\ pc' = [pc EXCEPT ![k] = "out"]
      /\ conn' = [conn EXCEPT ![k] = NoConn]
      /\ idle' = idle
    BY DEF OpenFailed, ReleaseDrop, InUse
<1>2. c \in Conns /\ idle \in Deques
    BY <1>1 DEF LeaseInv, TypeOK, Deques
<1>3. \A x \in Conns : x # c => sock'[x] = sock[x] /\ origin'[x] = origin[x]
    BY <1>1 DEF Dispose
<1>4. sock'[c] = "none"
    BY <1>1, <1>2 DEF Dispose
<1>5. \A l \in Clients : /\ conn'[l] = IF l = k THEN NoConn ELSE conn[l]
                         /\ pc'[l] = IF l = k THEN "out" ELSE pc[l]
    BY <1>1 DEF LeaseInv, TypeOK
<1>6. \A l \in Clients : l # k => conn[l] # c
    BY <1>2, PoolAssumption DEF LeaseInv, ExclusiveLease
<1>7. \A o \in Origins : \A i \in DOMAIN idle[o] : idle[o][i] # c /\ idle[o][i] \in Conns
    BY <1>2 DEF LeaseInv, ExclusiveLease, Deques
<1> HIDE DEF c
<1>8. ExclusiveLease'
    BY <1>1, <1>5, <1>7, PoolAssumption DEF LeaseInv, ExclusiveLease
<1>9. IdleReady'
    BY <1>1, <1>3, <1>7 DEF LeaseInv, IdleReady
<1>10. LeaseReady'
    BY <1>3, <1>5, <1>6 DEF LeaseInv, LeaseReady, TypeOK, Opening, InUse
<1>11. NoOrphan'
    BY <1>1, <1>3, <1>4, <1>5 DEF LeaseInv, NoOrphan, c
<1> QED
    BY <1>8, <1>9, <1>10, <1>11 DEF LeaseInv

\* The steps that leave the deques alone and free nothing.
LEMMA LeaseQuiet ==
    ASSUME LeaseInv, TypeOK', NEW k \in Clients,
           \/ \E o \in Origins : Acquire(k, o)
           \/ \E b \in BOOLEAN : Release(k, b)
           \/ Resolved(k) \/ Connected(k) \/ HandshakeDone(k)
    PROVE  LeaseInv'
<1> USE DEF Opening, InUse
<1> DEFINE c == conn[k]
<1>1. idle' = idle /\ conn' = conn /\ origin' = origin
    BY DEF Acquire, Release, Resolved, Connected, HandshakeDone
<1>2. \A l \in Clients : l # k => pc'[l] = pc[l]
    BY DEF Acquire, Release, Resolved, Connected, HandshakeDone, LeaseInv, TypeOK
<1>3. \A x \in Conns : x # c => sock'[x] = sock[x]
    BY DEF Acquire, Release, Resolved, Connected, HandshakeDone, LeaseInv, TypeOK
<1>4. \A l \in Clients : l # k /\ conn[l] # NoConn => conn[l] # c
    BY DEF LeaseInv, ExclusiveLease
<1>5. /\ pc'[k] \in {"resolving", "connecting"} => sock'[c] = "opening"
      /\ pc'[k] \in {"handshaking", "held", "reuse"} => sock'[c] = "open"
      /\ pc'[k] = "drop" => sock'[c] = "closed"
    BY DEF Acquire, Release, Resolved, Connected, HandshakeDone, LeaseInv, LeaseReady, TypeOK
<1>6. \A o \in Origins : \A i \in DOMAIN idle[o] : idle[o][i] # c /\ idle[o][i] \in Conns
    BY DEF LeaseInv, ExclusiveLease, TypeOK
<1>8. ExclusiveLease'
    BY <1>1 DEF LeaseInv, ExclusiveLease
<1>9. IdleReady'
    BY <1>1, <1>3, <1>6 DEF LeaseInv, IdleReady
<1>10. LeaseReady'
    <2> SUFFICES ASSUME NEW l \in Clients
                 PROVE /\ pc'[l] \in {"resolving", "connecting"} => sock'[conn'[l]] = "opening"
                       /\ pc'[l] \in {"handshaking", "held", "reuse"} => sock'[conn'[l]] = "open"
                       /\ pc'[l] = "drop" => sock'[conn'[l]] = "closed"
                       /\ conn'[l] # NoConn => origin'[conn'[l]] \in Origins
        BY DEF LeaseReady
    <2>1. CASE l = k
        BY <1>1, <1>5, <2>1 DEF LeaseInv, LeaseReady
    <2>2. CASE l # k
        BY <1>1, <1>2, <1>3, <1>4, <2>2 DEF LeaseInv, LeaseReady, TypeOK
    <2> QED
        BY <2>1, <2>2
<1>11. NoOrphan'
    BY <1>1, <1>3 DEF LeaseInv, NoOrphan
<1> QED
    BY <1>8, <1>9, <1>10, <1>11 DEF LeaseInv

(***************************************************************************)
(* release and the reaper.                                                 *)
(***************************************************************************)
\* push_back onto a deque, after pop_front if it was full: the entries are old
\* ones in their old order and the new one, last.
LEMMA Pushed ==
    ASSUME NEW d \in Deques, NEW v \in Origins, NEW c \in Conns, Distinct(d),
           \A o \in Origins : \A i \in DOMAIN d[o] : d[o][i] # c
    PROVE  LET q == [d EXCEPT ![v] = PushBack(@, c)]
           IN  /\ q \in Deques
               /\ Distinct(q)
               /\ \A o \in Origins : \A i \in DOMAIN q[o] :
                    \/ o = v /\ q[o][i] = c
                    \/ \E j \in DOMAIN d[o] : q[o][i] = d[o][j]
<1> DEFINE q == [d EXCEPT ![v] = PushBack(@, c)]
           b == IF Len(d[v]) >= MaxIdlePerOrigin THEN [d EXCEPT ![v] = Tail(@)] ELSE d
<1>1. d[v] \in Seq(Conns)
    BY DEF Deques
<1>2. b \in Deques /\ Within(b, d)
    <2>1. CASE Len(d[v]) >= MaxIdlePerOrigin
        <3>1. d[v] # <<>>
            BY <1>1, <2>1, PoolAssumption
        <3> QED
            BY <2>1, <3>1, TailWithin
    <2>2. CASE ~(Len(d[v]) >= MaxIdlePerOrigin)
        BY <2>2, WithinReflexive
    <2> QED
        BY <2>1, <2>2
<1>3. /\ \A o \in Origins \ {v} : q[o] = b[o]
      /\ q[v] = Append(b[v], c)
      /\ q \in [Origins -> Seq(Conns)]
    BY <1>1, PushBackType DEF PushBack, Deques
<1> HIDE DEF q, b
<1>4. b[v] \in Seq(Conns)
    BY <1>2 DEF Deques
<1>5. \A i \in DOMAIN q[v] : \/ i \in DOMAIN b[v] /\ q[v][i] = b[v][i]
                             \/ i = Len(b[v]) + 1 /\ q[v][i] = c
    BY <1>3, <1>4
<1>6. Distinct(b)
    BY <1>2, WithinDistinct
<1>7. \A o \in Origins : \A i \in DOMAIN b[o] : \E j \in DOMAIN d[o] : b[o][i] = d[o][j]
    BY <1>2, WithinPooled
<1>8. \A o \in Origins : \A i \in DOMAIN b[o] : b[o][i] # c
    BY <1>7
<1>9. \A o \in Origins : \A i \in DOMAIN q[o] :
        \/ o = v /\ q[o][i] = c /\ i = Len(b[v]) + 1
        \/ i \in DOMAIN b[o] /\ q[o][i] = b[o][i]
    BY <1>3, <1>5
<1>10. Distinct(q)
    BY <1>6, <1>8, <1>9 DEF Distinct
<1> QED
    BY <1>3, <1>7, <1>9, <1>10 DEF Deques, q

\* Deques that lost entries, with the lost connections disposed of: what is
\* left is as good as it was.
LEMMA LeaseReap ==
    ASSUME LeaseInv, TypeOK', Reap
    PROVE  LeaseInv'
<1> DEFINE S == Pooled(idle) \ Pooled(idle')
<1>1. PICK p \in Pruned : idle' \in Shrunk(p)
    BY DEF Reap
<1>2. /\ idle \in Deques /\ idle' \in Deques
      /\ Within(idle', idle)
    <2>1. idle \in Deques
        BY DEF LeaseInv, TypeOK, Deques
    <2> QED
        BY <1>1, <2>1, PrunedWithin, ShrunkWithin, WithinTransitive
<1>3. Dispose(S) /\ pc' = pc /\ conn' = conn
    BY DEF Reap
<1>4. \A o \in Origins : \A n \in DOMAIN idle'[o] : \E j \in DOMAIN idle[o] : idle'[o][n] = idle[o][j]
    BY <1>2, WithinPooled
<1>5. \A x \in Conns : x \notin S => sock'[x] = sock[x] /\ origin'[x] = origin[x]
    BY <1>3 DEF Dispose
<1>6. \A x \in Conns : x \in S => sock'[x] = "none"
    BY <1>3 DEF Dispose
<1>7. \A l \in Clients : conn[l] \notin S
    BY DEF LeaseInv, ExclusiveLease, Pooled
<1>8. \A o \in Origins : \A n \in DOMAIN idle'[o] : idle'[o][n] \notin S /\ idle'[o][n] \in Conns
    BY <1>2, InPooled DEF Deques
<1>9. Distinct(idle)
    BY DEF LeaseInv, ExclusiveLease, Distinct
<1>10. Distinct(idle')
    BY <1>2, <1>9, WithinDistinct
<1>11. ExclusiveLease'
    BY <1>3, <1>4, <1>10 DEF LeaseInv, ExclusiveLease, Distinct
<1> HIDE DEF S
<1>12. IdleReady'
    BY <1>4, <1>5, <1>8 DEF LeaseInv, IdleReady
<1>13. LeaseReady'
    BY <1>3, <1>5, <1>7 DEF LeaseInv, LeaseReady, TypeOK, Opening, InUse
<1>14. NoOrphan'
    <2> SUFFICES ASSUME NEW x \in Conns, sock'[x] # "none"
                 PROVE  x \in Pooled(idle') \/ \E l \in Clients : conn'[l] = x
        BY DEF NoOrphan
    <2>1. x \notin S /\ sock[x] # "none"
        BY <1>5, <1>6
    <2> QED
        BY <1>3, <2>1 DEF LeaseInv, NoOrphan, S
<1> QED
    BY <1>11, <1>12, <1>13, <1>14 DEF LeaseInv

LEMMA LeaseKeep ==
    ASSUME LeaseInv, TypeOK', NEW k \in Clients, ReleaseKeep(k)
    PROVE  LeaseInv'
<1> DEFINE c == conn[k]
           v == origin[c]
           pushed == [idle EXCEPT ![v] = PushBack(@, c)]
           S == (Pooled(idle) \cup {c}) \ Pooled(idle')
<1>1. /\ pc[k] = "reuse"
      /\ sock[c] = "open"
      /\ idle' \in Shrunk(pushed)
      /\ Dispose(S)
      /\ pc' = [pc EXCEPT ![k] = "out"]
      /\ conn' = [conn EXCEPT ![k] = NoConn]
    BY DEF ReleaseKeep, Key, alive
<1>2. c \in Conns /\ v \in Origins /\ idle \in Deques
    BY <1>1, PoolAssumption DEF LeaseInv, LeaseReady, TypeOK, Opening, InUse, Deques
<1>3. \A l \in Clients : l # k => conn[l] # c
    BY <1>2, PoolAssumption DEF LeaseInv, ExclusiveLease
<1>4. Distinct(idle) /\ \A o \in Origins : \A i \in DOMAIN idle[o] : idle[o][i] # c
    BY DEF LeaseInv, ExclusiveLease, Distinct
<1> HIDE DEF c, v
<1>5. /\ pushed \in Deques /\ Distinct(pushed)
      /\ \A o \in Origins : \A i \in DOMAIN pushed[o] :
            \/ o = v /\ pushed[o][i] = c
            \/ \E j \in DOMAIN idle[o] : pushed[o][i] = idle[o][j]
    BY <1>2, <1>4, Pushed
<1> HIDE DEF pushed
<1>6. idle' \in Deques /\ Within(idle', pushed)
    BY <1>1, <1>5, ShrunkWithin
<1>7. Distinct(idle')
    BY <1>5, <1>6, WithinDistinct
<1>8. \A o \in Origins : \A i \in DOMAIN idle'[o] :
        \/ o = v /\ idle'[o][i] = c
        \/ \E j \in DOMAIN idle[o] : idle'[o][i] = idle[o][j]
    <2>1. \A o \in Origins : \A i \in DOMAIN idle'[o] : \E j \in DOMAIN pushed[o] : idle'[o][i] = pushed[o][j]
        BY <1>6, WithinPooled
    <2> QED
        BY <1>5, <2>1
<1>9. \A l \in Clients : /\ conn'[l] = IF l = k THEN NoConn ELSE conn[l]
                         /\ pc'[l] = IF l = k THEN "out" ELSE pc[l]
    BY <1>1 DEF LeaseInv, TypeOK
<1>10. \A x \in Conns : x \notin S => sock'[x] = sock[x] /\ origin'[x] = origin[x]
    BY <1>1 DEF Dispose
<1>11. \A x \in Conns : x \in S => sock'[x] = "none"
    BY <1>1 DEF Dispose
<1>12. \A o \in Origins : \A n \in DOMAIN idle'[o] : idle'[o][n] \notin S /\ idle'[o][n] \in Conns
    BY <1>6, InPooled DEF Deques
<1>13. \A l \in Clients : l # k => conn[l] \notin S
    BY <1>3 DEF LeaseInv, ExclusiveLease, Pooled
<1>14. ExclusiveLease'
    <2>1. OneClient'
        BY <1>9 DEF OneClient, LeaseInv, ExclusiveLease
    <2>2. Separate(idle)'
        BY <1>3, <1>8, <1>9, <1>12, PoolAssumption DEF Separate, LeaseInv, ExclusiveLease
    <2> QED
        BY <1>7, <2>1, <2>2 DEF ExclusiveLease, OneClient, Separate, Distinct
<1>15. origin[c] = v /\ sock[c] = "open"
    BY <1>1 DEF v
<1>16. NoOrphan'
    <2> SUFFICES ASSUME NEW x \in Conns, sock'[x] # "none"
                 PROVE  x \in Pooled(idle') \/ \E l \in Clients : conn'[l] = x
        BY DEF NoOrphan
    <2>1. x \notin S /\ sock[x] # "none"
        BY <1>10, <1>11
    <2>2. CASE \E l \in Clients : conn[l] = x
        BY <1>9, <2>1, <2>2 DEF c
    <2>3. CASE x \in Pooled(idle)
        BY <2>1, <2>3
    <2> QED
        BY <2>1, <2>2, <2>3 DEF LeaseInv, NoOrphan
<1> HIDE DEF S
<1>17. IdleReady'
    BY <1>8, <1>10, <1>12, <1>15 DEF LeaseInv, IdleReady
<1>18. LeaseReady'
    BY <1>9, <1>10, <1>13 DEF LeaseInv, LeaseReady, TypeOK, Opening, InUse
<1> QED
    BY <1>14, <1>16, <1>17, <1>18 DEF LeaseInv

LEMMA LeaseStep == LeaseInv /\ [Next]_vars => LeaseInv'
<1> SUFFICES ASSUME LeaseInv, [Next]_vars PROVE LeaseInv'
    OBVIOUS
<1>1. TypeOK'
    BY TypeStep DEF LeaseInv
<1>2. ASSUME NEW k \in Clients, OnStrand(k)
      PROVE  LeaseInv'
    BY <1>1, <1>2, LeaseReuse, LeaseCreate, LeaseQuiet, LeaseDrop, LeaseKeep DEF OnStrand
<1>3. CASE Tick
    BY <1>1, <1>3 DEF Tick, LeaseInv, ExclusiveLease, IdleReady, LeaseReady, NoOrphan, Pooled
<1>4. CASE UNCHANGED vars
    BY <1>1, <1>4 DEF vars, LeaseInv, ExclusiveLease, IdleReady, LeaseReady, NoOrphan, Pooled
<1> QED
    BY <1>1, <1>2, <1>3, <1>4, LeaseQuiet, LeaseReap DEF Next

LEMMA LeaseInductive == Spec => []LeaseInv
<1>1. Init => LeaseInv
    <2> SUFFICES ASSUME Init PROVE LeaseInv
        OBVIOUS
    <2>1. reaper_armed \in BOOLEAN
        BY Zenon DEF Init
    <2> QED
        BY <2>1, PoolAssumption
           DEF Init, LeaseInv, TypeOK, PcStates, Opening, InUse, SockStates,
               ExclusiveLease, IdleReady, LeaseReady, NoOrphan
<1> QED
    BY <1>1, LeaseStep, PTL DEF Spec

\* For every interleaving of acquires, releases and reaps: two requests never
\* share a connection, and an idle one is in nobody's hands.
THEOREM LeasesExclusive == Spec => []ExclusiveLease
BY LeaseInductive, PTL DEF LeaseInv

\* The alive() tests of acquire and release never meet a closed socket.
THEOREM ConnectionsReady == Spec => [](IdleReady /\ LeaseReady)
BY LeaseInductive, PTL DEF LeaseInv

\* No Connection object outlives the deque entry or the client that refers to it.
THEOREM NoSocketLeak == Spec => []NoOrphan
BY LeaseInductive, PTL DEF LeaseInv

-----------------------------------------------------------------------------
(***************************************************************************)
(* Counting.  The number of idle connections is the cardinality of the set *)
(* of positions in the deques.                                             *)
(***************************************************************************)
LEMMA InEntries ==
    ASSUME NEW d, NEW e
    PROVE  e \in Entries(d) <=> \E o \in Origins : \E i \in DOMAIN d[o] : e = <<o, i>>
BY DEF Entries

LEMMA EntriesFinite ==
    ASSUME NEW d \in Deques
    PROVE  IsFiniteSet(Entries(d)) /\ TotalIdle(d) \in Nat
<1>1. \A o \in Origins : IsFiniteSet({o} \X DOMAIN d[o])
    <2> SUFFICES ASSUME NEW o \in Origins PROVE IsFiniteSet({o} \X DOMAIN d[o])
        OBVIOUS
    <2>1. d[o] \in Seq(Conns)
        BY DEF Deques
    <2>2. DOMAIN d[o] = 1 .. Len(d[o]) /\ Len(d[o]) \in Nat
        BY <2>1
    <2>3. IsFiniteSet(DOMAIN d[o])
        BY <2>2, FS_Interval
    <2> QED
        BY <2>3, FS_Singleton, FS_Product
<1> DEFINE f == [o \in Origins |-> {o} \X DOMAIN d[o]]
           T == {{o} \X DOMAIN d[o] : o \in Origins}
<1>2. f \in Surjection(Origins, T)
    BY Fun_IsSurj
<1>3. IsFiniteSet(T)
    BY <1>2, FS_Surjection, PoolAssumption
<1>4. \A x \in T : IsFiniteSet(x)
    BY <1>1
<1>5. IsFiniteSet(UNION T)
    BY <1>3, <1>4, FS_UNION
<1> QED
    BY <1>5, FS_CardinalityType DEF Entries, TotalIdle

\* The pool is empty exactly when it counts no entry.
LEMMA EmptyPool ==
    ASSUME NEW d \in Deques
    PROVE  TotalIdle(d) > 0 <=> Pooled(d) # {}
<1>1. Entries(d) = {} <=> Pooled(d) = {}
    <2>1. ASSUME NEW e \in Entries(d) PROVE Pooled(d) # {}
        <3>1. PICK o \in Origins : \E i \in DOMAIN d[o] : e = <<o, i>>
            BY InEntries
        <3>2. PICK i \in DOMAIN d[o] : e = <<o, i>>
            BY <3>1
        <3>3. d[o][i] \in Pooled(d)
            BY InPooled
        <3> QED
            BY <3>3
    <2>2. ASSUME NEW c \in Pooled(d) PROVE Entries(d) # {}
        <3>1. PICK o \in Origins : \E i \in DOMAIN d[o] : c = d[o][i]
            BY InPooled
        <3>2. PICK i \in DOMAIN d[o] : c = d[o][i]
            BY <3>1
        <3>3. <<o, i>> \in Entries(d)
            BY InEntries
        <3> QED
            BY <3>3
    <2> QED
        BY <2>1, <2>2
<1>2. TotalIdle(d) = 0 <=> Entries(d) = {}
    BY EntriesFinite, FS_EmptySet DEF TotalIdle
<1> QED
    BY <1>1, <1>2, EntriesFinite

\* Removing entries makes no deque longer, and the pool no larger.
LEMMA WithinLen ==
    ASSUME NEW d \in Deques, NEW q \in Deques, Within(q, d)
    PROVE  /\ \A o \in Origins : Len(q[o]) <= Len(d[o])
           /\ TotalIdle(q) <= TotalIdle(d)
<1>1. ASSUME NEW o \in Origins PROVE Len(q[o]) <= Len(d[o])
    <2>1. /\ q[o] \in Seq(Conns) /\ d[o] \in Seq(Conns)
          /\ DOMAIN q[o] = 1 .. Len(q[o]) /\ DOMAIN d[o] = 1 .. Len(d[o])
          /\ Len(q[o]) \in Nat /\ Len(d[o]) \in Nat
        BY DEF Deques
    <2>2. PICK g \in [DOMAIN q[o] -> DOMAIN d[o]] : Increasing(g)
        BY DEF Within
    <2>3. \A m, n \in DOMAIN q[o] : g[m] = g[n] => m = n
        <3> SUFFICES ASSUME NEW m \in DOMAIN q[o], NEW n \in DOMAIN q[o], g[m] = g[n]
                     PROVE  m = n
            OBVIOUS
        <3>1. m \in Int /\ n \in Int /\ g[m] \in Int /\ g[n] \in Int
            BY <2>1, <2>2
        <3>2. ~(m < n) /\ ~(n < m)
            BY <2>2, <3>1 DEF Increasing
        <3> QED
            BY <3>1, <3>2
    <2>4. g \in Injection(DOMAIN q[o], DOMAIN d[o])
        BY <2>2, <2>3, Fun_IsInj
    <2>5. /\ IsFiniteSet(DOMAIN d[o]) /\ Cardinality(DOMAIN d[o]) = Len(d[o])
          /\ Cardinality(DOMAIN q[o]) = Len(q[o])
        <3>1. \A n \in Nat : IsFiniteSet(1 .. n) /\ Cardinality(1 .. n) = n
            <4> SUFFICES ASSUME NEW n \in Nat
                         PROVE  IsFiniteSet(1 .. n) /\ Cardinality(1 .. n) = n
                OBVIOUS
            <4> QED
                BY FS_Interval
        <3> QED
            BY <2>1, <3>1
    <2> QED
        BY <2>4, <2>5, FS_Injection
<1>2. Entries(q) \subseteq Entries(d)
    <2> SUFFICES ASSUME NEW e \in Entries(q) PROVE e \in Entries(d)
        OBVIOUS
    <2>1. PICK o \in Origins : \E i \in DOMAIN q[o] : e = <<o, i>>
        BY InEntries
    <2>2. DOMAIN q[o] \subseteq DOMAIN d[o]
        BY <1>1 DEF Deques
    <2> QED
        BY <2>1, <2>2, InEntries
<1> QED
    BY <1>1, <1>2, EntriesFinite, FS_Subset DEF TotalIdle

\* pop_front of one deque removes one entry.
LEMMA TailTotal ==
    ASSUME NEW d \in Deques, NEW v \in Origins, d[v] # <<>>
    PROVE  TotalIdle([d EXCEPT ![v] = Tail(@)]) = TotalIdle(d) - 1
<1> DEFINE q == [d EXCEPT ![v] = Tail(@)]
           last == <<v, Len(d[v])>>
<1>1. /\ d[v] \in Seq(Conns) /\ Len(d[v]) \in Nat \ {0}
      /\ DOMAIN d[v] = 1 .. Len(d[v]) /\ DOMAIN Tail(d[v]) = 1 .. Len(d[v]) - 1
    BY DEF Deques
<1>2. \A o \in Origins : q[o] = IF o = v THEN Tail(d[v]) ELSE d[o]
    BY DEF Deques
<1> HIDE DEF q
<1>3. /\ \A i : i \in DOMAIN q[v] <=> i \in DOMAIN d[v] /\ i # Len(d[v])
      /\ \A o \in Origins : o # v => q[o] = d[o]
    <2>1. q[v] = Tail(d[v]) /\ \A o \in Origins : o # v => q[o] = d[o]
        BY <1>2
    <2>2. \A i : i \in 1 .. Len(d[v]) - 1 <=> i \in 1 .. Len(d[v]) /\ i # Len(d[v])
        BY <1>1
    <2> QED
        BY <1>1, <2>1, <2>2
<1>4. Entries(q) = Entries(d) \ {last}
    <2>1. \A e : e \in Entries(q) <=> e \in Entries(d) /\ e # last
        BY <1>3, InEntries
    <2> QED
        BY <2>1
<1>5. last \in Entries(d)
    BY <1>1, InEntries
<1> QED
    BY <1>4, <1>5, EntriesFinite, FS_RemoveElement DEF TotalIdle, q

\* push_back after pop_front of a full deque: the deque keeps to its cap, and
\* the pool grows by at most one.
LEMMA PushTotal ==
    ASSUME NEW d \in Deques, NEW v \in Origins, NEW c \in Conns,
           Len(d[v]) <= MaxIdlePerOrigin
    PROVE  LET q == [d EXCEPT ![v] = PushBack(@, c)]
           IN  /\ Len(q[v]) <= MaxIdlePerOrigin
               /\ TotalIdle(q) <= TotalIdle(d) + 1
<1> DEFINE q == [d EXCEPT ![v] = PushBack(@, c)]
           new == <<v, Len(d[v]) + 1>>
<1>1. d[v] \in Seq(Conns) /\ Len(d[v]) \in Nat /\ DOMAIN d[v] = 1 .. Len(d[v])
    BY DEF Deques
<1>2. /\ q \in Deques
      /\ q[v] = PushBack(d[v], c)
      /\ \A o \in Origins : o # v => q[o] = d[o]
    BY <1>1, PushBackType DEF Deques
<1>3. Len(q[v]) <= Len(d[v]) + 1 /\ Len(q[v]) <= MaxIdlePerOrigin
    <2>1. CASE Len(d[v]) >= MaxIdlePerOrigin
        <3>1. d[v] # <<>>
            BY <1>1, <2>1, PoolAssumption
        <3>2. Tail(d[v]) \in Seq(Conns) /\ Len(Tail(d[v])) = Len(d[v]) - 1
            BY <1>1, <3>1
        <3> QED
            BY <1>1, <1>2, <2>1, <3>2, PoolAssumption DEF PushBack
    <2>2. CASE ~(Len(d[v]) >= MaxIdlePerOrigin)
        BY <1>1, <1>2, <2>2, PoolAssumption DEF PushBack
    <2> QED
        BY <2>1, <2>2
<1>4. q[v] \in Seq(Conns) /\ DOMAIN q[v] = 1 .. Len(q[v]) /\ Len(q[v]) \in Nat
    BY <1>2 DEF Deques
<1> HIDE DEF q
<1>5. \A o \in Origins : \A i \in DOMAIN q[o] : i \in DOMAIN d[o] \/ <<o, i>> = new
    BY <1>1, <1>2, <1>3, <1>4
<1>6. Entries(q) \subseteq Entries(d) \cup {new}
    BY <1>5, InEntries
<1>7. IsFiniteSet(Entries(d)) /\ TotalIdle(d) \in Nat /\ TotalIdle(q) \in Nat
    BY <1>2, EntriesFinite
<1>8. /\ IsFiniteSet(Entries(d) \cup {new})
      /\ Cardinality(Entries(d) \cup {new}) <= TotalIdle(d) + 1
      /\ Cardinality(Entries(d) \cup {new}) \in Nat
    <2>1. IsFiniteSet(Entries(d) \cup {new})
        BY <1>7, FS_AddElement
    <2>2. Cardinality(Entries(d) \cup {new})
            = IF new \in Entries(d) THEN TotalIdle(d) ELSE TotalIdle(d) + 1
        BY <1>7, FS_AddElement DEF TotalIdle
    <2> QED
        BY <1>7, <2>1, <2>2
<1>9. TotalIdle(q) <= Cardinality(Entries(d) \cup {new})
    BY <1>6, <1>8, FS_Subset DEF TotalIdle
<1> QED
    BY <1>3, <1>7, <1>8, <1>9 DEF q

\* One round of shrink_global_if_needed is enough for deques that are one entry
\* over the limit.
LEMMA ShrunkTotal ==
    ASSUME NEW d \in Deques, TotalIdle(d) <= MaxTotalIdle + 1, NEW q \in Shrunk(d)
    PROVE  TotalIdle(q) <= MaxTotalIdle
<1>1. CASE TotalIdle(d) <= MaxTotalIdle
    BY <1>1 DEF Shrunk
<1>2. CASE ~(TotalIdle(d) <= MaxTotalIdle)
    <2>1. PICK v \in Largest(d) : q = [d EXCEPT ![v] = Tail(@)]
        BY <1>2 DEF Shrunk
    <2>2. TotalIdle(q) = TotalIdle(d) - 1
        BY <2>1, TailTotal DEF Largest
    <2> QED
        BY <2>2, EntriesFinite, PoolAssumption
<1> QED
    BY <1>1, <1>2

-----------------------------------------------------------------------------
(***************************************************************************)
(* The shape of the pool: caps, reap wait and order of the deques.  Those  *)
(* of the lease invariant are needed as well: release keeps what it pushes *)
(* in order because the connection is new to every deque.                  *)
(***************************************************************************)
ShapeInv == LeaseInv /\ IdleCaps /\ ReaperChain /\ OldestInFront

Ordered(d, a) ==
    \A o \in Origins : \A i, j \in DOMAIN d[o] : i < j => a[d[o][i]] >= a[d[o][j]]

Capped(d) ==
    /\ \A o \in Origins : Len(d[o]) <= MaxIdlePerOrigin
    /\ TotalIdle(d) <= MaxTotalIdle

\* Removing entries keeps the order.
LEMMA WithinOrdered ==
    ASSUME NEW d \in Deques, NEW q \in Deques, Within(q, d), NEW a, Ordered(d, a)
    PROVE  Ordered(q, a)
<1> SUFFICES ASSUME NEW o \in Origins, NEW i \in DOMAIN q[o], NEW j \in DOMAIN q[o], i < j
             PROVE  a[q[o][i]] >= a[q[o][j]]
    BY DEF Ordered
<1>1. PICK g \in [DOMAIN q[o] -> DOMAIN d[o]] :
        Increasing(g) /\ \A n \in DOMAIN q[o] : q[o][n] = d[o][g[n]]
    BY DEF Within
<1>2. g[i] < g[j]
    BY <1>1 DEF Increasing
<1> QED
    BY <1>1, <1>2 DEF Ordered

\* The order depends on the ages of the idle connections only.
LEMMA SameAges ==
    ASSUME NEW d, NEW a, NEW b, Ordered(d, a), \A c \in Pooled(d) : a[c] = b[c]
    PROVE  Ordered(d, b)
<1>1. \A o \in Origins : \A i \in DOMAIN d[o] : a[d[o][i]] = b[d[o][i]]
    BY InPooled
<1> QED
    BY <1>1 DEF Ordered

LEMMA PooledConns ==
    ASSUME NEW d \in Deques
    PROVE  Pooled(d) \subseteq Conns
BY InPooled DEF Deques

LEMMA WithinSubset ==
    ASSUME NEW d, NEW q, Within(q, d)
    PROVE  Pooled(q) \subseteq Pooled(d)
BY InPooled, WithinPooled

LEMMA WithinCapped ==
    ASSUME NEW d \in Deques, NEW q \in Deques, Within(q, d), Capped(d)
    PROVE  Capped(q)
<1>1. /\ TotalIdle(d) \in Nat /\ TotalIdle(q) \in Nat
      /\ \A o \in Origins : Len(d[o]) \in Nat /\ Len(q[o]) \in Nat
    BY EntriesFinite DEF Deques
<1> QED
    BY <1>1, WithinLen, PoolAssumption DEF Capped

\* Steps that only remove entries and reset the ages of what they removed.
LEMMA ShapeRemoved ==
    ASSUME ShapeInv, idle' \in Deques, Within(idle', idle), age' = IdleAges(idle')
    PROVE  /\ IdleCaps' /\ OldestInFront'
           /\ Pooled(idle') \subseteq Pooled(idle)
<1>1. idle \in Deques /\ Capped(idle) /\ Ordered(idle, age)
    BY DEF ShapeInv, LeaseInv, TypeOK, Deques, IdleCaps, Capped, OldestInFront, Ordered
<1>2. Capped(idle') /\ Ordered(idle', age)
    BY <1>1, WithinCapped, WithinOrdered
<1>3. \A c \in Pooled(idle') : age[c] = age'[c]
    BY PooledConns DEF IdleAges
<1>4. Ordered(idle', age')
    BY <1>2, <1>3, SameAges
<1> QED
    BY <1>2, <1>4, WithinSubset DEF IdleCaps, Capped, OldestInFront, Ordered

\* What the scan of acquire leaves.
LEMMA ScanWithin ==
    ASSUME TypeOK, NEW k \in Clients, AcquireReuse(k) \/ AcquireCreate(k)
    PROVE  /\ idle' \in Deques /\ Within(idle', idle) /\ age' = IdleAges(idle')
           /\ UNCHANGED <<reaper_armed, waits>>
<1> DEFINE w == want[k]
<1>1. w \in Origins /\ idle \in Deques
    BY DEF TypeOK, AcquireReuse, AcquireCreate, Deques
<1>2. PICK e \in Nat : e <= Len(idle[w]) /\ idle' = [idle EXCEPT ![w] = SubSeq(idle[w], 1, e)]
    <2>1. idle[w] \in Seq(Conns)
        BY <1>1 DEF Deques
    <2>2. CASE AcquireReuse(k)
        <3>1. PICK i \in DOMAIN idle[w] : idle' = [idle EXCEPT ![w] = SubSeq(idle[w], 1, i-1)]
            BY <2>2 DEF AcquireReuse, TakenFrom
        <3>2. i - 1 \in Nat /\ i - 1 <= Len(idle[w])
            BY <2>1
        <3> QED
            BY <3>1, <3>2
    <2>3. CASE AcquireCreate(k)
        <3>1. idle' = [idle EXCEPT ![w] = <<>>]
            BY <2>3 DEF AcquireCreate
        <3>2. SubSeq(idle[w], 1, 0) = <<>>
            BY <2>1
        <3>3. idle' = [idle EXCEPT ![w] = SubSeq(idle[w], 1, 0)]
            BY <3>1, <3>2
        <3>4. 0 \in Nat /\ 0 <= Len(idle[w])
            BY <2>1
        <3> HIDE DEF w
        <3> QED
            BY <3>3, <3>4
    <2> QED
        BY <2>2, <2>3
<1> DEFINE s == SubSeq(idle[w], 1, e)
<1>3. s \in Seq(Conns) /\ \A n \in DOMAIN s : n + 0 \in DOMAIN idle[w] /\ s[n] = idle[w][n + 0]
    BY <1>1, <1>2 DEF Deques
<1>4. idle' \in Deques /\ Within(idle', idle)
    <2> HIDE DEF s, w
    <2>1. idle' = [idle EXCEPT ![w] = s]
        BY <1>2 DEF s
    <2> QED
        BY <1>1, <1>3, <2>1, CutWithin
<1>5. age' = IdleAges(idle') /\ UNCHANGED <<reaper_armed, waits>>
    BY DEF AcquireReuse, AcquireCreate
<1> QED
    BY <1>4, <1>5

\* release: the returned connection goes to the back with age zero, and no deque
\* nor the pool exceeds its cap.
LEMMA ShapeKeep ==
    ASSUME ShapeInv, NEW k \in Clients, ReleaseKeep(k)
    PROVE  IdleCaps' /\ OldestInFront' /\ ReaperChain' /\ idle' \in Deques
<1> DEFINE c == conn[k]
           v == origin[c]
           pushed == [idle EXCEPT ![v] = PushBack(@, c)]
           a == [age EXCEPT ![c] = 0]
<1>1. /\ pc[k] = "reuse"
      /\ idle' \in Shrunk(pushed)
      /\ age' = [IdleAges(idle') EXCEPT ![c] = 0]
      /\ ArmReapIfNeeded(idle')
    BY DEF ReleaseKeep, Key
<1>2. c \in Conns /\ v \in Origins /\ idle \in Deques /\ age \in [Conns -> Int]
    BY <1>1, PoolAssumption DEF ShapeInv, LeaseInv, LeaseReady, TypeOK, Opening, InUse, Deques
<1>3. Distinct(idle) /\ \A o \in Origins : \A i \in DOMAIN idle[o] : idle[o][i] # c
    BY DEF ShapeInv, LeaseInv, ExclusiveLease, Distinct
<1>4. Capped(idle) /\ Ordered(idle, age)
    BY DEF ShapeInv, IdleCaps, Capped, OldestInFront, Ordered
<1> HIDE DEF c, v
<1>5. pushed \in Deques
    BY <1>2, <1>3, Pushed
<1>6. idle' \in Deques /\ Within(idle', pushed)
    BY <1>1, <1>5, ShrunkWithin
<1>7. Capped(idle')
    <2>1. Len(pushed[v]) <= MaxIdlePerOrigin /\ TotalIdle(pushed) <= TotalIdle(idle) + 1
        BY <1>2, <1>4, PushTotal DEF Capped
    <2>2. TotalIdle(idle) \in Nat /\ TotalIdle(pushed) \in Nat
        BY <1>2, <1>5, EntriesFinite
    <2>3. TotalIdle(pushed) <= MaxTotalIdle + 1
        BY <1>4, <2>1, <2>2, PoolAssumption DEF Capped
    <2>4. TotalIdle(idle') <= MaxTotalIdle
        BY <1>1, <1>5, <2>3, ShrunkTotal
    <2>5. \A o \in Origins : Len(pushed[o]) <= MaxIdlePerOrigin
        <3>1. \A o \in Origins : o # v => pushed[o] = idle[o]
            BY <1>2 DEF Deques
        <3> HIDE DEF pushed
        <3> QED
            BY <1>4, <2>1, <3>1 DEF Capped
    <2> HIDE DEF pushed
    <2>6. \A o \in Origins : /\ Len(idle'[o]) <= Len(pushed[o])
                             /\ Len(idle'[o]) \in Nat /\ Len(pushed[o]) \in Nat
        <3>1. \A o \in Origins : Len(idle'[o]) \in Nat /\ Len(pushed[o]) \in Nat
            BY <1>5, <1>6 DEF Deques
        <3> QED
            BY <1>5, <1>6, <3>1, WithinLen
    <2>7. \A o \in Origins : Len(idle'[o]) <= MaxIdlePerOrigin
        BY <2>5, <2>6, PoolAssumption
    <2> QED
        BY <2>4, <2>7 DEF Capped
<1>8. Ordered(pushed, a)
    <2> DEFINE b == IF Len(idle[v]) >= MaxIdlePerOrigin THEN [idle EXCEPT ![v] = Tail(@)] ELSE idle
    <2>1. idle[v] \in Seq(Conns)
        BY <1>2 DEF Deques
    <2>2. b \in Deques /\ Within(b, idle)
        <3>1. CASE Len(idle[v]) >= MaxIdlePerOrigin
            <4>1. idle[v] # <<>>
                BY <2>1, <3>1, PoolAssumption
            <4> QED
                BY <1>2, <3>1, <4>1, TailWithin
        <3>2. CASE ~(Len(idle[v]) >= MaxIdlePerOrigin)
            BY <1>2, <3>2, WithinReflexive
        <3> QED
            BY <3>1, <3>2
    <2>3. /\ pushed[v] = Append(b[v], c)
          /\ \A o \in Origins : o # v => pushed[o] = b[o]
        BY <1>2, <2>1 DEF PushBack, Deques
    <2> HIDE DEF b, pushed
    <2>4. Ordered(b, age)
        BY <1>2, <1>4, <2>2, WithinOrdered
    <2>5. \A x \in Pooled(b) : x # c /\ x \in Conns
        BY <1>3, <2>2, WithinPooled, InPooled, PooledConns
    <2>6. Ordered(b, a)
        BY <1>2, <2>4, <2>5, SameAges
    <2>7. \A x \in Conns : x # c => a[x] >= 0 /\ a[x] \in Int
        BY <1>2 DEF ShapeInv, LeaseInv, TypeOK
    <2>8. a[c] = 0
        BY <1>2
    <2>9. b[v] \in Seq(Conns)
        BY <1>2, <2>2 DEF Deques
    <2> SUFFICES ASSUME NEW o \in Origins, NEW i \in DOMAIN pushed[o], NEW j \in DOMAIN pushed[o], i < j
                 PROVE  a[pushed[o][i]] >= a[pushed[o][j]]
        BY DEF Ordered
    <2> HIDE DEF a
    <2>10. CASE o # v
        BY <2>3, <2>6, <2>10 DEF Ordered
    <2>11. CASE o = v
        <3>1. i \in DOMAIN b[v] /\ pushed[v][i] = b[v][i]
            BY <2>3, <2>9, <2>11
        <3>2. CASE j \in DOMAIN b[v]
            BY <2>3, <2>6, <2>9, <2>11, <3>1, <3>2 DEF Ordered
        <3>3. CASE j \notin DOMAIN b[v]
            <4>1. pushed[v][j] = c
                BY <2>3, <2>9, <2>11, <3>3
            <4>2. b[v][i] \in Pooled(b)
                BY <1>2, <3>1, InPooled
            <4> QED
                BY <2>5, <2>7, <2>8, <2>11, <3>1, <4>1, <4>2
        <3> QED
            BY <3>2, <3>3
    <2> QED
        BY <2>10, <2>11
<1>9. Ordered(idle', age')
    <2>1. Ordered(idle', a)
        BY <1>5, <1>6, <1>8, WithinOrdered
    <2>2. \A x \in Pooled(idle') : x \in Conns
        BY <1>6, PooledConns
    <2>3. \A x \in Pooled(idle') : a[x] = age'[x]
        BY <1>1, <1>2, <2>2 DEF IdleAges
    <2> QED
        BY <2>1, <2>3, SameAges
<1>10. ReaperChain'
    <2>1. TotalIdle(idle') > 0 <=> Pooled(idle') # {}
        BY <1>6, EmptyPool
    <2>2. CASE ReapEnabled /\ ~reaper_armed /\ TotalIdle(idle') > 0
        <3>1. reaper_armed' = TRUE /\ waits' = waits + 1
            BY <1>1, <2>2 DEF ArmReapIfNeeded
        <3>2. waits = 0
            BY <2>2 DEF ShapeInv, ReaperChain
        <3> QED
            BY <3>1, <3>2 DEF ReaperChain
    <2>3. CASE ~(ReapEnabled /\ ~reaper_armed /\ TotalIdle(idle') > 0)
        <3>1. reaper_armed' = reaper_armed /\ waits' = waits
            BY <1>1, <2>3 DEF ArmReapIfNeeded
        <3> QED
            BY <2>1, <2>3, <3>1 DEF ShapeInv, ReaperChain
    <2> QED
        BY <2>2, <2>3
<1> QED
    BY <1>6, <1>7, <1>9, <1>10 DEF IdleCaps, Capped, OldestInFront, Ordered

LEMMA ShapeReap ==
    ASSUME ShapeInv, Reap
    PROVE  IdleCaps' /\ OldestInFront' /\ ReaperChain'
<1>1. idle' \in Deques /\ Within(idle', idle)
    <2>1. idle \in Deques
        BY DEF ShapeInv, LeaseInv, TypeOK, Deques
    <2>2. PICK p \in Pruned : idle' \in Shrunk(p)
        BY DEF Reap
    <2> QED
        BY <2>1, <2>2, PrunedWithin, ShrunkWithin, WithinTransitive
<1>2. age' = IdleAges(idle') /\ ReArm(idle') /\ waits > 0
    BY DEF Reap
<1>3. IdleCaps' /\ OldestInFront' /\ Pooled(idle') \subseteq Pooled(idle)
    BY <1>1, <1>2, ShapeRemoved
<1>4. TotalIdle(idle') > 0 <=> Pooled(idle') # {}
    BY <1>1, EmptyPool
<1>5. ReaperChain'
    <2>1. reaper_armed /\ waits = 1
        BY <1>2 DEF ShapeInv, ReaperChain
    <2>2. CASE ReapEnabled /\ TotalIdle(idle') > 0
        BY <1>2, <2>1, <2>2 DEF ReArm, ReaperChain
    <2>3. CASE ~(ReapEnabled /\ TotalIdle(idle') > 0)
        <3>1. reaper_armed' = FALSE /\ waits' = waits - 1
            BY <1>2, <2>3 DEF ReArm
        <3>2. waits' = 0
            BY <2>1, <3>1
        <3> QED
            BY <1>4, <2>3, <3>1, <3>2 DEF ReaperChain
    <2> QED
        BY <2>2, <2>3
<1> QED
    BY <1>3, <1>5

LEMMA ShapeTick ==
    ASSUME ShapeInv, Tick
    PROVE  IdleCaps' /\ OldestInFront' /\ ReaperChain'
<1>1. /\ idle' = idle /\ reaper_armed' = reaper_armed /\ waits' = waits
      /\ age' = [c \in Conns |-> IF c \in Pooled(idle) /\ age[c] <= KeepAlive
                                 THEN age[c] + 1 ELSE age[c]]
    BY DEF Tick
<1>2. idle \in Deques /\ age \in [Conns -> 0 .. KeepAlive + 1]
    BY DEF ShapeInv, LeaseInv, TypeOK, Deques
<1>3. OldestInFront'
    <2> SUFFICES ASSUME NEW o \in Origins, NEW i \in DOMAIN idle[o], NEW j \in DOMAIN idle[o], i < j
                 PROVE  age'[idle[o][i]] >= age'[idle[o][j]]
        BY <1>1 DEF OldestInFront
    <2> DEFINE x == idle[o][i]
               y == idle[o][j]
    <2>1. x \in Pooled(idle) /\ y \in Pooled(idle) /\ x \in Conns /\ y \in Conns
        BY <1>2, InPooled, PooledConns
    <2>2. age[x] >= age[y]
        BY DEF ShapeInv, OldestInFront
    <2>3. age[x] \in 0 .. KeepAlive + 1 /\ age[y] \in 0 .. KeepAlive + 1
        BY <1>2, <2>1
    <2> HIDE DEF x, y
    <2>4. /\ age'[x] = IF age[x] <= KeepAlive THEN age[x] + 1 ELSE age[x]
          /\ age'[y] = IF age[y] <= KeepAlive THEN age[y] + 1 ELSE age[y]
        BY <1>1, <2>1
    <2>5. age'[x] >= age'[y]
        BY <2>2, <2>3, <2>4, PoolAssumption
    <2> QED
        BY <2>5 DEF x, y
<1> QED
    <2>1. TotalIdle(idle') = TotalIdle(idle) /\ Pooled(idle') = Pooled(idle)
        BY <1>1
    <2> QED
        BY <1>1, <1>3, <2>1 DEF ShapeInv, IdleCaps, ReaperChain

LEMMA ShapeStep == ShapeInv /\ [Next]_vars => ShapeInv'
<1> SUFFICES ASSUME ShapeInv, [Next]_vars PROVE IdleCaps' /\ OldestInFront' /\ ReaperChain'
    BY LeaseStep DEF ShapeInv
<1>1. ASSUME NEW k \in Clients, AcquireReuse(k) \/ AcquireCreate(k)
      PROVE  IdleCaps' /\ OldestInFront' /\ ReaperChain'
    <2>1. /\ idle' \in Deques /\ Within(idle', idle) /\ age' = IdleAges(idle')
          /\ reaper_armed' = reaper_armed /\ waits' = waits
        BY <1>1, ScanWithin DEF ShapeInv, LeaseInv
    <2>2. IdleCaps' /\ OldestInFront' /\ Pooled(idle') \subseteq Pooled(idle)
        BY <2>1, ShapeRemoved
    <2>3. ReaperChain'
        BY <2>1, <2>2 DEF ShapeInv, ReaperChain
    <2> QED
        BY <2>2, <2>3
<1>2. ASSUME UNCHANGED <<idle, age, reaper_armed, waits>>
      PROVE  IdleCaps' /\ OldestInFront' /\ ReaperChain'
    <2>1. TotalIdle(idle') = TotalIdle(idle) /\ Pooled(idle') = Pooled(idle)
        BY <1>2
    <2> QED
        BY <1>2, <2>1 DEF ShapeInv, IdleCaps, OldestInFront, ReaperChain
<1>3. ASSUME NEW k \in Clients, OnStrand(k)
      PROVE  IdleCaps' /\ OldestInFront' /\ ReaperChain'
    <2>1. CASE Resolved(k) \/ Connected(k) \/ HandshakeDone(k) \/ OpenFailed(k) \/ ReleaseDrop(k)
        BY <1>2, <2>1 DEF Resolved, Connected, HandshakeDone, OpenFailed, ReleaseDrop
    <2> QED
        BY <1>1, <1>3, <2>1, ShapeKeep DEF OnStrand
<1>4. ASSUME NEW k \in Clients, \/ \E o \in Origins : Acquire(k, o)
                                \/ \E b \in BOOLEAN : Release(k, b)
      PROVE  IdleCaps' /\ OldestInFront' /\ ReaperChain'
    BY <1>2, <1>4 DEF Acquire, Release
<1>5. CASE UNCHANGED vars
    BY <1>2, <1>5 DEF vars
<1> QED
    BY <1>3, <1>4, <1>5, ShapeReap, ShapeTick DEF Next

LEMMA ShapeInductive == Spec => []ShapeInv
<1>1. Init => ShapeInv
    <2> SUFFICES ASSUME Init PROVE ShapeInv
        OBVIOUS
    <2>1. LeaseInv
        <3>1. reaper_armed \in BOOLEAN
            BY Zenon DEF Init
        <3> QED
            BY <3>1, PoolAssumption
               DEF Init, LeaseInv, TypeOK, PcStates, Opening, InUse, SockStates,
                   ExclusiveLease, IdleReady, LeaseReady, NoOrphan
    <2>2. idle \in Deques /\ Pooled(idle) = {}
        BY InPooled DEF Init, Deques
    <2>3. TotalIdle(idle) <= MaxTotalIdle
        BY <2>2, EmptyPool, EntriesFinite, PoolAssumption
    <2>4. IdleCaps /\ OldestInFront
        BY <2>3, PoolAssumption DEF Init, IdleCaps, OldestInFront
    <2>5. ReaperChain
        BY <2>2 DEF Init, ReaperChain
    <2> QED
        BY <2>1, <2>4, <2>5 DEF ShapeInv
<1> QED
    BY <1>1, ShapeStep, PTL DEF Spec

\* For every configuration and interleaving: the caps hold after every handler,
\* one reap wait is outstanding exactly while it is needed, deques are ordered
\* by last use, and leases can be used.
THEOREM PoolInShape == Spec => []PoolShape
<1>1. ShapeInv => PoolShape
    BY DEF ShapeInv, LeaseInv, PoolShape
<1> QED
    BY <1>1, ShapeInductive, PTL

-----------------------------------------------------------------------------
(***************************************************************************)
(* Why connections are closed.                                             *)
(***************************************************************************)
\* An increasing enumeration of as many positions as a set has reaches all of them.
LEMMA EnumerationOnto ==
    ASSUME NEW K, K \subseteq Int, IsFiniteSet(K), NEW f \in Enumerations(K)
    PROVE  \A t \in K : \E n \in DOMAIN f : f[n] = t
<1>1. PICK N \in Nat : N = Cardinality(K)
    BY FS_CardinalityType
<1>2. f \in [1..N -> K] /\ Increasing(f)
    BY <1>1 DEF Enumerations, Increasing
<1>3. \A m, n \in 1..N : f[m] = f[n] => m = n
    <2>1. \A m \in 1..N : m \in Int /\ f[m] \in Int
        <3>1. f \in [1..N -> Int]
            BY <1>2
        <3> QED
            BY <3>1
    <2>2. \A m, n \in 1..N : m < n => f[m] < f[n]
        BY <1>2 DEF Increasing
    <2> QED
        BY <2>1, <2>2
<1>4. f \in Injection(1..N, K)
    BY <1>2, <1>3, Fun_IsInj
<1>5. Cardinality(1..N) = Cardinality(K)
    BY <1>1, FS_Interval
<1>6. f \in Surjection(1..N, K)
    BY <1>4, <1>5, FS_Injection
<1> QED
    BY <1>2, <1>6, Fun_SurjectionProperties

\* The reaper keeps every usable entry.
LEMMA PrunedKeepsUsable ==
    ASSUME idle \in Deques, NEW p \in Pruned, NEW o \in Origins,
           NEW i \in DOMAIN idle[o], Usable(idle[o][i])
    PROVE  idle[o][i] \in Pooled(p)
<1>1. idle[o] \in Seq(Conns) /\ DOMAIN idle[o] = 1 .. Len(idle[o]) /\ Len(idle[o]) \in Nat
    BY DEF Deques
<1>2. Kept(idle[o]) \subseteq DOMAIN idle[o] /\ i \in Kept(idle[o])
    BY DEF Kept
<1>3. IsFiniteSet(DOMAIN idle[o])
    BY <1>1, FS_Interval
<1>4. IsFiniteSet(Kept(idle[o])) /\ Kept(idle[o]) \subseteq Int
    BY <1>1, <1>2, <1>3, FS_Subset
<1>5. PICK f \in Enumerations(Kept(idle[o])) : p[o] = [n \in DOMAIN f |-> idle[o][f[n]]]
    BY DEF Pruned, PrunedDeque
<1>6. PICK n \in DOMAIN f : f[n] = i
    BY <1>2, <1>4, EnumerationOnto
<1>7. n \in DOMAIN p[o] /\ p[o][n] = idle[o][i]
    BY <1>5, <1>6
<1> QED
    BY <1>7, InPooled

\* Handlers other than release's and the reaper's close no usable idle connection.
LEMMA UsableKept ==
    ASSUME LeaseInv, NEW o \in Origins, NEW i \in DOMAIN idle[o], Usable(idle[o][i]),
           NEW k \in Clients,
           \/ \E w \in Origins : Acquire(k, w)
           \/ \E b \in BOOLEAN : Release(k, b)
           \/ AcquireReuse(k) \/ AcquireCreate(k)
           \/ Resolved(k) \/ Connected(k) \/ HandshakeDone(k)
           \/ OpenFailed(k) \/ ReleaseDrop(k)
    PROVE  sock'[idle[o][i]] = "open"
<1> DEFINE c == idle[o][i]
<1>1. c \in Conns /\ sock[c] = "open" /\ conn[k] # c
    BY DEF LeaseInv, TypeOK, IdleReady, ExclusiveLease
<1>2. sock \in [Conns -> SockStates] /\ Usable(c)
    BY DEF LeaseInv, TypeOK
<1>3. CASE \/ \E w \in Origins : Acquire(k, w)
           \/ Resolved(k) \/ HandshakeDone(k)
    BY <1>1, <1>3 DEF Acquire, Resolved, HandshakeDone
<1>4. CASE Connected(k) \/ \E b \in BOOLEAN : Release(k, b)
    <2>1. PICK s : sock' = sock \/ sock' = [sock EXCEPT ![conn[k]] = s]
        BY <1>4 DEF Connected, Release
    <2> HIDE DEF c
    <2>2. sock'[c] = "open"
        BY <1>1, <1>2, <2>1
    <2> QED
        BY <2>2 DEF c
<1>5. CASE OpenFailed(k) \/ ReleaseDrop(k)
    BY <1>1, <1>5 DEF OpenFailed, ReleaseDrop, Dispose
<1> DEFINE dq == idle[want[k]]
<1>6. CASE AcquireReuse(k)
    <2>1. PICK n \in DOMAIN dq : /\ \A j \in n+1 .. Len(dq) : ~Usable(dq[j])
                                 /\ Dispose({dq[j] : j \in n+1 .. Len(dq)})
        BY <1>6 DEF AcquireReuse
    <2> HIDE DEF c, dq
    <2>2. c \notin {dq[j] : j \in n+1 .. Len(dq)}
        BY <1>2, <2>1
    <2>3. sock'[c] = "open"
        BY <1>1, <2>1, <2>2 DEF Dispose
    <2> QED
        BY <2>3 DEF c
<1>7. CASE AcquireCreate(k)
    <2>1. \A x \in {dq[j] : j \in DOMAIN dq} : ~Usable(x)
        BY <1>7 DEF AcquireCreate
    <2>2. PICK n \in Conns : /\ sock[n] = "none"
                             /\ sock' = [x \in Conns |-> IF x = n THEN "opening"
                                         ELSE IF x \in {dq[j] : j \in DOMAIN dq} THEN "none"
                                         ELSE sock[x]]
        BY <1>7 DEF AcquireCreate
    <2> HIDE DEF c, dq
    <2>3. c \notin {dq[j] : j \in DOMAIN dq} /\ c # n
        BY <1>1, <1>2, <2>1, <2>2
    <2>4. sock'[c] = "open"
        BY <1>1, <2>2, <2>3
    <2> QED
        BY <2>4 DEF c
<1> QED
    BY <1>3, <1>4, <1>5, <1>6, <1>7

\* release closes an idle connection from the front of its own full deque, or
\* because the pool had no room for one more.
LEMMA KeepCloses ==
    ASSUME ShapeInv, NEW o \in Origins, NEW i \in DOMAIN idle[o],
           NEW k \in Clients, ReleaseKeep(k), sock'[idle[o][i]] # "open"
    PROVE  Len(idle[o]) = MaxIdlePerOrigin \/ TotalIdle(idle) = MaxTotalIdle
<1> DEFINE c == conn[k]
           v == origin[c]
           x == idle[o][i]
           pushed == [idle EXCEPT ![v] = PushBack(@, c)]
<1>1. /\ pc[k] = "reuse"
      /\ idle' \in Shrunk(pushed)
      /\ Dispose((Pooled(idle) \cup {c}) \ Pooled(idle'))
    BY DEF ReleaseKeep, Key
<1>2. c \in Conns /\ v \in Origins /\ idle \in Deques
    BY <1>1, PoolAssumption DEF ShapeInv, LeaseInv, LeaseReady, TypeOK, Opening, InUse, Deques
<1>3. /\ Capped(idle) /\ TotalIdle(idle) \in Nat
      /\ idle[v] \in Seq(Conns) /\ Len(idle[o]) \in Nat
    BY <1>2, EntriesFinite DEF ShapeInv, IdleCaps, Capped, Deques
<1>4. x \in Conns /\ sock[x] = "open"
    BY <1>2 DEF ShapeInv, LeaseInv, IdleReady, Deques
<1>5. x \notin Pooled(idle')
    BY <1>1, <1>4 DEF Dispose
<1> HIDE DEF c, v
<1>6. CASE o = v /\ Len(idle[v]) >= MaxIdlePerOrigin
    BY <1>3, <1>6, PoolAssumption DEF Capped
<1>7. CASE ~(o = v /\ Len(idle[v]) >= MaxIdlePerOrigin)
    <2>1. i \in DOMAIN pushed[o] /\ pushed[o][i] = x
        <3>1. CASE o = v
            <4>1. pushed[v] = Append(idle[v], c)
                BY <1>2, <1>7, <3>1 DEF PushBack, Deques
            <4> QED
                BY <1>3, <3>1, <4>1
        <3>2. CASE o # v
            BY <1>2, <3>2 DEF Deques
        <3> QED
            BY <3>1, <3>2
    <2>2. pushed \in Deques
        BY <1>2, PushBackType DEF Deques
    <2>3. TotalIdle(pushed) <= TotalIdle(idle) + 1 /\ TotalIdle(pushed) \in Nat
        BY <1>2, <1>3, <2>2, PushTotal, EntriesFinite DEF Capped
    <2> HIDE DEF pushed
    <2>4. x \in Pooled(pushed)
        BY <2>1, InPooled
    <2>5. ~(TotalIdle(pushed) <= MaxTotalIdle)
        BY <1>1, <1>5, <2>4 DEF Shrunk
    <2> QED
        BY <1>3, <2>3, <2>5, PoolAssumption DEF Capped
<1> QED
    BY <1>6, <1>7

\* The reaper closes no usable connection: what is left fits without shrinking.
LEMMA ReapKeepsUsable ==
    ASSUME ShapeInv, NEW o \in Origins, NEW i \in DOMAIN idle[o], Usable(idle[o][i]), Reap
    PROVE  sock'[idle[o][i]] = "open"
<1> DEFINE x == idle[o][i]
<1>1. PICK p \in Pruned : idle' \in Shrunk(p)
    BY DEF Reap
<1>2. idle \in Deques /\ Capped(idle)
    BY DEF ShapeInv, LeaseInv, TypeOK, Deques, IdleCaps, Capped
<1>3. p \in Deques /\ Within(p, idle)
    BY <1>2, PrunedWithin
<1>4. Capped(p)
    BY <1>2, <1>3, WithinCapped
<1>5. idle' = p
    BY <1>1, <1>4 DEF Shrunk, Capped
<1>6. x \in Pooled(idle')
    BY <1>2, <1>5, PrunedKeepsUsable
<1>7. x \in Conns /\ sock[x] = "open"
    BY <1>2 DEF ShapeInv, LeaseInv, IdleReady, Deques
<1>8. Dispose(Pooled(idle) \ Pooled(idle'))
    BY DEF Reap
<1> HIDE DEF x
<1>9. sock'[x] = "open"
    BY <1>6, <1>7, <1>8 DEF Dispose
<1> QED
    BY <1>9 DEF x

\* For every configuration and interleaving: a connection that could be reused is
\* closed only by release, and only when its deque or the pool is full.
THEOREM NoNeedlessClose == Spec => ClosedForCause
<1>1. ShapeInv /\ [Next]_vars
      => [\A o \in Origins : \A i \in DOMAIN idle[o] :
            LET c == idle[o][i]
            IN  Usable(c) /\ sock'[c] # "open"
                => Len(idle[o]) = MaxIdlePerOrigin \/ TotalIdle(idle) = MaxTotalIdle]_vars
    <2> SUFFICES ASSUME ShapeInv, Next,
                        NEW o \in Origins, NEW i \in DOMAIN idle[o],
                        Usable(idle[o][i]), sock'[idle[o][i]] # "open"
                 PROVE  Len(idle[o]) = MaxIdlePerOrigin \/ TotalIdle(idle) = MaxTotalIdle
        OBVIOUS
    <2>1. LeaseInv /\ sock[idle[o][i]] = "open"
        BY DEF ShapeInv, LeaseInv, IdleReady
    <2>2. ~Tick
        BY <2>1 DEF Tick
    <2>3. PICK k \in Clients : ReleaseKeep(k)
        BY <2>1, <2>2, UsableKept, ReapKeepsUsable DEF Next, OnStrand
    <2> QED
        BY <2>3, KeepCloses
<1> QED
    BY <1>1, ShapeInductive, PTL DEF Spec, ClosedForCause
=============================================================================
