--------------------------- MODULE ConnectionPool ---------------------------
(***************************************************************************)
(* beast_pool::ConnectionPool (include/beast_connection_pool.hpp): idle    *)
(* HTTP connections kept per origin for reuse.                             *)
(*                                                                         *)
(* acquire and release post a handler to the pool's strand; resolver,      *)
(* connect, handshake and reaper handlers are bound to it as well.  Each   *)
(* handler is one atomic action here and pending handlers may run in any   *)
(* order: I/O completes when it likes, and callers post from any thread.   *)
(*                                                                         *)
(* A client is whoever called acquire (http_session_pooled, async_request, *)
(* the monadic wrappers); here it is an arbitrary caller that sticks to    *)
(* the calling convention all of these share: one acquire, then, if it got *)
(* a connection, one release, with the socket closed first when the        *)
(* connection is not to be reused.                                         *)
(*                                                                         *)
(* Conns are slots for Connection objects.  A slot is taken by make_shared *)
(* and is free again when nothing refers to the object: dropping the last  *)
(* reference closes the socket, with or without a close() before it.       *)
(***************************************************************************)
EXTENDS Integers, Sequences, FiniteSets

CONSTANTS
    Clients,            \* callers of acquire
    Conns,              \* slots for Connection objects
    Origins,            \* (scheme, host, port) keys
    TlsOrigins,         \* origins whose stream is an SslStream
    NoConn,             \* null Connection::Ptr
    NoOrigin,           \* no acquire is posted
    MaxIdlePerOrigin,   \* PoolConfig::max_idle_per_origin
    MaxTotalIdle,       \* PoolConfig::max_total_idle
    KeepAlive,          \* PoolConfig::idle_keep_alive, in clock ticks
    ReapEnabled         \* PoolConfig::idle_reap_interval > 0

(***************************************************************************)
(* A zero max_idle_per_origin makes release() call front() on an empty     *)
(* deque, so the pool is only meaningful for a positive one.  There are    *)
(* enough slots for every object that can exist at the same time.          *)
(***************************************************************************)
ASSUME PoolAssumption ==
    /\ IsFiniteSet(Clients) /\ IsFiniteSet(Conns) /\ IsFiniteSet(Origins)
    /\ TlsOrigins \subseteq Origins
    /\ NoConn \notin Conns
    /\ NoOrigin \notin Origins
    /\ MaxIdlePerOrigin \in Nat \ {0}
    /\ MaxTotalIdle \in Nat
    /\ KeepAlive \in Nat
    /\ ReapEnabled \in BOOLEAN

ASSUME EnoughSlots == Cardinality(Conns) >= Cardinality(Clients) + MaxTotalIdle

VARIABLES
    idle,           \* idle_: origin -> deque of connections, oldest in front
    sock,           \* socket of each slot; "none": no Connection object there
    origin,         \* Connection::origin_; NoOrigin where there is no object
    age,            \* now - Connection::last_used_ of an idle connection
    reaper_armed,   \* reaper_armed_
    waits,          \* outstanding reap_timer_.async_wait handlers
    pc,             \* where each client's acquire/release stands
    want,           \* the origin of a posted acquire
    conn            \* the connection a client is opening, using or returning

vars == <<idle, sock, origin, age, reaper_armed, waits, pc, want, conn>>

SockStates == {"none", "opening", "open", "closed"}
Opening    == {"resolving", "connecting", "handshaking"}
InUse      == {"held", "reuse", "drop"}
PcStates   == {"out", "posted"} \cup Opening \cup InUse

-----------------------------------------------------------------------------
(***************************************************************************)
(* The idle deques.                                                        *)
(***************************************************************************)
Pooled(dqs) == UNION {{dqs[o][i] : i \in DOMAIN dqs[o]} : o \in Origins}

\* One element per entry of a deque, as the loops that add up size() count.
Entries(dqs) == UNION {{o} \X DOMAIN dqs[o] : o \in Origins}
TotalIdle(dqs) == Cardinality(Entries(dqs))

alive(c)      == sock[c] = "open"
is_expired(c) == age[c] > KeepAlive
Usable(c)     == alive(c) /\ ~is_expired(c)

Largest(dqs) ==
    {v \in Origins : /\ dqs[v] # <<>>
                     /\ \A o \in Origins : Len(dqs[o]) <= Len(dqs[v])}

(***************************************************************************)
(* shrink_global_if_needed.  The loop removes the front of a largest deque *)
(* until the total fits; which of several largest ones depends on the      *)
(* order of an unordered_map.  Every caller adds at most one entry to      *)
(* deques that fit, so the loop runs at most once.                         *)
(***************************************************************************)
Shrunk(dqs) ==
    IF TotalIdle(dqs) <= MaxTotalIdle
    THEN {dqs}
    ELSE {[dqs EXCEPT ![v] = Tail(@)] : v \in Largest(dqs)}

(***************************************************************************)
(* The reaper's inner loop erases the unusable entries of a deque and      *)
(* keeps the others in order: the result is the deque read at an           *)
(* increasing enumeration of the positions that stay.                      *)
(***************************************************************************)
Kept(dq) == {i \in DOMAIN dq : Usable(dq[i])}
Enumerations(S) ==
    {f \in [1..Cardinality(S) -> S] :
        \A m, n \in DOMAIN f : m < n => f[m] < f[n]}
PrunedDeque(dq) ==
    {[n \in DOMAIN f |-> dq[f[n]]] : f \in Enumerations(Kept(dq))}
Pruned ==
    {p \in [Origins -> UNION {PrunedDeque(idle[o]) : o \in Origins}] :
        \A o \in Origins : p[o] \in PrunedDeque(idle[o])}

\* Mutant: entries are dropped and their sockets stay open.
DisposeLeaks(S) == UNCHANGED <<sock, origin>>

(***************************************************************************)
(* close() and the last reference gone: the slots in S are free again.     *)
(* busy_ is left out, since nothing reads it, and last_used_ is read while *)
(* a connection is idle only, so the age of any other is kept at zero.     *)
(***************************************************************************)
Dispose(S) ==
    /\ sock' = [c \in Conns |-> IF c \in S THEN "none" ELSE sock[c]]
    /\ origin' = [c \in Conns |-> IF c \in S THEN NoOrigin ELSE origin[c]]

IdleAges(dqs) == [c \in Conns |-> IF c \in Pooled(dqs) THEN age[c] ELSE 0]

-----------------------------------------------------------------------------
Init ==
    /\ idle = [o \in Origins |-> <<>>]
    /\ sock = [c \in Conns |-> "none"]
    /\ origin = [c \in Conns |-> NoOrigin]
    /\ age = [c \in Conns |-> 0]
    /\ reaper_armed = FALSE
    /\ waits = 0
    /\ pc = [k \in Clients |-> "out"]
    /\ want = [k \in Clients |-> NoOrigin]
    /\ conn = [k \in Clients |-> NoConn]

(***************************************************************************)
(* The caller's side.                                                      *)
(***************************************************************************)
\* acquire(o, handler): posts to the strand.
Acquire(k, o) ==
    /\ pc[k] = "out"
    /\ pc' = [pc EXCEPT ![k] = "posted"]
    /\ want' = [want EXCEPT ![k] = o]
    /\ UNCHANGED <<idle, sock, origin, age, reaper_armed, waits, conn>>

\* release(c, can_reuse): posts to the strand; callers close() first when the
\* connection is not reusable.
Release(k, can_reuse) ==
    /\ pc[k] = "held"
    /\ pc' = [pc EXCEPT ![k] = IF can_reuse THEN "reuse" ELSE "drop"]
    /\ sock' = IF can_reuse THEN sock ELSE [sock EXCEPT ![conn[k]] = "closed"]
    /\ UNCHANGED <<idle, origin, age, reaper_armed, waits, want, conn>>

-----------------------------------------------------------------------------
(***************************************************************************)
(* The handler posted by acquire: scan the deque from the back.            *)
(***************************************************************************)
\* Mutant: back() without pop_back().
TakenFromKeeps(dq, i) == SubSeq(dq, 1, i)

\* What is left of a deque when the scan stops at entry i.
TakenFrom(dq, i) == SubSeq(dq, 1, i-1)

\* A usable entry is found at i; the ones behind it were popped and closed.
AcquireReuse(k) ==
    LET dq == idle[want[k]]
    IN  /\ pc[k] = "posted"
        /\ \E i \in DOMAIN dq :
            /\ Usable(dq[i])
            /\ \A j \in i+1 .. Len(dq) : ~Usable(dq[j])
            /\ idle' = [idle EXCEPT ![want[k]] = TakenFrom(dq, i)]
            /\ Dispose({dq[j] : j \in i+1 .. Len(dq)})
            /\ conn' = [conn EXCEPT ![k] = dq[i]]
        /\ age' = IdleAges(idle')
        /\ pc' = [pc EXCEPT ![k] = "held"]
        /\ want' = [want EXCEPT ![k] = NoOrigin]
        /\ UNCHANGED <<reaper_armed, waits>>

\* No entry is usable: all are closed, a Connection is made and its origin
\* resolved.
AcquireCreate(k) ==
    LET dq == idle[want[k]]
        popped == {dq[j] : j \in DOMAIN dq}
    IN  /\ pc[k] = "posted"
        /\ \A c \in popped : ~Usable(c)
        /\ idle' = [idle EXCEPT ![want[k]] = <<>>]
        /\ age' = IdleAges(idle')
        /\ \E c \in Conns :
            /\ sock[c] = "none"
            /\ sock' = [x \in Conns |-> IF x = c THEN "opening"
                                        ELSE IF x \in popped THEN "none"
                                        ELSE sock[x]]
            /\ origin' = [x \in Conns |-> IF x = c THEN want[k]
                                          ELSE IF x \in popped THEN NoOrigin
                                          ELSE origin[x]]
            /\ conn' = [conn EXCEPT ![k] = c]
        /\ pc' = [pc EXCEPT ![k] = "resolving"]
        /\ want' = [want EXCEPT ![k] = NoOrigin]
        /\ UNCHANGED <<reaper_armed, waits>>

(***************************************************************************)
(* do_resolve_connect: the handlers of resolve, connect and handshake.     *)
(***************************************************************************)
\* Connect is started, to the first endpoint only.
Resolved(k) ==
    /\ pc[k] = "resolving"
    /\ pc' = [pc EXCEPT ![k] = "connecting"]
    /\ UNCHANGED <<idle, sock, origin, age, reaper_armed, waits, want, conn>>

\* A plain stream is handed to the client, a TLS stream starts its handshake.
Connected(k) ==
    /\ pc[k] = "connecting"
    /\ sock' = [sock EXCEPT ![conn[k]] = "open"]
    /\ pc' = [pc EXCEPT ![k] = IF origin[conn[k]] \in TlsOrigins
                               THEN "handshaking" ELSE "held"]
    /\ UNCHANGED <<idle, origin, age, reaper_armed, waits, want, conn>>

HandshakeDone(k) ==
    /\ pc[k] = "handshaking"
    /\ pc' = [pc EXCEPT ![k] = "held"]
    /\ UNCHANGED <<idle, sock, origin, age, reaper_armed, waits, want, conn>>

\* Mutant: the pool tries again instead of calling the handler.
OpenFailedRetries(k) ==
    /\ pc[k] \in Opening
    /\ sock' = [sock EXCEPT ![conn[k]] = "opening"]
    /\ pc' = [pc EXCEPT ![k] = "resolving"]
    /\ UNCHANGED <<idle, origin, age, reaper_armed, waits, want, conn>>

\* Any of the three fails: handler(ec, {}), and the object dies with it.
OpenFailed(k) ==
    /\ pc[k] \in Opening
    /\ Dispose({conn[k]})
    /\ pc' = [pc EXCEPT ![k] = "out"]
    /\ conn' = [conn EXCEPT ![k] = NoConn]
    /\ UNCHANGED <<idle, age, reaper_armed, waits, want>>

-----------------------------------------------------------------------------
(***************************************************************************)
(* The handler posted by release.                                          *)
(***************************************************************************)
ReleaseDrop(k) ==
    /\ pc[k] \in {"reuse", "drop"}
    /\ pc[k] = "drop" \/ ~alive(conn[k])
    /\ Dispose({conn[k]})
    /\ pc' = [pc EXCEPT ![k] = "out"]
    /\ conn' = [conn EXCEPT ![k] = NoConn]
    /\ UNCHANGED <<idle, age, reaper_armed, waits, want>>

\* Mutant: the cap is undershot by one.
PushBackUnder(dq, c) ==
    Append(IF dq # <<>> /\ Len(dq) >= MaxIdlePerOrigin - 1 THEN Tail(dq) ELSE dq, c)

\* push_back after dropping the oldest of a full deque.
PushBack(dq, c) ==
    Append(IF Len(dq) >= MaxIdlePerOrigin THEN Tail(dq) ELSE dq, c)

\* Mutant: the key leaves something out of the origin, as a comparison without
\* the scheme would.
KeyTooCoarse(c) == CHOOSE o \in Origins : TRUE

\* idle_[c->origin()]
Key(c) == origin[c]

\* Mutant: armed whenever something is idle.
ArmReapAlways(dqs) ==
    IF ReapEnabled /\ TotalIdle(dqs) > 0
    THEN reaper_armed' = TRUE /\ waits' = waits + 1
    ELSE UNCHANGED <<reaper_armed, waits>>

\* arm_reap_if_needed_locked and the schedule_reap it calls.
ArmReapIfNeeded(dqs) ==
    IF ReapEnabled /\ ~reaper_armed /\ TotalIdle(dqs) > 0
    THEN reaper_armed' = TRUE /\ waits' = waits + 1
    ELSE UNCHANGED <<reaper_armed, waits>>

ReleaseKeep(k) ==
    LET c == conn[k]
    IN  /\ pc[k] = "reuse"
        /\ alive(c)
        /\ idle' \in Shrunk([idle EXCEPT ![Key(c)] = PushBack(@, c)])
        /\ Dispose((Pooled(idle) \cup {c}) \ Pooled(idle'))
        /\ age' = [IdleAges(idle') EXCEPT ![c] = 0]
        /\ ArmReapIfNeeded(idle')
        /\ pc' = [pc EXCEPT ![k] = "out"]
        /\ conn' = [conn EXCEPT ![k] = NoConn]
        /\ UNCHANGED want

-----------------------------------------------------------------------------
\* Mutants: one round only; rounds for ever.
ReArmNever(dqs) == reaper_armed' = FALSE /\ waits' = waits - 1
ReArmAlways(dqs) == UNCHANGED <<reaper_armed, waits>>

\* The end of the reap handler: its wait is over, and schedule_reap starts another.
ReArm(dqs) ==
    IF ReapEnabled /\ TotalIdle(dqs) > 0
    THEN UNCHANGED <<reaper_armed, waits>>
    ELSE reaper_armed' = FALSE /\ waits' = waits - 1

(***************************************************************************)
(* The reap timer's handler, whatever its error code: prune, shrink, and   *)
(* wait again only while connections are idle.                             *)
(***************************************************************************)
Reap ==
    /\ waits > 0
    /\ \E p \in Pruned : idle' \in Shrunk(p)
    /\ Dispose(Pooled(idle) \ Pooled(idle'))
    /\ age' = IdleAges(idle')
    /\ ReArm(idle')
    /\ UNCHANGED <<pc, want, conn>>

(***************************************************************************)
(* steady_clock: only the age of idle connections is ever read, and ages   *)
(* above KeepAlive are alike.                                              *)
(***************************************************************************)
Tick ==
    /\ \E c \in Pooled(idle) : age[c] <= KeepAlive
    /\ age' = [c \in Conns |-> IF c \in Pooled(idle) /\ age[c] <= KeepAlive
                               THEN age[c] + 1 ELSE age[c]]
    /\ UNCHANGED <<idle, sock, origin, reaper_armed, waits, pc, want, conn>>

OnStrand(k) ==
    \/ AcquireReuse(k)
    \/ AcquireCreate(k)
    \/ Resolved(k)
    \/ Connected(k)
    \/ HandshakeDone(k)
    \/ OpenFailed(k)
    \/ ReleaseDrop(k)
    \/ ReleaseKeep(k)

Next ==
    \/ \E k \in Clients, o \in Origins : Acquire(k, o)
    \/ \E k \in Clients, b \in BOOLEAN : Release(k, b)
    \/ \E k \in Clients : OnStrand(k)
    \/ Reap
    \/ Tick

Spec == Init /\ [][Next]_vars

(***************************************************************************)
(* Worker threads run what is posted or has completed, name resolution,    *)
(* connect and handshake end one way or the other, and time passes.  The   *)
(* pool has timeouts for a plain connect and for a handshake; it leaves    *)
(* name resolution and a TLS origin's connect to those of the operating    *)
(* system.  It also leaves to the peer that the blocking shutdown() in a   *)
(* TLS connection's close() returns.  Clients owe the pool nothing.        *)
(***************************************************************************)
Fairness ==
    /\ \A k \in Clients : WF_vars(OnStrand(k))
    /\ WF_vars(Reap)
    /\ WF_vars(Tick)

FairSpec == Spec /\ Fairness
-----------------------------------------------------------------------------
\* The variables have their types: deques hold Connection objects, and a client
\* refers to one exactly from make_shared or pop_back to the end of the
\* handler that returns or loses it.
TypeOK ==
    /\ idle \in [Origins -> Seq(Conns)]
    /\ sock \in [Conns -> SockStates]
    /\ origin \in [Conns -> Origins \cup {NoOrigin}]
    /\ age \in [Conns -> 0 .. KeepAlive + 1]
    /\ reaper_armed \in BOOLEAN
    /\ waits \in Nat
    /\ pc \in [Clients -> PcStates]
    /\ want \in [Clients -> Origins \cup {NoOrigin}]
    /\ conn \in [Clients -> Conns \cup {NoConn}]
    /\ \A k \in Clients : /\ (want[k] # NoOrigin) <=> (pc[k] = "posted")
                          /\ (conn[k] # NoConn) <=> (pc[k] \in Opening \cup InUse)

\* Two requests never write to the same connection: a connection has one
\* client, none while it is idle, and one entry in one deque while it is.
\* acquire must have popped what it hands out, and release must push what
\* nobody else returns.
ExclusiveLease ==
    /\ \A k, l \in Clients : k # l /\ conn[k] = conn[l] => conn[k] = NoConn
    /\ \A o \in Origins : \A i \in DOMAIN idle[o] :
        /\ \A k \in Clients : conn[k] # idle[o][i]
        /\ \A p \in Origins : \A j \in DOMAIN idle[p] :
            idle[o][i] = idle[p][j] => o = p /\ i = j

\* An idle connection is open and filed under the origin it was opened for, so
\* that the alive() test of acquire never finds a connection this side closed.
IdleReady ==
    \A o \in Origins : \A i \in DOMAIN idle[o] :
        sock[idle[o][i]] = "open" /\ origin[idle[o][i]] = o

\* What a client holds is open until it gives it back (release's alive() test
\* never fails), belongs to an origin, and is still opening until the connect.
LeaseReady ==
    \A k \in Clients :
        /\ pc[k] \in {"resolving", "connecting"} => sock[conn[k]] = "opening"
        /\ pc[k] \in {"handshaking", "held", "reuse"} => sock[conn[k]] = "open"
        /\ pc[k] = "drop" => sock[conn[k]] = "closed"
        /\ conn[k] # NoConn => origin[conn[k]] \in Origins

\* No socket is leaked: an object exists only while a deque or a client has it.
NoOrphan ==
    \A c \in Conns :
        sock[c] # "none" => c \in Pooled(idle) \/ \E k \in Clients : conn[k] = c

\* max_idle_per_origin and max_total_idle hold after every handler, for any
\* interleaving of releases to any origins.
IdleCaps ==
    /\ \A o \in Origins : Len(idle[o]) <= MaxIdlePerOrigin
    /\ TotalIdle(idle) <= MaxTotalIdle

\* reaper_armed_ tells whether a reap handler is outstanding, there is never a
\* second one, and idle connections are never left without one.
ReaperChain ==
    /\ waits = IF reaper_armed THEN 1 ELSE 0
    /\ ReapEnabled /\ Pooled(idle) # {} => reaper_armed

\* Deques are ordered by last use.  The scan of acquire from the back relies on
\* it to find a fresh connection before it closes any, and dropping the front
\* relies on it to drop the oldest.
OldestInFront ==
    \A o \in Origins : \A i, j \in DOMAIN idle[o] :
        i < j => age[idle[o][i]] >= age[idle[o][j]]

\* What every handler leaves behind, whatever was released, closed or timed out
\* before: leases that can be used, deques within their caps and in order, and
\* one reap wait exactly while it is needed.
PoolShape == TypeOK /\ LeaseReady /\ IdleCaps /\ ReaperChain /\ OldestInFront

\* A connection that could still be used is closed only to respect a cap: its
\* own deque or the whole pool was full, whatever handler closed it.
ClosedForCause ==
    [][\A o \in Origins : \A i \in DOMAIN idle[o] :
        LET c == idle[o][i]
        IN  Usable(c) /\ sock'[c] # "open"
            => Len(idle[o]) = MaxIdlePerOrigin \/ TotalIdle(idle) = MaxTotalIdle]_vars

\* Every acquire is answered, with a connection or with an error.
AcquireAnswered ==
    \A k \in Clients :
        pc[k] \in {"posted"} \cup Opening ~> pc[k] \in {"held", "out"}

\* With the reaper enabled no connection idles for ever.
IdleEnds == \A c \in Conns : c \in Pooled(idle) ~> c \notin Pooled(idle)

\* When the clients stop for good, all sockets are closed and the reap timer is
\* not waited for again, so that it does not keep io_context::run from returning.
Drains ==
    <>[](\A k \in Clients : pc[k] \in {"out", "reuse", "drop"})
        => <>[](waits = 0 /\ \A c \in Conns : sock[c] = "none")
=============================================================================
