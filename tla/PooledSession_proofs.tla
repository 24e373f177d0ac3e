------------------------ MODULE PooledSession_proofs ------------------------
(***************************************************************************)
(* Proofs about the sessions on the pool (PooledSession), for any number   *)
(* of sessions, requests, origins, proxies and connections.                *)
(***************************************************************************)
EXTENDS PooledSession, ConnectionPool_proofs

Ends == [to : Origins, tls : BOOLEAN]

-----------------------------------------------------------------------------
(***************************************************************************)
(* The sessions use the pool as its own specification allows: every step   *)
(* of a session is a step of the pool or leaves the pool alone.            *)
(***************************************************************************)
LEMMA AcquireOriginType ==
    ASSUME NEW q \in Requests
    PROVE  AcquireOrigin(q) \in Origins
BY SessionAssumption DEF AcquireOrigin, Proxied

LEMMA FinishIsRelease ==
    ASSUME NEW k \in Clients, NEW b \in BOOLEAN, Finish(k, b)
    PROVE  Next
BY DEF Finish, Next

LEMMA SessionStepIsPoolStep == [SessionNext]_allVars => [Next]_vars
<1> SUFFICES ASSUME [SessionNext]_allVars PROVE [Next]_vars
    OBVIOUS
<1>1. ASSUME NEW k \in Clients, NEW q \in Requests, Run(k, q)
      PROVE  Next
    BY <1>1, AcquireOriginType DEF Run, Next
<1>2. ASSUME NEW k \in Clients, Progress(k)
      PROVE  [Next]_vars
    <2>1. CASE \/ GetIdle(k) \/ OpenNew(k) \/ Resolve(k) \/ GetNew(k) \/ GetNewTls(k)
               \/ AcquireFails(k) \/ PoolTakesBack(k)
        BY <2>1 DEF GetIdle, OpenNew, Resolve, GetNew, GetNewTls, AcquireFails, PoolTakesBack,
                    OnStrand, Next
    <2>2. CASE ConnectWritten(k) \/ Upgraded(k) \/ Written(k)
        BY <2>2 DEF ConnectWritten, Upgraded, Written
    <2>3. CASE ConnectAccepted(k)
        BY <2>3, FinishIsRelease DEF ConnectAccepted
    <2>4. CASE ReadDone(k) \/ StepFails(k)
        BY <2>4, FinishIsRelease DEF ReadDone, StepFails
    <2> QED
        BY <1>2, <2>1, <2>2, <2>3, <2>4 DEF Progress
<1> QED
    BY <1>1, <1>2 DEF SessionNext, PoolReaps, ClockTicks, Next, allVars

\* http_session_pooled keeps the calling convention of the pool: whatever the
\* sessions do, the pool behaves as ConnectionPool specifies.
THEOREM SessionsKeepPoolSpec == SessionSpec => Spec
<1>1. SessionInit => Init
    BY DEF SessionInit
<1> QED
    BY <1>1, SessionStepIsPoolStep, PTL DEF SessionSpec, Spec

\* What is proved of the pool holds under the sessions.
LEMMA SessionLeases == SessionSpec => []LeaseInv
BY SessionsKeepPoolSpec, LeaseInductive, PTL

-----------------------------------------------------------------------------
(***************************************************************************)
(* What the pool's handlers do to connections, seen from a session.        *)
(***************************************************************************)
\* Sockets are opened by connecting only, and what is not closed keeps its origin.
Steady(S) ==
    \A c \in Conns \ S : sock'[c] # "none" => sock'[c] = sock[c] /\ origin'[c] = origin[c]

LEMMA DisposeSteady ==
    ASSUME NEW S, Dispose(S)
    PROVE  Steady({})
BY DEF Dispose, Steady

LEMMA ReuseEffect ==
    ASSUME LeaseInv, LeaseInv', NEW k \in Clients, AcquireReuse(k)
    PROVE  /\ pc[k] = "posted" /\ pc' = [pc EXCEPT ![k] = "held"]
           /\ Steady({})
           /\ \E c \in Conns :
                 /\ conn' = [conn EXCEPT ![k] = c] /\ \A l \in Clients : conn[l] # c
                 /\ sock[c] = "open" /\ sock'[c] = "open"
                 /\ origin[c] = want[k] /\ origin'[c] = origin[c]
<1>1. pc[k] = "posted" /\ pc' = [pc EXCEPT ![k] = "held"]
    BY DEF AcquireReuse
<1>2. /\ idle \in [Origins -> Seq(Conns)] /\ want[k] \in Origins
      /\ conn \in [Clients -> Conns \cup {NoConn}] /\ pc \in [Clients -> PcStates]
    BY <1>1 DEF LeaseInv, TypeOK
<1>3. PICK i \in DOMAIN idle[want[k]] :
        /\ conn' = [conn EXCEPT ![k] = idle[want[k]][i]]
        /\ Dispose({idle[want[k]][j] : j \in i+1 .. Len(idle[want[k]])})
    BY DEF AcquireReuse
<1> DEFINE c == idle[want[k]][i]
<1>4. c \in Conns
    BY <1>2, <1>3
<1>5. \A l \in Clients : conn[l] # c
    BY <1>2, <1>3 DEF LeaseInv, ExclusiveLease
<1>6. sock[c] = "open" /\ origin[c] = want[k]
    BY <1>2, <1>3 DEF LeaseInv, IdleReady
<1>7. Steady({})
    BY <1>3, DisposeSteady
<1>8. pc'[k] = "held" /\ conn'[k] = c
    BY <1>1, <1>2, <1>3
<1>9. sock'[c] = "open"
    BY <1>8 DEF LeaseInv, LeaseReady
<1>10. origin'[c] = origin[c]
    BY <1>4, <1>7, <1>9 DEF Steady
<1> HIDE DEF c
<1> QED
    BY <1>1, <1>3, <1>4, <1>5, <1>6, <1>7, <1>9, <1>10 DEF c

LEMMA CreateEffect ==
    ASSUME LeaseInv, NEW k \in Clients, AcquireCreate(k)
    PROVE  /\ pc[k] = "posted" /\ pc' = [pc EXCEPT ![k] = "resolving"]
           /\ \E c \in Conns :
                 /\ conn' = [conn EXCEPT ![k] = c] /\ Steady({c})
                 /\ sock'[c] = "opening" /\ origin'[c] = want[k]
<1>1. pc[k] = "posted" /\ pc' = [pc EXCEPT ![k] = "resolving"]
    BY DEF AcquireCreate
<1> DEFINE popped == {idle[want[k]][j] : j \in DOMAIN idle[want[k]]}
<1>2. PICK c \in Conns :
        /\ sock' = [x \in Conns |-> IF x = c THEN "opening" ELSE IF x \in popped THEN "none" ELSE sock[x]]
        /\ origin' = [x \in Conns |-> IF x = c THEN want[k] ELSE IF x \in popped THEN NoOrigin ELSE origin[x]]
        /\ conn' = [conn EXCEPT ![k] = c]
    BY DEF AcquireCreate
<1> HIDE DEF popped
<1>3. Steady({c})
    BY <1>2 DEF Steady
<1> QED
    BY <1>1, <1>2, <1>3

\* OpenFailed and ReleaseDrop free the slot, ReleaseKeep leaves the connection to
\* the pool; in each case the session is left without one.
LEMMA ReturnEffect ==
    ASSUME NEW k \in Clients, OpenFailed(k) \/ ReleaseDrop(k) \/ ReleaseKeep(k)
    PROVE  /\ pc[k] \in Opening \cup {"reuse", "drop"} /\ pc' = [pc EXCEPT ![k] = "out"]
           /\ conn' = [conn EXCEPT ![k] = NoConn] /\ UNCHANGED want
           /\ Steady({})
<1>1. CASE OpenFailed(k)
    BY <1>1, DisposeSteady DEF OpenFailed
<1>2. CASE ReleaseDrop(k)
    BY <1>2, DisposeSteady DEF ReleaseDrop
<1>3. CASE ReleaseKeep(k)
    <2>1. Steady({})
        BY <1>3, DisposeSteady DEF ReleaseKeep
    <2> QED
        BY <1>3, <2>1 DEF ReleaseKeep
<1> QED
    BY <1>1, <1>2, <1>3

LEMMA ReapEffect ==
    ASSUME Reap
    PROVE  Steady({}) /\ UNCHANGED <<pc, want, conn>>
BY DisposeSteady DEF Reap

\* close() before release when the connection is not reusable.
LEMMA FinishEffect ==
    ASSUME LeaseInv, NEW k \in Clients, NEW b \in BOOLEAN, Finish(k, b)
    PROVE  /\ pc[k] = "held" /\ pc' = [pc EXCEPT ![k] = IF b THEN "reuse" ELSE "drop"]
           /\ conn[k] \in Conns /\ sock[conn[k]] = "open"
           /\ \A c \in Conns : sock'[c] = IF c = conn[k] /\ ~b THEN "closed" ELSE sock[c]
           /\ UNCHANGED <<origin, want, conn>>
           /\ req' = [req EXCEPT ![k] = NoReq] /\ step' = [step EXCEPT ![k] = "none"]
           /\ inherited' = inherited \ {k}
<1>1. pc[k] = "held" /\ UNCHANGED <<origin, want, conn>>
    BY DEF Finish, Release
<1>2. sock[conn[k]] = "open" /\ conn[k] \in Conns /\ sock \in [Conns -> SockStates]
    BY <1>1 DEF LeaseInv, LeaseReady, TypeOK, InUse
<1>3. \A c \in Conns : sock'[c] = IF c = conn[k] /\ ~b THEN "closed" ELSE sock[c]
    BY <1>2 DEF Finish, Release
<1> QED
    BY <1>1, <1>2, <1>3 DEF Finish, Release, SetStep

-----------------------------------------------------------------------------
(***************************************************************************)
(* Types, and who has a connection.  SessionTypeOK is not inductive alone: *)
(* that the handshake and the CONNECT find a far end to change needs that  *)
(* every connected socket has one.                                         *)
(***************************************************************************)
Known == \A c \in Conns : sock[c] \in {"open", "closed"} => peer[c] \in Ends

SessionOK == SessionTypeOK /\ Known

Peers == [Conns -> Ends \cup {NoPeer}]

Agreed(k) ==
    /\ step[k] # "none" <=> pc[k] = "held"
    /\ req[k] = NoReq <=> pc[k] \in {"out", "reuse", "drop"}

LEMMA SessionOKParts ==
    SessionOK <=> /\ TypeOK
                  /\ req \in [Clients -> Requests \cup {NoReq}] /\ step \in [Clients -> Steps]
                  /\ peer \in Peers /\ wire \in [Conns -> Wires] /\ inherited \in SUBSET Clients
                  /\ \A k \in Clients : Agreed(k)
                  /\ Known
BY DEF SessionOK, SessionTypeOK, Agreed, Peers, Ends

LEMMA SessionOKNext ==
    ASSUME TypeOK', req' \in [Clients -> Requests \cup {NoReq}], step' \in [Clients -> Steps],
           peer' \in Peers, wire' \in [Conns -> Wires], inherited' \in SUBSET Clients,
           \A k \in Clients : Agreed(k)', Known'
    PROVE  SessionOK'
BY DEF SessionOK, SessionTypeOK, Agreed, Peers, Ends

LEMMA ForgetKeeps ==
    ASSUME peer \in Peers, wire \in [Conns -> Wires], Known, Forget,
           Steady({}) \/ \E c \in Conns : Steady({c}) /\ sock'[c] = "opening"
    PROVE  peer' \in Peers /\ wire' \in [Conns -> Wires] /\ Known'
<1>1. peer' \in Peers
    BY DEF Forget, Peers
<1>2. wire' \in [Conns -> Wires]
    BY DEF Forget, Wires
<1>3. \A c \in Conns : sock'[c] \in {"open", "closed"} => sock'[c] = sock[c] /\ peer'[c] = peer[c]
    BY DEF Forget, Steady
<1> QED
    BY <1>1, <1>2, <1>3 DEF Known

LEMMA FirstStepType ==
    ASSUME NEW q
    PROVE  FirstStep(q) \in {"connect_write", "write"}
BY DEF FirstStep

\* acquire() and its answers.
LEMMA AcquireOK ==
    ASSUME SessionOK, LeaseInv, LeaseInv', NEW k \in Clients,
           \/ \E q \in Requests : Run(k, q)
           \/ GetIdle(k) \/ OpenNew(k) \/ Resolve(k) \/ GetNew(k) \/ GetNewTls(k)
           \/ AcquireFails(k) \/ PoolTakesBack(k)
    PROVE  SessionOK'
<1>1. TypeOK'
    BY DEF LeaseInv
<1>2. /\ req \in [Clients -> Requests \cup {NoReq}] /\ step \in [Clients -> Steps]
      /\ peer \in Peers /\ wire \in [Conns -> Wires] /\ inherited \in SUBSET Clients
      /\ \A l \in Clients : Agreed(l)
      /\ Known
    BY SessionOKParts
<1>3. pc \in [Clients -> PcStates] /\ conn \in [Clients -> Conns \cup {NoConn}] /\ sock \in [Conns -> SockStates]
    BY DEF LeaseInv, TypeOK
<1>4. ASSUME NEW q \in Requests, Run(k, q)
      PROVE  SessionOK'
    <2>1. /\ req' = [req EXCEPT ![k] = q] /\ pc' = [pc EXCEPT ![k] = "posted"] /\ pc[k] = "out"
          /\ UNCHANGED <<step, peer, wire, inherited, sock>>
        BY <1>4 DEF Run, Acquire
    <2>2. Known'
        BY <1>2, <2>1 DEF Known
    <2>3. q # NoReq
        BY SessionAssumption
    <2>4. \A l \in Clients : Agreed(l)'
        BY <1>2, <1>3, <2>1, <2>3 DEF Agreed
    <2>5. req' \in [Clients -> Requests \cup {NoReq}]
        BY <1>2, <2>1
    <2> QED
        BY <1>1, <1>2, <2>1, <2>2, <2>4, <2>5, SessionOKNext
<1>5. CASE GetIdle(k)
    <2>1. /\ AcquireReuse(k) /\ Forget /\ step' = [step EXCEPT ![k] = FirstStep(req[k])] /\ req' = req
          /\ inherited' \in {inherited, inherited \cup {k}}
        BY <1>5 DEF GetIdle, SetStep
    <2>2. pc[k] = "posted" /\ pc' = [pc EXCEPT ![k] = "held"] /\ Steady({})
        BY <2>1, ReuseEffect
    <2>3. peer' \in Peers /\ wire' \in [Conns -> Wires] /\ Known'
        BY <1>2, <2>1, <2>2, ForgetKeeps
    <2>4. \A l \in Clients : Agreed(l)'
        BY <1>2, <1>3, <2>1, <2>2, FirstStepType DEF Agreed
    <2>5. step' \in [Clients -> Steps] /\ inherited' \in SUBSET Clients
        BY <1>2, <2>1, FirstStepType DEF Steps
    <2> QED
        BY <1>1, <1>2, <2>1, <2>3, <2>4, <2>5, SessionOKNext
<1>6. CASE OpenNew(k)
    <2>1. AcquireCreate(k) /\ Forget /\ UNCHANGED <<req, step, inherited>>
        BY <1>6 DEF OpenNew
    <2>2. /\ pc[k] = "posted" /\ pc' = [pc EXCEPT ![k] = "resolving"]
          /\ \E c \in Conns : Steady({c}) /\ sock'[c] = "opening"
        BY <2>1, CreateEffect
    <2>3. peer' \in Peers /\ wire' \in [Conns -> Wires] /\ Known'
        BY <1>2, <2>1, <2>2, ForgetKeeps
    <2>4. \A l \in Clients : Agreed(l)'
        BY <1>2, <1>3, <2>1, <2>2 DEF Agreed
    <2> QED
        BY <1>1, <1>2, <2>1, <2>3, <2>4, SessionOKNext
<1>7. CASE Resolve(k)
    <2>1. /\ pc[k] = "resolving" /\ pc' = [pc EXCEPT ![k] = "connecting"]
          /\ UNCHANGED <<sock, req, step, peer, wire, inherited>>
        BY <1>7 DEF Resolve, Resolved, sessionVars
    <2>2. Known' /\ \A l \in Clients : Agreed(l)'
        BY <1>2, <1>3, <2>1 DEF Agreed, Known
    <2> QED
        BY <1>1, <1>2, <2>1, <2>2, SessionOKNext
<1>8. CASE GetNew(k)
    <2>1. /\ pc[k] = "connecting" /\ sock' = [sock EXCEPT ![conn[k]] = "open"]
          /\ pc' \in {[pc EXCEPT ![k] = "handshaking"], [pc EXCEPT ![k] = "held"]}
          /\ peer' = [peer EXCEPT ![conn[k]] = [to |-> origin[conn[k]], tls |-> FALSE]]
          /\ step' = [step EXCEPT ![k] = IF pc'[k] = "held" THEN FirstStep(req[k]) ELSE "none"]
          /\ UNCHANGED <<req, wire, inherited>>
        BY <1>8 DEF GetNew, Connected, SetStep
    <2>2. conn[k] \in Conns /\ origin[conn[k]] \in Origins
        BY <1>3, <2>1 DEF LeaseInv, LeaseReady, TypeOK, Opening
    <2>3. [to |-> origin[conn[k]], tls |-> FALSE] \in Ends
        BY <2>2 DEF Ends
    <2>4. peer' \in Peers /\ Known'
        BY <1>2, <1>3, <2>1, <2>2, <2>3 DEF Peers, Known
    <2>5. \A l \in Clients : Agreed(l)'
        BY <1>2, <1>3, <2>1, FirstStepType DEF Agreed
    <2>6. step' \in [Clients -> Steps]
        BY <1>2, <2>1, FirstStepType DEF Steps
    <2> QED
        BY <1>1, <1>2, <2>1, <2>4, <2>5, <2>6, SessionOKNext
<1>9. CASE GetNewTls(k)
    <2>1. /\ pc[k] = "handshaking" /\ pc' = [pc EXCEPT ![k] = "held"]
          /\ peer' = [peer EXCEPT ![conn[k]].tls = TRUE]
          /\ step' = [step EXCEPT ![k] = FirstStep(req[k])]
          /\ UNCHANGED <<sock, req, wire, inherited>>
        BY <1>9 DEF GetNewTls, HandshakeDone, SetStep
    <2>2. conn[k] \in Conns /\ sock[conn[k]] = "open"
        BY <1>3, <2>1 DEF LeaseInv, LeaseReady, TypeOK, Opening
    <2>3. peer[conn[k]] \in Ends
        BY <1>2, <2>2 DEF Known
    <2>4. peer' \in Peers /\ Known'
        BY <1>2, <1>3, <2>1, <2>2, <2>3 DEF Peers, Known, Ends
    <2>5. \A l \in Clients : Agreed(l)'
        BY <1>2, <1>3, <2>1, FirstStepType DEF Agreed
    <2>6. step' \in [Clients -> Steps]
        BY <1>2, <2>1, FirstStepType DEF Steps
    <2> QED
        BY <1>1, <1>2, <2>1, <2>4, <2>5, <2>6, SessionOKNext
<1>10. CASE AcquireFails(k)
    <2>1. /\ OpenFailed(k) /\ pc[k] \in Opening /\ Forget /\ req' = [req EXCEPT ![k] = NoReq]
          /\ UNCHANGED <<step, inherited>>
        BY <1>10 DEF AcquireFails, OpenFailed
    <2>2. pc' = [pc EXCEPT ![k] = "out"] /\ Steady({})
        BY <2>1, ReturnEffect
    <2>3. peer' \in Peers /\ wire' \in [Conns -> Wires] /\ Known'
        BY <1>2, <2>1, <2>2, ForgetKeeps
    <2>4. \A l \in Clients : Agreed(l)'
        BY <1>2, <1>3, <2>1, <2>2 DEF Agreed, Opening
    <2>5. req' \in [Clients -> Requests \cup {NoReq}]
        BY <1>2, <2>1
    <2> QED
        BY <1>1, <1>2, <2>1, <2>3, <2>4, <2>5, SessionOKNext
<1>11. CASE PoolTakesBack(k)
    <2>1. /\ ReleaseDrop(k) \/ ReleaseKeep(k)
          /\ pc[k] \in {"reuse", "drop"} /\ Forget /\ UNCHANGED <<req, step, inherited>>
        BY <1>11 DEF PoolTakesBack, ReleaseDrop, ReleaseKeep
    <2>2. pc' = [pc EXCEPT ![k] = "out"] /\ Steady({})
        BY <2>1, ReturnEffect
    <2>3. peer' \in Peers /\ wire' \in [Conns -> Wires] /\ Known'
        BY <1>2, <2>1, <2>2, ForgetKeeps
    <2>4. \A l \in Clients : Agreed(l)'
        BY <1>2, <1>3, <2>1, <2>2 DEF Agreed
    <2> QED
        BY <1>1, <1>2, <2>1, <2>3, <2>4, SessionOKNext
<1> QED
    BY <1>4, <1>5, <1>6, <1>7, <1>8, <1>9, <1>10, <1>11

\* finish() takes the request and the step from the session.
LEMMA FinishOK ==
    ASSUME SessionOK, LeaseInv, LeaseInv', NEW k \in Clients, NEW b \in BOOLEAN, Finish(k, b),
           peer' \in Peers, wire' \in [Conns -> Wires],
           \A c \in Conns : peer[c] \in Ends => peer'[c] \in Ends
    PROVE  SessionOK'
<1>1. TypeOK'
    BY DEF LeaseInv
<1>2. /\ req \in [Clients -> Requests \cup {NoReq}] /\ step \in [Clients -> Steps]
      /\ inherited \in SUBSET Clients /\ \A l \in Clients : Agreed(l)
      /\ Known /\ pc \in [Clients -> PcStates]
    BY SessionOKParts DEF LeaseInv, TypeOK
<1>3. /\ pc[k] = "held" /\ pc' = [pc EXCEPT ![k] = IF b THEN "reuse" ELSE "drop"]
      /\ sock[conn[k]] = "open"
      /\ \A c \in Conns : sock'[c] = IF c = conn[k] /\ ~b THEN "closed" ELSE sock[c]
      /\ req' = [req EXCEPT ![k] = NoReq] /\ step' = [step EXCEPT ![k] = "none"]
      /\ inherited' = inherited \ {k}
    BY FinishEffect
<1>4. Known'
    <2>1. \A c \in Conns : sock'[c] \in {"open", "closed"} => sock[c] \in {"open", "closed"}
        BY <1>3
    <2> QED
        BY <1>2, <2>1 DEF Known
<1>5. \A l \in Clients : Agreed(l)'
    BY <1>2, <1>3 DEF Agreed
<1>6. req' \in [Clients -> Requests \cup {NoReq}] /\ step' \in [Clients -> Steps] /\ inherited' \in SUBSET Clients
    BY <1>2, <1>3 DEF Steps
<1> QED
    BY <1>1, <1>4, <1>5, <1>6, SessionOKNext

\* The session's own handlers.
LEMMA TalkOK ==
    ASSUME SessionOK, LeaseInv, LeaseInv', NEW k \in Clients,
           \/ ConnectWritten(k) \/ ConnectAccepted(k) \/ Upgraded(k) \/ Written(k)
           \/ ReadDone(k) \/ StepFails(k)
    PROVE  SessionOK'
<1>1. TypeOK'
    BY DEF LeaseInv
<1>2. /\ req \in [Clients -> Requests \cup {NoReq}] /\ step \in [Clients -> Steps]
      /\ peer \in Peers /\ wire \in [Conns -> Wires] /\ inherited \in SUBSET Clients
      /\ \A l \in Clients : Agreed(l)
      /\ Known
    BY SessionOKParts
<1>3. step[k] # "none"
    BY DEF ConnectWritten, ConnectAccepted, Upgraded, Written, ReadDone, StepFails
<1>4. pc[k] = "held" /\ req[k] \in Requests
    BY <1>2, <1>3 DEF Agreed
<1>5. conn[k] \in Conns /\ sock[conn[k]] = "open"
    BY <1>4 DEF LeaseInv, LeaseReady, TypeOK, InUse
<1>6. peer[conn[k]] \in Ends
    BY <1>2, <1>5 DEF Known
<1>7. ASSUME NEW s \in Steps \ {"none"}, step' = [step EXCEPT ![k] = s],
             UNCHANGED <<vars, req, wire, inherited>>,
             peer' \in Peers, \A c \in Conns : peer[c] \in Ends => peer'[c] \in Ends
      PROVE  SessionOK'
    <2>1. step' \in [Clients -> Steps] /\ UNCHANGED <<pc, sock>>
        BY <1>2, <1>7 DEF vars
    <2>2. \A l \in Clients : Agreed(l)'
        BY <1>2, <1>4, <1>7, <2>1 DEF Agreed
    <2>3. Known'
        BY <1>2, <1>7, <2>1 DEF Known
    <2> QED
        BY <1>1, <1>2, <1>7, <2>1, <2>2, <2>3, SessionOKNext
<1>8. ASSUME NEW e \in Ends, peer' = [peer EXCEPT ![conn[k]] = e]
      PROVE  peer' \in Peers /\ \A c \in Conns : peer[c] \in Ends => peer'[c] \in Ends
    BY <1>2, <1>5, <1>8 DEF Peers
<1>9. CASE ConnectWritten(k)
    BY <1>2, <1>7, <1>9 DEF ConnectWritten, SetStep, Steps
<1>10. CASE Written(k)
    BY <1>2, <1>7, <1>10 DEF Written, SetStep, Steps
<1>11. CASE Upgraded(k)
    <2>1. peer' = [peer EXCEPT ![conn[k]] = [peer[conn[k]] EXCEPT !.tls = TRUE]]
        BY <1>11 DEF Upgraded
    <2>2. [peer[conn[k]] EXCEPT !.tls = TRUE] \in Ends
        BY <1>6 DEF Ends
    <2>3. peer' \in Peers /\ \A c \in Conns : peer[c] \in Ends => peer'[c] \in Ends
        BY <1>8, <2>1, <2>2
    <2> QED
        BY <1>7, <1>11, <2>3 DEF Upgraded, SetStep, Steps
<1>12. CASE ConnectAccepted(k)
    <2> DEFINE e == [peer[conn[k]] EXCEPT !.to = IF peer[conn[k]] = [to |-> req[k].via, tls |-> FALSE]
                                                 THEN req[k].target ELSE @]
    <2>1. peer' = [peer EXCEPT ![conn[k]] = e]
        BY <1>12 DEF ConnectAccepted
    <2>2. req[k].target \in Origins
        BY <1>4, SessionAssumption
    <2>3. e \in Ends
        BY <1>6, <2>2 DEF Ends
    <2> HIDE DEF e
    <2>4. peer' \in Peers /\ \A c \in Conns : peer[c] \in Ends => peer'[c] \in Ends
        BY <1>8, <2>1, <2>3
    <2>5. CASE Finish(k, FALSE)
        BY <1>2, <1>12, <2>4, <2>5, FinishOK DEF ConnectAccepted
    <2>6. CASE ~Finish(k, FALSE)
        BY <1>7, <1>12, <2>4, <2>6 DEF ConnectAccepted, SetStep, Steps
    <2> QED
        BY <2>5, <2>6
<1>13. CASE ReadDone(k)
    <2>1. PICK framing \in Framings, b \in BOOLEAN :
            \E left \in Leftover(req[k], framing) :
                /\ wire' = [wire EXCEPT ![conn[k]] = IF b THEN left ELSE "spent"]
                /\ Finish(k, b)
        BY <1>13 DEF ReadDone
    <2>2. Leftover(req[k], framing) \subseteq Wires /\ "spent" \in Wires
        BY DEF Leftover, Wires
    <2>3. wire' \in [Conns -> Wires]
        BY <1>2, <2>1, <2>2
    <2> QED
        BY <1>2, <1>13, <2>1, <2>3, FinishOK DEF ReadDone
<1>14. CASE StepFails(k)
    <2>1. wire' \in [Conns -> Wires]
        BY <1>2, <1>14 DEF StepFails, Wires
    <2> QED
        BY <1>2, <1>14, <2>1, FinishOK DEF StepFails
<1> QED
    BY <1>9, <1>10, <1>11, <1>12, <1>13, <1>14

LEMMA SessionOKStep ==
    ASSUME SessionOK, LeaseInv, LeaseInv', [SessionNext]_allVars
    PROVE  SessionOK'
<1>1. TypeOK'
    BY DEF LeaseInv
<1>2. /\ req \in [Clients -> Requests \cup {NoReq}] /\ step \in [Clients -> Steps]
      /\ peer \in Peers /\ wire \in [Conns -> Wires] /\ inherited \in SUBSET Clients
      /\ \A l \in Clients : Agreed(l)
      /\ Known
    BY SessionOKParts
<1>3. CASE PoolReaps
    <2>1. Reap /\ Forget /\ UNCHANGED <<req, step, inherited>>
        BY <1>3 DEF PoolReaps
    <2>2. Steady({}) /\ pc' = pc
        BY <2>1, ReapEffect
    <2>3. peer' \in Peers /\ wire' \in [Conns -> Wires] /\ Known'
        BY <1>2, <2>1, <2>2, ForgetKeeps
    <2>4. \A l \in Clients : Agreed(l)'
        BY <1>2, <2>1, <2>2 DEF Agreed
    <2> QED
        BY <1>1, <1>2, <2>1, <2>3, <2>4, SessionOKNext
<1>4. CASE ClockTicks \/ UNCHANGED allVars
    <2>1. UNCHANGED <<pc, sock, req, step, peer, wire, inherited>>
        BY <1>4 DEF ClockTicks, Tick, allVars, vars, sessionVars
    <2>2. Known' /\ \A l \in Clients : Agreed(l)'
        BY <1>2, <2>1 DEF Known, Agreed
    <2> QED
        BY <1>1, <1>2, <2>1, <2>2, SessionOKNext
<1>5. ASSUME NEW k \in Clients, Progress(k)
      PROVE  SessionOK'
    BY <1>5, AcquireOK, TalkOK DEF Progress
<1> QED
    BY <1>3, <1>4, <1>5, AcquireOK DEF SessionNext

LEMMA SessionOKInductive == SessionSpec => []SessionOK
<1>1. SessionInit /\ LeaseInv => SessionOK
    <2> SUFFICES ASSUME SessionInit, LeaseInv PROVE SessionOK
        OBVIOUS
    <2>1. /\ req = [k \in Clients |-> NoReq] /\ step = [k \in Clients |-> "none"]
          /\ peer = [c \in Conns |-> NoPeer] /\ wire = [c \in Conns |-> "clean"]
          /\ inherited = {} /\ pc = [k \in Clients |-> "out"] /\ sock = [c \in Conns |-> "none"]
        BY DEF SessionInit, Init
    <2>2. \A k \in Clients : Agreed(k)
        BY <2>1 DEF Agreed
    <2>3. Known /\ TypeOK
        BY <2>1 DEF Known, LeaseInv
    <2> QED
        BY <2>1, <2>2, <2>3, SessionOKParts DEF Peers, Steps, Wires
<1>2. SessionOK /\ LeaseInv /\ LeaseInv' /\ [SessionNext]_allVars => SessionOK'
    BY SessionOKStep
<1> QED
    BY <1>1, <1>2, SessionLeases, PTL DEF SessionSpec

-----------------------------------------------------------------------------
(***************************************************************************)
(* Spent connections.  SpentNotLent is inductive once it is said of the    *)
(* socket: a spent stream was closed with the finish() that spent it, what *)
(* is idle or lent is open, and a slot that is used again is a new object. *)
(***************************************************************************)
SpentClosed == \A c \in Conns : wire[c] = "spent" => sock[c] = "closed"

\* finish(), where it spends the connection and where it does not.
LEMMA FinishSpends ==
    ASSUME SpentClosed, LeaseInv, SessionOK, NEW k \in Clients, NEW b \in BOOLEAN, Finish(k, b),
           NEW w \in Wires, wire' = [wire EXCEPT ![conn[k]] = w], w = "spent" => ~b
    PROVE  SpentClosed'
<1>1. wire \in [Conns -> Wires]
    BY SessionOKParts
<1>2. /\ sock[conn[k]] = "open"
      /\ \A c \in Conns : sock'[c] = IF c = conn[k] /\ ~b THEN "closed" ELSE sock[c]
    BY FinishEffect
<1> QED
    BY <1>1, <1>2 DEF SpentClosed

\* A step of the pool that makes, opens or frees a slot.
LEMMA ForgetSpends ==
    ASSUME SpentClosed, Forget,
           Steady({}) \/ \E c \in Conns : Steady({c}) /\ sock[c] = "none"
    PROVE  SpentClosed'
BY DEF SpentClosed, Forget, Steady

LEMMA SpentStep ==
    ASSUME SpentClosed, SessionOK, LeaseInv, LeaseInv', [SessionNext]_allVars
    PROVE  SpentClosed'
<1>1. wire \in [Conns -> Wires] /\ "spent" \in Wires
    BY SessionOKParts DEF Wires
<1>2. ASSUME NEW k \in Clients, ReadDone(k)
      PROVE  SpentClosed'
    <2>1. PICK framing \in Framings, b \in BOOLEAN :
            \E left \in Leftover(req[k], framing) :
                /\ wire' = [wire EXCEPT ![conn[k]] = IF b THEN left ELSE "spent"]
                /\ Finish(k, b)
        BY <1>2 DEF ReadDone
    <2>2. Leftover(req[k], framing) \subseteq Wires \ {"spent"}
        BY DEF Leftover, Wires
    <2> QED
        BY <1>1, <2>1, <2>2, FinishSpends
<1>3. ASSUME NEW k \in Clients, StepFails(k)
      PROVE  SpentClosed'
    BY <1>1, <1>3, FinishSpends DEF StepFails
<1>4. ASSUME NEW k \in Clients, ConnectAccepted(k)
      PROVE  SpentClosed'
    <2>1. CASE Finish(k, FALSE)
        <3>1. \A c \in Conns : sock'[c] = sock[c] \/ sock'[c] = "closed"
            BY <2>1 DEF Finish, Release, LeaseInv, TypeOK
        <3> QED
            BY <1>4, <3>1 DEF ConnectAccepted, SpentClosed
    <2>2. CASE ~Finish(k, FALSE)
        BY <1>4, <2>2 DEF ConnectAccepted, SpentClosed, vars
    <2> QED
        BY <2>1, <2>2
<1>5. ASSUME NEW k \in Clients,
             \/ \E q \in Requests : Run(k, q)
             \/ Resolve(k) \/ ConnectWritten(k) \/ Upgraded(k) \/ Written(k)
      PROVE  SpentClosed'
    BY <1>5 DEF Run, Acquire, Resolve, Resolved, ConnectWritten, Upgraded, Written,
                sessionVars, vars, SpentClosed
<1>6. ASSUME NEW k \in Clients, GetNew(k) \/ GetNewTls(k)
      PROVE  SpentClosed'
    <2>1. CASE GetNew(k)
        <3>1. pc[k] = "connecting" /\ sock' = [sock EXCEPT ![conn[k]] = "open"] /\ wire' = wire
            BY <2>1 DEF GetNew, Connected
        <3>2. sock[conn[k]] = "opening" /\ sock \in [Conns -> SockStates]
            BY <3>1 DEF LeaseInv, LeaseReady, TypeOK
        <3> QED
            BY <3>1, <3>2 DEF SpentClosed
    <2>2. CASE GetNewTls(k)
        BY <2>2 DEF GetNewTls, HandshakeDone, SpentClosed
    <2> QED
        BY <1>6, <2>1, <2>2
<1>7. ASSUME NEW k \in Clients, GetIdle(k) \/ OpenNew(k) \/ AcquireFails(k) \/ PoolTakesBack(k)
      PROVE  SpentClosed'
    <2>1. CASE GetIdle(k)
        BY <2>1, ReuseEffect, ForgetSpends DEF GetIdle
    <2>2. CASE OpenNew(k)
        <3> DEFINE popped == {idle[want[k]][j] : j \in DOMAIN idle[want[k]]}
        <3>1. PICK c \in Conns :
                /\ sock[c] = "none"
                /\ sock' = [x \in Conns |-> IF x = c THEN "opening" ELSE IF x \in popped THEN "none" ELSE sock[x]]
                /\ origin' = [x \in Conns |-> IF x = c THEN want[k] ELSE IF x \in popped THEN NoOrigin ELSE origin[x]]
            BY <2>2 DEF OpenNew, AcquireCreate
        <3> HIDE DEF popped
        <3>2. Steady({c})
            BY <3>1 DEF Steady
        <3> QED
            BY <2>2, <3>1, <3>2, ForgetSpends DEF OpenNew
    <2>3. CASE AcquireFails(k) \/ PoolTakesBack(k)
        BY <2>3, ReturnEffect, ForgetSpends DEF AcquireFails, PoolTakesBack
    <2> QED
        BY <1>7, <2>1, <2>2, <2>3
<1>8. CASE PoolReaps
    BY <1>8, ReapEffect, ForgetSpends DEF PoolReaps
<1>9. CASE ClockTicks \/ UNCHANGED allVars
    BY <1>9 DEF ClockTicks, Tick, allVars, vars, sessionVars, SpentClosed
<1> QED
    BY <1>2, <1>3, <1>4, <1>5, <1>6, <1>7, <1>8, <1>9 DEF SessionNext, Progress

\* A connection on which an operation failed, or whose last response announced
\* the close, is in no deque and used by no session: for any number of sessions
\* and connections, bodies of every framing, skipped ones too, with and without
\* an ssl::context.
THEOREM SpentStaysOut == SessionSpec => []SpentNotLent
<1>1. SessionInit => SpentClosed
    BY DEF SessionInit, SpentClosed
<1>2. SpentClosed /\ SessionOK /\ LeaseInv => SpentNotLent
    <2> SUFFICES ASSUME SpentClosed, SessionOK, LeaseInv, NEW c \in Conns, wire[c] = "spent"
                 PROVE  /\ c \notin Pooled(idle)
                        /\ \A k \in Clients : conn[k] = c => step[k] = "none"
        BY DEF SpentNotLent
    <2>1. sock[c] = "closed"
        BY DEF SpentClosed
    <2>2. c \notin Pooled(idle)
        BY <2>1 DEF LeaseInv, IdleReady, Pooled
    <2>3. ASSUME NEW k \in Clients, conn[k] = c, step[k] # "none"
          PROVE  FALSE
        <3>1. pc[k] = "held"
            BY <2>3, SessionOKParts DEF Agreed
        <3>2. sock[conn[k]] = "open"
            BY <3>1 DEF LeaseInv, LeaseReady, TypeOK, InUse
        <3> QED
            BY <2>1, <2>3, <3>2
    <2> QED
        BY <2>2, <2>3
<1>3. SpentClosed /\ SessionOK /\ LeaseInv /\ LeaseInv' /\ [SessionNext]_allVars => SpentClosed'
    BY SpentStep
<1> QED
    BY <1>1, <1>2, <1>3, SessionOKInductive, SessionLeases, PTL DEF SessionSpec

-----------------------------------------------------------------------------
(***************************************************************************)
(* Who is at the far end.  The invariant has two halves.  A connection at  *)
(* rest, in a deque, handed back or in a session that is not shaking       *)
(* hands, leads to its own origin, with TLS exactly for https, or is a     *)
(* tunnel that TLS was negotiated through.  And a session's step says how  *)
(* far it has got with the connection it was given.  The first half is     *)
(* what acquire relies on and the second what release owes the next one.   *)
(***************************************************************************)
Settled(c) ==
    \/ /\ peer[c].to = origin[c]
       /\ IF origin[c] \in HttpsOrigins THEN peer[c].tls = TRUE ELSE peer[c].tls = FALSE
    \/ peer[c].tls = TRUE /\ peer[c].to \in HttpsOrigins /\ origin[c] \notin HttpsOrigins

Upgrading(k) == pc[k] = "handshaking" \/ step[k] = "handshake"

AtRest(c) == sock[c] = "open" /\ (\A k \in Clients : Upgrading(k) => conn[k] # c) => Settled(c)

\* The session waits for, or has, a connection of the origin it asked for.
Routed(k) ==
    /\ pc[k] = "posted" => want[k] = AcquireOrigin(req[k])
    /\ pc[k] \in Opening \cup {"held"} => origin[conn[k]] = AcquireOrigin(req[k])
    /\ pc[k] = "handshaking" => peer[conn[k]].to = origin[conn[k]] /\ origin[conn[k]] \in HttpsOrigins

Talking(k) ==
    /\ step[k] \in {"connect_write", "connect_read", "handshake"} => Tunnelled(req[k])
    /\ step[k] \in {"connect_write", "connect_read"} /\ k \notin inherited
        => peer[conn[k]] = [to |-> req[k].via, tls |-> FALSE]
    /\ step[k] = "handshake" => /\ peer[conn[k]].to \in HttpsOrigins
                                /\ k \notin inherited => peer[conn[k]].to = req[k].target
    /\ step[k] \in {"write", "read"} /\ k \notin inherited => peer[conn[k]] = ProperPeer(req[k])
    /\ step[k] \in {"write", "read"} /\ req[k].target \in HttpsOrigins => peer[conn[k]].tls = TRUE

ClientInv(k) == Routed(k) /\ Talking(k) /\ (k \in inherited => pc[k] = "held")

PeerInv == (\A k \in Clients : ClientInv(k)) /\ (\A c \in Conns : AtRest(c))

-----------------------------------------------------------------------------
\* A session that a step does not touch, and a connection that it leaves as it is.
LEMMA ClientKept ==
    ASSUME NEW k \in Clients, ClientInv(k), Agreed(k),
           pc'[k] = pc[k], step'[k] = step[k], req'[k] = req[k], want'[k] = want[k], conn'[k] = conn[k],
           k \in inherited' <=> k \in inherited,
           pc[k] \in Opening \cup {"held"} => origin'[conn[k]] = origin[conn[k]],
           pc[k] \in {"handshaking", "held"} => peer'[conn[k]] = peer[conn[k]]
    PROVE  ClientInv(k)'
<1>1. Routed(k)'
    BY DEF ClientInv, Routed, Opening
<1>2. Talking(k)'
    <2>1. CASE pc[k] = "held"
        BY <2>1 DEF ClientInv, Talking
    <2>2. CASE pc[k] # "held"
        BY <2>2 DEF Agreed, Talking
    <2> QED
        BY <2>1, <2>2
<1> QED
    BY <1>1, <1>2 DEF ClientInv

LEMMA RestKept ==
    ASSUME NEW c \in Conns, AtRest(c),
           sock'[c] = "open" => /\ sock[c] = "open" /\ peer'[c] = peer[c] /\ origin'[c] = origin[c]
                                /\ \A k \in Clients : Upgrading(k) /\ conn[k] = c => Upgrading(k)' /\ conn'[k] = c
    PROVE  AtRest(c)'
BY DEF AtRest, Settled

LEMMA EndIs ==
    ASSUME NEW e \in Ends, NEW o, NEW b \in BOOLEAN, e.to = o, e.tls = b
    PROVE  e = [to |-> o, tls |-> b]
BY DEF Ends

\* What the first step needs: the session was given a settled connection of the
\* origin it asked for, and knows whether that had been made a tunnel.
LEMMA StartsRight ==
    ASSUME NEW q \in Requests, NEW e \in Ends, NEW o, o = AcquireOrigin(q),
           \/ e.to = o /\ IF o \in HttpsOrigins THEN e.tls = TRUE ELSE e.tls = FALSE
           \/ e.tls = TRUE /\ e.to \in HttpsOrigins /\ o \notin HttpsOrigins
    PROVE  /\ FirstStep(q) = "connect_write" => Tunnelled(q)
           /\ FirstStep(q) = "connect_write" /\ e.to = o => e = [to |-> q.via, tls |-> FALSE]
           /\ FirstStep(q) = "write" /\ e.to = o => e = ProperPeer(q)
           /\ FirstStep(q) = "write" /\ q.target \in HttpsOrigins => e.tls = TRUE
<1>1. q.target \in Origins /\ q.via \in Origins \cup {NoOrigin} /\ q.via \notin HttpsOrigins
    BY SessionAssumption
<1>2. FirstStep(q) = "connect_write" <=> Tunnelled(q)
    BY DEF FirstStep
<1>3. CASE Tunnelled(q)
    <2>1. o = q.via /\ FirstStep(q) # "write"
        BY <1>3 DEF Tunnelled, AcquireOrigin, FirstStep
    <2>2. e.to = o => e.tls = FALSE
        BY <1>1, <2>1
    <2>3. e.to = o => e = [to |-> q.via, tls |-> FALSE]
        BY <2>1, <2>2, EndIs
    <2> QED
        BY <1>2, <2>1, <2>3
<1>4. CASE ~Tunnelled(q) /\ Proxied(q)
    <2>1. o = q.via /\ q.target \notin HttpsOrigins
        BY <1>4 DEF Tunnelled, AcquireOrigin
    <2>2. e.to = o => e.tls = FALSE
        BY <1>1, <2>1
    <2>3. e.to = o => e = [to |-> q.via, tls |-> FALSE]
        BY <2>1, <2>2, EndIs
    <2>4. ProperPeer(q) = [to |-> q.via, tls |-> FALSE]
        BY <1>4 DEF ProperPeer
    <2> QED
        BY <1>2, <1>4, <2>1, <2>3, <2>4
<1>5. CASE ~Proxied(q)
    <2>1. o = q.target
        BY <1>5 DEF AcquireOrigin
    <2>2. ProperPeer(q) = [to |-> q.target, tls |-> q.target \in HttpsOrigins]
        BY <1>5 DEF ProperPeer
    <2>3. e.to = o => e.tls = (q.target \in HttpsOrigins)
        <3>1. CASE q.target \in HttpsOrigins
            <4>1. e.tls = TRUE
                BY <2>1, <3>1
            <4> QED
                BY <3>1, <4>1, Zenon
        <3>2. CASE q.target \notin HttpsOrigins
            <4>1. e.to = o => e.tls = FALSE
                BY <2>1, <3>2
            <4>2. (q.target \in HttpsOrigins) = FALSE
                BY <3>2
            <4> QED
                BY <4>1, <4>2
        <3> QED
            BY <3>1, <3>2
    <2>4. (q.target \in HttpsOrigins) \in BOOLEAN
        OBVIOUS
    <2>5. e.to = o => e = ProperPeer(q)
        BY <2>1, <2>2, <2>3, <2>4, EndIs
    <2>6. ~Tunnelled(q)
        BY <1>5 DEF Tunnelled
    <2> QED
        BY <1>2, <2>1, <2>5, <2>6
<1> QED
    BY <1>3, <1>4, <1>5 DEF Tunnelled

\* A step touches the sessions in K and the connections in S.
Untouched(K, S) ==
    \A l \in Clients \ K :
        /\ pc'[l] = pc[l] /\ step'[l] = step[l] /\ req'[l] = req[l] /\ want'[l] = want[l]
        /\ conn'[l] = conn[l] /\ (l \in inherited' <=> l \in inherited) /\ conn[l] \notin S

UpgradesTouched(K, S) == \A l \in Clients : l \in K /\ Upgrading(l) => conn[l] \in S

LEMMA OthersKept ==
    ASSUME SessionOK, LeaseInv', PeerInv, NEW K, NEW S,
           Untouched(K, S),
           \A c \in Conns \ S : sock'[c] # "none" => origin'[c] = origin[c] /\ peer'[c] = peer[c]
    PROVE  \A l \in Clients \ K : ClientInv(l)'
<1> SUFFICES ASSUME NEW l \in Clients \ K PROVE ClientInv(l)'
    OBVIOUS
<1>1. ClientInv(l) /\ Agreed(l)
    BY SessionOKParts DEF PeerInv
<1>2. pc[l] \in Opening \cup {"held"} => origin'[conn[l]] = origin[conn[l]] /\ peer'[conn[l]] = peer[conn[l]]
    <2> SUFFICES ASSUME pc[l] \in Opening \cup {"held"}
                 PROVE  origin'[conn[l]] = origin[conn[l]] /\ peer'[conn[l]] = peer[conn[l]]
        OBVIOUS
    <2>1. pc'[l] = pc[l] /\ conn'[l] = conn[l] /\ conn[l] \notin S
        BY DEF Untouched
    <2>2. conn'[l] \in Conns
        BY <2>1 DEF LeaseInv, TypeOK, InUse
    <2>3. sock'[conn'[l]] # "none"
        BY <2>1 DEF LeaseInv, LeaseReady, Opening
    <2> QED
        BY <2>1, <2>2, <2>3
<1>3. pc[l] \in {"handshaking", "held"} => pc[l] \in Opening \cup {"held"}
    BY DEF Opening
<1> QED
    BY <1>1, <1>2, <1>3, ClientKept DEF Untouched

LEMMA OthersAtRest ==
    ASSUME PeerInv, NEW K, NEW S,
           Untouched(K, S), UpgradesTouched(K, S),
           \A c \in Conns \ S : sock'[c] = "open" =>
              sock[c] = "open" /\ origin'[c] = origin[c] /\ peer'[c] = peer[c]
    PROVE  \A c \in Conns \ S : AtRest(c)'
<1> SUFFICES ASSUME NEW c \in Conns \ S PROVE AtRest(c)'
    OBVIOUS
<1>1. AtRest(c)
    BY DEF PeerInv
<1>2. \A l \in Clients : Upgrading(l) /\ conn[l] = c => Upgrading(l)' /\ conn'[l] = c
    BY DEF Upgrading, Untouched, UpgradesTouched
<1> QED
    BY <1>1, <1>2, RestKept

\* The pool's steps that open, reuse or close no connection of another session.
LEMMA PoolPeers ==
    ASSUME SessionOK, LeaseInv, LeaseInv', PeerInv, NEW K, NEW S, Forget, Steady(S),
           Untouched(K, S), UpgradesTouched(K, S)
    PROVE  (\A l \in Clients \ K : ClientInv(l)') /\ (\A c \in Conns \ S : AtRest(c)')
<1>1. \A c \in Conns \ S : sock'[c] # "none" =>
            sock'[c] = sock[c] /\ origin'[c] = origin[c] /\ peer'[c] = peer[c]
    BY DEF Forget, Steady
<1>2. \A c \in Conns \ S : sock'[c] # "none" => origin'[c] = origin[c] /\ peer'[c] = peer[c]
    BY <1>1
<1>3. \A c \in Conns \ S : sock'[c] = "open" =>
            sock[c] = "open" /\ origin'[c] = origin[c] /\ peer'[c] = peer[c]
    BY <1>1
<1>4. \A l \in Clients \ K : ClientInv(l)'
    BY <1>2, OthersKept
<1>5. \A c \in Conns \ S : AtRest(c)'
    BY <1>3, OthersAtRest
<1> QED
    BY <1>4, <1>5

LEMMA PeerInvNext ==
    ASSUME NEW k \in Clients, NEW c,
           ClientInv(k)', \A l \in Clients \ {k} : ClientInv(l)',
           AtRest(c)', \A x \in Conns \ {c} : AtRest(x)'
    PROVE  PeerInv'
BY DEF PeerInv

LEMMA GetIdlePeers ==
    ASSUME SessionOK, LeaseInv, LeaseInv', PeerInv, NEW k \in Clients, GetIdle(k)
    PROVE  PeerInv'
<1>1. /\ AcquireReuse(k) /\ Forget /\ step' = [step EXCEPT ![k] = FirstStep(req[k])] /\ req' = req
      /\ inherited' = IF Relayed(conn'[k]) THEN inherited \cup {k} ELSE inherited
    BY DEF GetIdle, SetStep
<1>2. /\ req \in [Clients -> Requests \cup {NoReq}] /\ step \in [Clients -> Steps]
      /\ Agreed(k) /\ Known /\ ClientInv(k)
    BY SessionOKParts DEF PeerInv
<1>3. pc \in [Clients -> PcStates] /\ conn \in [Clients -> Conns \cup {NoConn}]
    BY DEF LeaseInv, TypeOK
<1>4. pc[k] = "posted" /\ pc' = [pc EXCEPT ![k] = "held"] /\ Steady({})
    BY <1>1, ReuseEffect
<1>5. PICK c \in Conns :
         /\ conn' = [conn EXCEPT ![k] = c] /\ \A l \in Clients : conn[l] # c
         /\ sock[c] = "open" /\ sock'[c] = "open"
         /\ origin[c] = want[k] /\ origin'[c] = origin[c]
    BY <1>1, ReuseEffect
<1>6. want' = [want EXCEPT ![k] = NoOrigin] /\ want \in [Clients -> Origins \cup {NoOrigin}]
    BY <1>1 DEF AcquireReuse, LeaseInv, TypeOK
<1>7. (\A l \in Clients \ {k} : ClientInv(l)') /\ (\A x \in Conns : AtRest(x)')
    <2>1. Untouched({k}, {})
        BY <1>1, <1>2, <1>3, <1>4, <1>5, <1>6 DEF Untouched
    <2>2. UpgradesTouched({k}, {})
        BY <1>2, <1>4 DEF Agreed, Upgrading, UpgradesTouched
    <2>3. (\A l \in Clients \ {k} : ClientInv(l)') /\ (\A x \in Conns \ {} : AtRest(x)')
        BY <1>1, <1>4, <2>1, <2>2, PoolPeers
    <2> QED
        BY <2>3
<1>8. ClientInv(k)'
    <2>1. Settled(c)
        BY <1>5 DEF PeerInv, AtRest
    <2>2. peer[c] \in Ends /\ peer'[c] = peer[c]
        BY <1>1, <1>2, <1>5 DEF Known, Forget
    <2>3. req[k] \in Requests /\ k \notin inherited /\ origin[c] = AcquireOrigin(req[k])
        BY <1>2, <1>4, <1>5 DEF Agreed, ClientInv, Routed
    <2>4. k \notin inherited' => peer[c].to = origin[c]
        BY <1>1, <1>3, <1>5 DEF Relayed
    <2>5. /\ FirstStep(req[k]) = "connect_write" => Tunnelled(req[k])
          /\ FirstStep(req[k]) = "connect_write" /\ peer[c].to = origin[c]
                => peer[c] = [to |-> req[k].via, tls |-> FALSE]
          /\ FirstStep(req[k]) = "write" /\ peer[c].to = origin[c] => peer[c] = ProperPeer(req[k])
          /\ FirstStep(req[k]) = "write" /\ req[k].target \in HttpsOrigins => peer[c].tls = TRUE
        BY <2>1, <2>2, <2>3, StartsRight DEF Settled
    <2>6. /\ step'[k] = FirstStep(req[k]) /\ conn'[k] = c /\ pc'[k] = "held" /\ req'[k] = req[k]
          /\ step'[k] \in {"connect_write", "write"}
        BY <1>1, <1>2, <1>3, <1>4, <1>5, FirstStepType
    <2>7. Talking(k)'
        BY <2>2, <2>4, <2>5, <2>6 DEF Talking
    <2>8. Routed(k)'
        BY <1>5, <2>3, <2>6 DEF Routed
    <2> QED
        BY <2>6, <2>7, <2>8 DEF ClientInv
<1> QED
    BY <1>7, <1>8 DEF PeerInv

LEMMA OpenNewPeers ==
    ASSUME SessionOK, LeaseInv, LeaseInv', PeerInv, NEW k \in Clients, OpenNew(k)
    PROVE  PeerInv'
<1>1. AcquireCreate(k) /\ Forget /\ UNCHANGED <<req, step, inherited>>
    BY DEF OpenNew
<1>2. Agreed(k) /\ ClientInv(k)
    BY SessionOKParts DEF PeerInv
<1>3. /\ pc \in [Clients -> PcStates] /\ conn \in [Clients -> Conns \cup {NoConn}]
      /\ want \in [Clients -> Origins \cup {NoOrigin}] /\ NoConn \notin Conns
    BY PoolAssumption DEF LeaseInv, TypeOK
<1>4. pc[k] = "posted" /\ pc' = [pc EXCEPT ![k] = "resolving"]
    BY <1>1, CreateEffect
<1>5. PICK c \in Conns :
         /\ conn' = [conn EXCEPT ![k] = c] /\ Steady({c})
         /\ sock'[c] = "opening" /\ origin'[c] = want[k]
    BY <1>1, CreateEffect
<1>6. want' = [want EXCEPT ![k] = NoOrigin]
    BY <1>1 DEF AcquireCreate
<1>7. \A l \in Clients \ {k} : conn[l] # c
    <2>1. \A l \in Clients \ {k} : conn'[l] = conn[l] /\ conn'[k] = c
        BY <1>3, <1>5
    <2>2. \A l \in Clients : l # k /\ conn'[k] = conn'[l] => conn'[k] = NoConn
        BY DEF LeaseInv, ExclusiveLease
    <2> QED
        BY <1>3, <2>1, <2>2
<1>8. Untouched({k}, {c})
    BY <1>1, <1>3, <1>4, <1>5, <1>6, <1>7 DEF Untouched
<1>9. UpgradesTouched({k}, {c})
    BY <1>2, <1>4 DEF Agreed, Upgrading, UpgradesTouched
<1>10. (\A l \in Clients \ {k} : ClientInv(l)') /\ (\A x \in Conns \ {c} : AtRest(x)')
    BY <1>1, <1>5, <1>8, <1>9, PoolPeers
<1>11. AtRest(c)'
    BY <1>5 DEF AtRest
<1>12. ClientInv(k)'
    <2>1. pc'[k] = "resolving" /\ conn'[k] = c /\ req'[k] = req[k] /\ step'[k] = "none" /\ k \notin inherited'
        BY <1>1, <1>2, <1>3, <1>4, <1>5 DEF Agreed, ClientInv
    <2>2. origin'[c] = AcquireOrigin(req[k])
        BY <1>2, <1>4, <1>5 DEF ClientInv, Routed
    <2>3. Routed(k)'
        BY <2>1, <2>2 DEF Routed
    <2>4. Talking(k)'
        BY <2>1 DEF Talking
    <2> QED
        BY <2>1, <2>3, <2>4 DEF ClientInv
<1> QED
    BY <1>10, <1>11, <1>12, PeerInvNext

\* The steps that change the far end of the session's own connection.
OwnStep(k, c, e) ==
    /\ c = conn[k] /\ peer' = [peer EXCEPT ![c] = e]
    /\ \A l \in Clients \ {k} : pc'[l] = pc[l] /\ step'[l] = step[l]
    /\ \A x \in Conns \ {c} : sock'[x] = sock[x]
    /\ UNCHANGED <<origin, want, conn, req, inherited>>

LEMMA OwnPeer ==
    ASSUME SessionOK, LeaseInv, LeaseInv', PeerInv, NEW k \in Clients, NEW c \in Conns,
           NEW e, OwnStep(k, c, e)
    PROVE  /\ peer'[c] = e
           /\ \A l \in Clients \ {k} : ClientInv(l)'
           /\ \A x \in Conns \ {c} : AtRest(x)'
<1>1. peer \in Peers /\ NoConn \notin Conns
    BY SessionOKParts, PoolAssumption
<1>2. peer'[c] = e /\ \A x \in Conns \ {c} : peer'[x] = peer[x]
    BY <1>1 DEF Peers, OwnStep
<1>3. \A l \in Clients \ {k} : conn[l] # c
    BY <1>1 DEF LeaseInv, ExclusiveLease, OwnStep
<1>4. Untouched({k}, {c})
    BY <1>3 DEF Untouched, OwnStep
<1>5. UpgradesTouched({k}, {c})
    BY DEF UpgradesTouched, OwnStep
<1>6. \A x \in Conns \ {c} : sock'[x] # "none" => origin'[x] = origin[x] /\ peer'[x] = peer[x]
    BY <1>2 DEF OwnStep
<1>7. \A x \in Conns \ {c} : sock'[x] = "open" =>
            sock[x] = "open" /\ origin'[x] = origin[x] /\ peer'[x] = peer[x]
    BY <1>2 DEF OwnStep
<1>8. \A l \in Clients \ {k} : ClientInv(l)'
    BY <1>4, <1>6, OthersKept
<1>9. \A x \in Conns \ {c} : AtRest(x)'
    BY <1>4, <1>5, <1>7, OthersAtRest
<1> QED
    BY <1>1, <1>2, <1>8, <1>9

\* A fresh connection, with its own handshake done where it needs one, is settled.
LEMMA GetNewPeers ==
    ASSUME SslCtx = TRUE, SessionOK, LeaseInv, LeaseInv', PeerInv, NEW k \in Clients,
           GetNew(k) \/ GetNewTls(k)
    PROVE  PeerInv'
<1>0. PICK c \in Conns : c = conn[k]
    BY DEF GetNew, Connected, GetNewTls, HandshakeDone, LeaseInv, TypeOK, Opening
<1>1. /\ pc[k] \in {"connecting", "handshaking"}
      /\ \A l \in Clients \ {k} : pc'[l] = pc[l] /\ step'[l] = step[l]
      /\ \A x \in Conns \ {c} : sock'[x] = sock[x]
      /\ UNCHANGED <<origin, want, conn, req, inherited>>
    <2>1. pc \in [Clients -> PcStates] /\ sock \in [Conns -> SockStates] /\ step \in [Clients -> Steps]
        BY SessionOKParts DEF LeaseInv, TypeOK
    <2> QED
        BY <1>0, <2>1 DEF GetNew, Connected, GetNewTls, HandshakeDone, SetStep
<1>2. /\ Agreed(k) /\ ClientInv(k) /\ Known /\ step \in [Clients -> Steps] /\ pc \in [Clients -> PcStates]
      /\ origin[c] \in Origins /\ TlsOrigins = HttpsOrigins
    BY <1>0, <1>1, SessionOKParts, SessionAssumption DEF PeerInv, LeaseInv, LeaseReady, TypeOK, Opening
<1>3. /\ k \notin inherited' /\ req'[k] = req[k] /\ req[k] \in Requests
      /\ origin[c] = AcquireOrigin(req[k])
    BY <1>0, <1>1, <1>2, SessionOKParts DEF Agreed, ClientInv, Routed, Opening
<1>4. CASE GetNew(k)
    <2>0. PICK e \in Ends : e = [to |-> origin[c], tls |-> FALSE]
        BY <1>2 DEF Ends
    <2>1. /\ pc[k] = "connecting" /\ peer' = [peer EXCEPT ![c] = e]
          /\ pc'[k] = IF origin[c] \in HttpsOrigins THEN "handshaking" ELSE "held"
          /\ step'[k] = IF pc'[k] = "held" THEN FirstStep(req[k]) ELSE "none"
        BY <1>0, <1>2, <1>4, <2>0 DEF GetNew, Connected, SetStep
    <2>2. e.to = origin[c] /\ e.tls = FALSE
        BY <2>0
    <2>3. /\ peer'[c] = e /\ \A l \in Clients \ {k} : ClientInv(l)'
          /\ \A x \in Conns \ {c} : AtRest(x)'
        <3>1. OwnStep(k, c, e)
            BY <1>0, <1>1, <2>1 DEF OwnStep
        <3> QED
            BY <3>1, OwnPeer
    <2>4. CASE origin[c] \in HttpsOrigins
        <3>1. pc'[k] = "handshaking" /\ step'[k] = "none"
            BY <2>1, <2>4
        <3>2. AtRest(c)'
            BY <1>0, <1>1, <3>1 DEF AtRest, Upgrading
        <3>3. Routed(k)'
            BY <1>0, <1>1, <1>3, <2>2, <2>3, <2>4, <3>1 DEF Routed
        <3>4. Talking(k)'
            BY <3>1 DEF Talking
        <3>5. ClientInv(k)'
            BY <1>3, <3>3, <3>4 DEF ClientInv
        <3> QED
            BY <2>3, <3>2, <3>5, PeerInvNext
    <2>5. CASE origin[c] \notin HttpsOrigins
        <3>1. pc'[k] = "held" /\ step'[k] = FirstStep(req[k])
            BY <2>1, <2>5
        <3>2. Settled(c)'
            BY <1>1, <2>2, <2>3, <2>5 DEF Settled
        <3>3. AtRest(c)'
            BY <3>2 DEF AtRest
        <3>4. /\ FirstStep(req[k]) = "connect_write" => Tunnelled(req[k])
              /\ FirstStep(req[k]) = "connect_write" /\ e.to = origin[c]
                    => e = [to |-> req[k].via, tls |-> FALSE]
              /\ FirstStep(req[k]) = "write" /\ e.to = origin[c] => e = ProperPeer(req[k])
              /\ FirstStep(req[k]) = "write" /\ req[k].target \in HttpsOrigins => e.tls = TRUE
            BY <1>3, <2>2, <2>5, StartsRight
        <3>5. Talking(k)'
            BY <1>0, <1>1, <1>3, <2>2, <2>3, <3>1, <3>4, FirstStepType DEF Talking
        <3>6. Routed(k)'
            BY <1>0, <1>1, <1>3, <3>1 DEF Routed
        <3>7. ClientInv(k)'
            BY <1>3, <3>5, <3>6 DEF ClientInv
        <3> QED
            BY <2>3, <3>3, <3>7, PeerInvNext
    <2> QED
        BY <2>4, <2>5
<1>5. CASE GetNewTls(k)
    <2>1. pc[k] = "handshaking" /\ pc'[k] = "held" /\ step'[k] = FirstStep(req[k])
        BY <1>0, <1>2, <1>5 DEF GetNewTls, HandshakeDone, SetStep
    <2>2. /\ peer[c] \in Ends /\ peer[c].to = origin[c]
          /\ origin[c] \in HttpsOrigins
        BY <1>0, <1>2, <2>1 DEF LeaseInv, LeaseReady, Known, ClientInv, Routed
    <2>3. PICK e \in Ends : /\ e.to = origin[c] /\ e.tls = TRUE
                            /\ peer' = [peer EXCEPT ![c] = e]
        <3>1. [peer[c] EXCEPT !.tls = TRUE] \in Ends
            BY <2>2 DEF Ends
        <3>2. peer' = [peer EXCEPT ![c] = [peer[c] EXCEPT !.tls = TRUE]]
            BY <1>0, <1>5 DEF GetNewTls
        <3> QED
            BY <2>2, <3>1, <3>2 DEF Ends
    <2>4. /\ peer'[c] = e /\ \A l \in Clients \ {k} : ClientInv(l)'
          /\ \A x \in Conns \ {c} : AtRest(x)'
        <3>1. OwnStep(k, c, e)
            BY <1>0, <1>1, <2>3 DEF OwnStep
        <3> QED
            BY <3>1, OwnPeer
    <2>5. Settled(c)'
        BY <1>1, <2>2, <2>3, <2>4 DEF Settled
    <2>6. AtRest(c)'
        BY <2>5 DEF AtRest
    <2>7. /\ FirstStep(req[k]) = "connect_write" => Tunnelled(req[k])
          /\ FirstStep(req[k]) = "connect_write" /\ e.to = origin[c]
                => e = [to |-> req[k].via, tls |-> FALSE]
          /\ FirstStep(req[k]) = "write" /\ e.to = origin[c] => e = ProperPeer(req[k])
          /\ FirstStep(req[k]) = "write" /\ req[k].target \in HttpsOrigins => e.tls = TRUE
        BY <1>3, <2>2, <2>3, StartsRight
    <2>8. Talking(k)'
        BY <1>0, <1>1, <1>3, <2>1, <2>3, <2>4, <2>7, FirstStepType DEF Talking
    <2>9. Routed(k)'
        BY <1>0, <1>1, <1>3, <2>1 DEF Routed
    <2>10. ClientInv(k)'
        BY <1>3, <2>8, <2>9 DEF ClientInv
    <2> QED
        BY <2>4, <2>6, <2>10, PeerInvNext
<1> QED
    BY <1>4, <1>5

\* acquire() called, the resolver's answer, and connections that go.
LEMMA QuietPeers ==
    ASSUME SessionOK, LeaseInv, LeaseInv', PeerInv, NEW k \in Clients,
           (\E q \in Requests : Run(k, q)) \/ Resolve(k) \/ AcquireFails(k) \/ PoolTakesBack(k)
    PROVE  PeerInv'
<1>1. /\ Agreed(k) /\ ClientInv(k) /\ req \in [Clients -> Requests \cup {NoReq}]
      /\ pc \in [Clients -> PcStates] /\ conn \in [Clients -> Conns \cup {NoConn}]
      /\ want \in [Clients -> Origins \cup {NoOrigin}] /\ NoConn \notin Conns
    BY SessionOKParts, PoolAssumption DEF PeerInv, LeaseInv, TypeOK
<1>2. ASSUME NEW q \in Requests, Run(k, q)
      PROVE  PeerInv'
    <2>1. /\ pc[k] = "out" /\ pc' = [pc EXCEPT ![k] = "posted"]
          /\ want' = [want EXCEPT ![k] = AcquireOrigin(q)] /\ req' = [req EXCEPT ![k] = q]
          /\ UNCHANGED <<sock, origin, conn, step, peer, inherited>>
        BY <1>2 DEF Run, Acquire
    <2>2. Untouched({k}, {})
        BY <1>1, <2>1 DEF Untouched
    <2>3. UpgradesTouched({k}, {})
        BY <1>1, <2>1 DEF Agreed, Upgrading, UpgradesTouched
    <2>4. \A l \in Clients \ {k} : ClientInv(l)'
        BY <2>1, <2>2, OthersKept
    <2>5. \A c \in Conns \ {} : AtRest(c)'
        BY <2>1, <2>2, <2>3, OthersAtRest
    <2>6. /\ pc'[k] = "posted" /\ want'[k] = AcquireOrigin(q) /\ req'[k] = q /\ step'[k] = "none"
          /\ k \notin inherited'
        BY <1>1, <2>1 DEF Agreed, ClientInv
    <2>7. Routed(k)' /\ Talking(k)'
        BY <2>6 DEF Routed, Talking, Opening
    <2> QED
        BY <2>4, <2>5, <2>6, <2>7 DEF PeerInv, ClientInv
<1>3. CASE Resolve(k)
    <2>1. /\ pc[k] = "resolving" /\ pc' = [pc EXCEPT ![k] = "connecting"]
          /\ UNCHANGED <<sock, origin, want, conn, req, step, peer, inherited>>
        BY <1>3 DEF Resolve, Resolved, sessionVars
    <2>2. Untouched({k}, {})
        BY <1>1, <2>1 DEF Untouched
    <2>3. UpgradesTouched({k}, {})
        BY <1>1, <2>1 DEF Agreed, Upgrading, UpgradesTouched
    <2>4. \A l \in Clients \ {k} : ClientInv(l)'
        BY <2>1, <2>2, OthersKept
    <2>5. \A c \in Conns \ {} : AtRest(c)'
        BY <2>1, <2>2, <2>3, OthersAtRest
    <2>6. pc'[k] = "connecting" /\ step'[k] = "none" /\ k \notin inherited'
        BY <1>1, <2>1 DEF Agreed, ClientInv
    <2>7. Routed(k)' /\ Talking(k)'
        BY <1>1, <2>1, <2>6 DEF ClientInv, Routed, Talking, Opening
    <2> QED
        BY <2>4, <2>5, <2>6, <2>7 DEF PeerInv, ClientInv
<1>4. ASSUME pc'[k] = "out", step'[k] = "none", k \notin inherited'
      PROVE  ClientInv(k)'
    BY <1>4 DEF ClientInv, Routed, Talking, Opening
<1>5. CASE AcquireFails(k)
    <2>1. /\ OpenFailed(k) /\ pc[k] \in Opening /\ Forget /\ req' = [req EXCEPT ![k] = NoReq]
          /\ UNCHANGED <<step, inherited>>
        BY <1>5 DEF AcquireFails, OpenFailed
    <2>2. PICK c \in Conns : c = conn[k]
        BY <1>1, <2>1 DEF LeaseInv, TypeOK
    <2>3. /\ pc' = [pc EXCEPT ![k] = "out"] /\ conn' = [conn EXCEPT ![k] = NoConn] /\ want' = want
          /\ Steady({c}) /\ sock'[c] = "none"
        BY <2>1, <2>2, ReturnEffect DEF Steady, OpenFailed, Dispose
    <2>4. \A l \in Clients \ {k} : conn[l] # c
        BY <1>1, <2>2 DEF LeaseInv, ExclusiveLease
    <2>5. Untouched({k}, {c})
        BY <1>1, <2>1, <2>3, <2>4 DEF Untouched
    <2>6. UpgradesTouched({k}, {c})
        BY <2>2 DEF UpgradesTouched
    <2>7. (\A l \in Clients \ {k} : ClientInv(l)') /\ (\A x \in Conns \ {c} : AtRest(x)')
        BY <2>1, <2>3, <2>5, <2>6, PoolPeers
    <2>8. AtRest(c)'
        BY <2>3 DEF AtRest
    <2>9. ClientInv(k)'
        BY <1>1, <1>4, <2>1, <2>3 DEF Agreed, ClientInv, Opening
    <2> QED
        BY <2>7, <2>8, <2>9, PeerInvNext
<1>6. CASE PoolTakesBack(k)
    <2>1. /\ ReleaseDrop(k) \/ ReleaseKeep(k)
          /\ pc[k] \in {"reuse", "drop"} /\ Forget /\ UNCHANGED <<req, step, inherited>>
        BY <1>6 DEF PoolTakesBack, ReleaseDrop, ReleaseKeep
    <2>2. /\ pc' = [pc EXCEPT ![k] = "out"] /\ conn' = [conn EXCEPT ![k] = NoConn] /\ want' = want
          /\ Steady({})
        BY <2>1, ReturnEffect
    <2>3. Untouched({k}, {})
        BY <1>1, <2>1, <2>2 DEF Untouched
    <2>4. UpgradesTouched({k}, {})
        BY <1>1, <2>1 DEF Agreed, Upgrading, UpgradesTouched
    <2>5. (\A l \in Clients \ {k} : ClientInv(l)') /\ (\A x \in Conns \ {} : AtRest(x)')
        BY <2>1, <2>2, <2>3, <2>4, PoolPeers
    <2>6. ClientInv(k)'
        BY <1>1, <1>4, <2>1, <2>2 DEF Agreed, ClientInv
    <2> QED
        BY <2>5, <2>6 DEF PeerInv
<1> QED
    BY <1>2, <1>3, <1>5, <1>6

\* finish(): a connection is given back after a response only at rest, and is
\* closed in any other case.
LEMMA FinishPeers ==
    ASSUME SessionOK, LeaseInv, LeaseInv', PeerInv, NEW k \in Clients, NEW b \in BOOLEAN,
           Finish(k, b), step[k] = "read" \/ ~b, UNCHANGED peer
    PROVE  PeerInv'
<1>1. /\ Agreed(k) /\ pc \in [Clients -> PcStates] /\ req \in [Clients -> Requests \cup {NoReq}]
      /\ step \in [Clients -> Steps] /\ NoConn \notin Conns
    BY SessionOKParts, PoolAssumption DEF LeaseInv, TypeOK
<1>2. PICK c \in Conns : c = conn[k]
    BY FinishEffect
<1>3. /\ pc[k] = "held" /\ pc' = [pc EXCEPT ![k] = IF b THEN "reuse" ELSE "drop"]
      /\ \A x \in Conns : sock'[x] = IF x = c /\ ~b THEN "closed" ELSE sock[x]
      /\ UNCHANGED <<origin, want, conn>>
      /\ req' = [req EXCEPT ![k] = NoReq] /\ step' = [step EXCEPT ![k] = "none"]
      /\ inherited' = inherited \ {k}
    BY <1>2, FinishEffect
<1>4. \A l \in Clients \ {k} : conn[l] # c
    BY <1>1, <1>2 DEF LeaseInv, ExclusiveLease
<1>5. Untouched({k}, {}) /\ Untouched({k}, {c})
    BY <1>1, <1>3, <1>4 DEF Untouched
<1>6. \A l \in Clients \ {k} : ClientInv(l)'
    BY <1>3, <1>5, OthersKept
<1>7. ClientInv(k)'
    <2>1. pc'[k] \in {"reuse", "drop"} /\ step'[k] = "none" /\ k \notin inherited'
        BY <1>1, <1>3
    <2> QED
        BY <2>1 DEF ClientInv, Routed, Talking, Opening
<1>8. CASE ~b
    <2>1. UpgradesTouched({k}, {c})
        BY <1>2 DEF UpgradesTouched
    <2>2. \A x \in Conns \ {c} : AtRest(x)'
        BY <1>3, <1>5, <2>1, OthersAtRest
    <2>3. AtRest(c)'
        BY <1>3, <1>8 DEF AtRest
    <2> QED
        BY <1>6, <1>7, <2>2, <2>3, PeerInvNext
<1>9. CASE b
    <2>1. UpgradesTouched({k}, {})
        BY <1>3, <1>9 DEF UpgradesTouched, Upgrading
    <2>2. \A x \in Conns \ {} : AtRest(x)'
        BY <1>3, <1>5, <2>1, OthersAtRest
    <2> QED
        BY <1>6, <1>7, <2>2 DEF PeerInv
<1> QED
    BY <1>8, <1>9

LEMMA ConnectPeers ==
    ASSUME SslCtx = TRUE, SessionOK, LeaseInv, LeaseInv', PeerInv, NEW k \in Clients,
           ConnectAccepted(k) \/ Upgraded(k)
    PROVE  PeerInv'
<1>1. /\ step[k] \in {"connect_read", "handshake"}
      /\ UNCHANGED <<vars, req, inherited>>
      /\ \E s \in Steps : step' = [step EXCEPT ![k] = s]
    BY DEF ConnectAccepted, Upgraded, SetStep, Steps
<1>2. /\ Agreed(k) /\ ClientInv(k) /\ Known /\ step \in [Clients -> Steps]
      /\ UNCHANGED <<pc, sock, origin, want, conn>>
    BY <1>1, SessionOKParts DEF PeerInv, vars
<1>3. pc[k] = "held" /\ req[k] \in Requests
    BY <1>1, <1>2, SessionOKParts DEF Agreed
<1>4. PICK c \in Conns : c = conn[k] /\ sock[c] = "open"
    BY <1>3 DEF LeaseInv, LeaseReady, TypeOK, InUse
<1>5. /\ peer[c] \in Ends /\ Tunnelled(req[k]) /\ origin[c] = req[k].via
      /\ req[k].target \in HttpsOrigins /\ req[k].target \in Origins /\ req[k].via \notin HttpsOrigins
    BY <1>1, <1>2, <1>3, <1>4, SessionAssumption
       DEF Known, ClientInv, Routed, Talking, AcquireOrigin, Tunnelled
<1>6. Routed(k)'
    BY <1>1, <1>2, <1>3 DEF ClientInv, Routed, Opening
<1>7. CASE ConnectAccepted(k)
    <2>1. step[k] = "connect_read" /\ step'[k] = "handshake"
        BY <1>2, <1>7 DEF ConnectAccepted, SetStep
    <2>2. Settled(c)
        <3>1. \A l \in Clients : Upgrading(l) => conn[l] # c
            BY <1>3, <1>4, <2>1, PoolAssumption DEF LeaseInv, ExclusiveLease, Upgrading
        <3> QED
            BY <1>4, <3>1 DEF PeerInv, AtRest
    <2>3. PICK e \in Ends :
            /\ peer' = [peer EXCEPT ![c] = e] /\ e.to \in HttpsOrigins
            /\ k \notin inherited => e.to = req[k].target
        <3> DEFINE d == [peer[c] EXCEPT !.to = IF peer[c] = [to |-> req[k].via, tls |-> FALSE]
                                                 THEN req[k].target ELSE @]
        <3>1. peer' = [peer EXCEPT ![c] = d]
            BY <1>4, <1>7 DEF ConnectAccepted
        <3>2. d \in Ends
            BY <1>5 DEF Ends
        <3>3. CASE peer[c] = [to |-> req[k].via, tls |-> FALSE]
            BY <1>5, <3>1, <3>2, <3>3 DEF Ends
        <3>4. CASE peer[c] # [to |-> req[k].via, tls |-> FALSE]
            <4>1. k \in inherited
                BY <1>2, <1>4, <2>1, <3>4 DEF ClientInv, Talking
            <4>2. ~(peer[c].to = origin[c] /\ peer[c].tls = FALSE)
                BY <1>5, <3>4, EndIs
            <4>3. peer[c].to \in HttpsOrigins
                BY <1>5, <2>2, <4>2 DEF Settled
            <4>4. d.to = peer[c].to
                BY <1>5, <3>4 DEF Ends
            <4> QED
                BY <3>1, <3>2, <4>1, <4>3, <4>4
        <3> QED
            BY <3>3, <3>4
    <2>4. OwnStep(k, c, e)
        BY <1>1, <1>2, <1>4, <2>3 DEF OwnStep
    <2>5. /\ peer'[c] = e /\ \A l \in Clients \ {k} : ClientInv(l)'
          /\ \A x \in Conns \ {c} : AtRest(x)'
        BY <2>4, OwnPeer
    <2>6. AtRest(c)'
        BY <1>2, <1>4, <2>1 DEF AtRest, Upgrading
    <2>7. Talking(k)'
        BY <1>1, <1>2, <1>4, <1>5, <2>1, <2>3, <2>5 DEF Talking
    <2>8. ClientInv(k)'
        BY <1>1, <1>2, <1>3, <1>6, <2>7 DEF ClientInv
    <2> QED
        BY <2>5, <2>6, <2>8, PeerInvNext
<1>8. CASE Upgraded(k)
    <2>1. step[k] = "handshake" /\ step'[k] = "write"
        BY <1>2, <1>8 DEF Upgraded, SetStep
    <2>2. /\ peer[c].to \in HttpsOrigins
          /\ k \notin inherited => peer[c].to = req[k].target
        BY <1>2, <1>4, <2>1 DEF ClientInv, Talking
    <2>3. PICK e \in Ends :
            peer' = [peer EXCEPT ![c] = e] /\ e.to = peer[c].to /\ e.tls = TRUE
        <3>1. [peer[c] EXCEPT !.tls = TRUE] \in Ends
            BY <1>5 DEF Ends
        <3>2. peer' = [peer EXCEPT ![c] = [peer[c] EXCEPT !.tls = TRUE]]
            BY <1>4, <1>8 DEF Upgraded
        <3> QED
            BY <1>5, <3>1, <3>2 DEF Ends
    <2>4. OwnStep(k, c, e)
        BY <1>1, <1>2, <1>4, <2>3 DEF OwnStep
    <2>5. /\ peer'[c] = e /\ \A l \in Clients \ {k} : ClientInv(l)'
          /\ \A x \in Conns \ {c} : AtRest(x)'
        BY <2>4, OwnPeer
    <2>6. AtRest(c)'
        <3>1. peer'[c].to \in HttpsOrigins /\ peer'[c].tls = TRUE
            BY <2>2, <2>3, <2>5
        <3>2. origin'[c] \notin HttpsOrigins
            BY <1>2, <1>5
        <3> QED
            BY <3>1, <3>2 DEF AtRest, Settled
    <2>7. e = [to |-> peer[c].to, tls |-> TRUE]
        BY <2>3, EndIs
    <2>8. ProperPeer(req[k]) = [to |-> req[k].target, tls |-> TRUE]
        <3>1. ProperPeer(req[k]) = [to |-> req[k].target, tls |-> req[k].target \in HttpsOrigins]
            BY <1>5 DEF ProperPeer
        <3>2. (req[k].target \in HttpsOrigins) = TRUE
            BY <1>5
        <3> QED
            BY <3>1, <3>2
    <2>9. Talking(k)'
        <3>1. step'[k] = "write" /\ conn'[k] = c /\ req'[k] = req[k] /\ inherited' = inherited
            BY <1>1, <1>2, <1>4, <2>1
        <3>2. k \notin inherited => peer'[c] = ProperPeer(req[k])
            BY <2>2, <2>5, <2>7, <2>8
        <3>3. peer'[c].tls = TRUE
            BY <2>3, <2>5
        <3> QED
            BY <3>1, <3>2, <3>3 DEF Talking
    <2>10. ClientInv(k)'
        BY <1>1, <1>2, <1>3, <1>6, <2>9 DEF ClientInv
    <2> QED
        BY <2>5, <2>6, <2>10, PeerInvNext
<1> QED
    BY <1>7, <1>8

LEMMA PeerStep ==
    ASSUME SslCtx = TRUE, SessionOK, LeaseInv, LeaseInv', PeerInv, [SessionNext]_allVars
    PROVE  PeerInv'
<1>1. ASSUME NEW k \in Clients, ConnectWritten(k) \/ Written(k)
      PROVE  PeerInv'
    <2>1. /\ \/ step[k] = "connect_write" /\ step' = [step EXCEPT ![k] = "connect_read"]
             \/ step[k] = "write" /\ step' = [step EXCEPT ![k] = "read"]
          /\ UNCHANGED <<pc, sock, origin, want, conn, req, peer, inherited>>
        BY <1>1 DEF ConnectWritten, Written, SetStep, vars
    <2>2. step \in [Clients -> Steps] /\ Agreed(k) /\ ClientInv(k)
        BY SessionOKParts DEF PeerInv
    <2>3. Untouched({k}, {})
        BY <2>1, <2>2 DEF Untouched
    <2>4. UpgradesTouched({k}, {})
        BY <2>1, <2>2 DEF Agreed, Upgrading, UpgradesTouched
    <2>5. \A l \in Clients \ {k} : ClientInv(l)'
        BY <2>1, <2>3, OthersKept
    <2>6. \A c \in Conns \ {} : AtRest(c)'
        BY <2>1, <2>3, <2>4, OthersAtRest
    <2>7. Routed(k)'
        BY <2>1, <2>2 DEF ClientInv, Routed
    <2>8. Talking(k)'
        BY <2>1, <2>2 DEF ClientInv, Talking
    <2> QED
        BY <2>1, <2>2, <2>5, <2>6, <2>7, <2>8 DEF PeerInv, ClientInv
<1>2. CASE PoolReaps
    <2>1. Reap /\ Forget /\ UNCHANGED <<req, step, inherited>>
        BY <1>2 DEF PoolReaps
    <2>2. Steady({}) /\ UNCHANGED <<pc, want, conn>>
        BY <2>1, ReapEffect
    <2>3. Untouched({}, {}) /\ UpgradesTouched({}, {})
        BY <2>1, <2>2 DEF Untouched, UpgradesTouched
    <2>4. (\A l \in Clients \ {} : ClientInv(l)') /\ (\A c \in Conns \ {} : AtRest(c)')
        BY <2>1, <2>2, <2>3, PoolPeers
    <2> QED
        BY <2>4 DEF PeerInv
<1>3. CASE ClockTicks \/ UNCHANGED allVars
    <2>1. UNCHANGED <<pc, sock, origin, want, conn, req, step, peer, inherited>>
        BY <1>3 DEF ClockTicks, Tick, allVars, vars, sessionVars
    <2>2. Untouched({}, {}) /\ UpgradesTouched({}, {})
        BY <2>1 DEF Untouched, UpgradesTouched
    <2>3. \A l \in Clients \ {} : ClientInv(l)'
        BY <2>1, <2>2, OthersKept
    <2>4. \A c \in Conns \ {} : AtRest(c)'
        BY <2>1, <2>2, OthersAtRest
    <2> QED
        BY <2>3, <2>4 DEF PeerInv
<1>4. ASSUME NEW k \in Clients, ReadDone(k) \/ StepFails(k)
      PROVE  PeerInv'
    BY <1>4, FinishPeers DEF ReadDone, StepFails
<1>5. ASSUME NEW k \in Clients, Progress(k)
      PROVE  PeerInv'
    BY <1>1, <1>4, <1>5, GetIdlePeers, OpenNewPeers, GetNewPeers, QuietPeers, ConnectPeers DEF Progress
<1> QED
    BY <1>2, <1>3, <1>5, QuietPeers DEF SessionNext

LEMMA PeerInductive == SslCtx = TRUE => (SessionSpec => []PeerInv)
<1> SUFFICES ASSUME SslCtx = TRUE PROVE SessionSpec => []PeerInv
    OBVIOUS
<1>1. SessionInit => PeerInv
    BY DEF SessionInit, Init, PeerInv, ClientInv, Routed, Talking, AtRest, Opening
<1>2. PeerInv /\ SessionOK /\ LeaseInv /\ LeaseInv' /\ [SessionNext]_allVars => PeerInv'
    BY PeerStep
<1> QED
    BY <1>1, <1>2, SessionOKInductive, SessionLeases, PTL DEF SessionSpec

\* With an ssl::context, and apart from sessions that inherit a tunnel: CONNECTs
\* go to the proxy in the clear and requests to their own target or proxy, over
\* TLS exactly for https, whatever the connection was used for before.
THEOREM PeersRight == SslCtx = TRUE => (SessionSpec => []RightPeerBeforeTunnel)
<1>1. PeerInv => RightPeerBeforeTunnel
    BY DEF PeerInv, ClientInv, Talking, RightPeerBeforeTunnel
<1> QED
    BY <1>1, PeerInductive, PTL

\* With an ssl::context a request for an https origin is only ever written to a
\* TLS stream, in an inherited tunnel too.
THEOREM HttpsEncrypted == SslCtx = TRUE => (SessionSpec => []NeverInTheClear)
<1>1. PeerInv => NeverInTheClear
    BY DEF PeerInv, ClientInv, Talking, NeverInTheClear
<1> QED
    BY <1>1, PeerInductive, PTL
=============================================================================
