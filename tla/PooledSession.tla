---------------------------- MODULE PooledSession ----------------------------
(***************************************************************************)
(* client_async::http_session_pooled (include/http_session_pooled.hpp)     *)
(* running on a ConnectionPool: each client slot holds one session, and    *)
(* the session's handlers are joined with the pool steps they cause.       *)
(*                                                                         *)
(* What the pool cannot see is modelled here for every connection: which   *)
(* server its byte stream ends at, whether it is encrypted, and what is    *)
(* left on it after the last exchange.                                     *)
(*                                                                         *)
(* Writes, reads and handshakes fail whenever they like: on a timeout, on  *)
(* a reset, or because the peer closed the connection while it was idle.   *)
(***************************************************************************)
EXTENDS ConnectionPool

CONSTANTS
    HttpsOrigins,   \* origins with scheme "https"
    SslCtx,         \* the pool was given an ssl::context
    Requests,       \* the requests sessions are created with
    Framings,       \* how servers delimit a response body
    NoReq,          \* no session in this slot
    NoPeer          \* not connected

(***************************************************************************)
(* A request names its target origin, the proxy's plain http origin if it  *)
(* goes through one, and whether ResponseBody is empty_body, for which     *)
(* do_read makes the parser skip the body.                                 *)
(***************************************************************************)
ASSUME SessionAssumption ==
    /\ HttpsOrigins \subseteq Origins
    /\ SslCtx \in BOOLEAN
    /\ TlsOrigins = IF SslCtx THEN HttpsOrigins ELSE {}
    /\ Requests \subseteq [target : Origins, via : Origins \cup {NoOrigin}, skip : BOOLEAN]
    /\ \A r \in Requests : r.via \notin HttpsOrigins
    /\ Framings \subseteq {"none", "length", "eof"}
    /\ NoReq \notin Requests
    /\ NoPeer \notin [to : Origins, tls : BOOLEAN]

VARIABLES
    req,    \* the request of a session whose callback has not run
    step,   \* the operation a session waits for on its connection
    peer,   \* server at the far end of a connection, and whether TLS is up
    wire,   \* what the last exchange left on it
    inherited   \* history: sessions that got a connection already made a tunnel

sessionVars == <<req, step, peer, wire, inherited>>
allVars == <<vars, sessionVars>>

Steps == {"none", "connect_write", "connect_read", "handshake", "write", "read"}

\* At a message boundary; the rest of a skipped body to come; ended by the peer;
\* spent: perhaps in the middle of a message, or to be closed as announced.
Wires == {"clean", "residue", "eof", "spent"}

-----------------------------------------------------------------------------
Proxied(r) == r.via # NoOrigin

\* Mutant: the proxy is left out of the pool key.
AcquireOriginDirect(r) == r.target

\* run(): the proxy hop is plain TCP and has the pool key of the proxy.
AcquireOrigin(r) == IF Proxied(r) THEN r.via ELSE r.target

Tunnelled(r) == Proxied(r) /\ r.target \in HttpsOrigins

\* Mutant: no tunnel.
FirstStepPlain(r) == "write"

\* The acquire handler: CONNECT first, or the request at once.
FirstStep(r) == IF Tunnelled(r) THEN "connect_write" ELSE "write"

(***************************************************************************)
(* What can be left on the wire after a response.  A body without a length *)
(* is read until the peer closes.  Of a skipped body, what came with the   *)
(* header is in the session's buffer and goes with it; the rest comes      *)
(* later.                                                                  *)
(***************************************************************************)
Leftover(r, framing) ==
    IF framing = "none" THEN {"clean"}
    ELSE IF r.skip THEN {"clean", "residue"}
    ELSE IF framing = "length" THEN {"clean"} ELSE {"eof"}

\* The far end is not the origin the pool opened the connection for.
Relayed(c) == peer[c].to # origin[c]

\* Slots without an object keep no trace of the last one.
Forget ==
    /\ peer' = [c \in Conns |-> IF sock'[c] = "none" THEN NoPeer ELSE peer[c]]
    /\ wire' = [c \in Conns |-> IF sock'[c] = "none" THEN "clean" ELSE wire[c]]

SetStep(k, s) == step' = [step EXCEPT ![k] = s]

-----------------------------------------------------------------------------
SessionInit ==
    /\ Init
    /\ req = [k \in Clients |-> NoReq]
    /\ step = [k \in Clients |-> "none"]
    /\ peer = [c \in Conns |-> NoPeer]
    /\ wire = [c \in Conns |-> "clean"]
    /\ inherited = {}

Run(k, r) ==
    /\ Acquire(k, AcquireOrigin(r))
    /\ req' = [req EXCEPT ![k] = r]
    /\ UNCHANGED <<step, peer, wire, inherited>>

\* Mutant: the callback is not run.
FinishSilent(k, reusable) ==
    /\ Release(k, reusable)
    /\ SetStep(k, "none")
    /\ inherited' = inherited \ {k}
    /\ UNCHANGED req

\* Mutant: every connection is released as reusable.
FinishKeeps(k, reusable) ==
    /\ Release(k, TRUE)
    /\ req' = [req EXCEPT ![k] = NoReq]
    /\ SetStep(k, "none")
    /\ inherited' = inherited \ {k}

\* Mutant: a connection that is not reusable is closed and not released.
FinishLost(k, reusable) ==
    /\ IF reusable
       THEN Release(k, TRUE)
       ELSE /\ pc' = [pc EXCEPT ![k] = "out"]
            /\ conn' = [conn EXCEPT ![k] = NoConn]
            /\ sock' = [sock EXCEPT ![conn[k]] = "closed"]
            /\ UNCHANGED <<idle, origin, age, reaper_armed, waits, want>>
    /\ req' = [req EXCEPT ![k] = NoReq]
    /\ SetStep(k, "none")
    /\ inherited' = inherited \ {k}

(***************************************************************************)
(* finish(): close what is not reusable, release it, run the callback.     *)
(***************************************************************************)
Finish(k, reusable) ==
    /\ Release(k, reusable)
    /\ req' = [req EXCEPT ![k] = NoReq]
    /\ SetStep(k, "none")
    /\ inherited' = inherited \ {k}

(***************************************************************************)
(* acquire() answers.                                                      *)
(***************************************************************************)
GetIdle(k) ==
    /\ AcquireReuse(k)
    /\ SetStep(k, FirstStep(req[k]))
    /\ inherited' = IF Relayed(conn'[k]) THEN inherited \cup {k} ELSE inherited
    /\ Forget
    /\ UNCHANGED req

OpenNew(k) ==
    /\ AcquireCreate(k)
    /\ Forget
    /\ UNCHANGED <<req, step, inherited>>

Resolve(k) ==
    /\ Resolved(k)
    /\ UNCHANGED sessionVars

GetNew(k) ==
    /\ Connected(k)
    /\ peer' = [peer EXCEPT ![conn[k]] = [to |-> origin[conn[k]], tls |-> FALSE]]
    /\ SetStep(k, IF pc'[k] = "held" THEN FirstStep(req[k]) ELSE "none")
    /\ UNCHANGED <<req, wire, inherited>>

GetNewTls(k) ==
    /\ HandshakeDone(k)
    /\ peer' = [peer EXCEPT ![conn[k]].tls = TRUE]
    /\ SetStep(k, FirstStep(req[k]))
    /\ UNCHANGED <<req, wire, inherited>>

\* finish(nullopt, 1): there is no connection to release.
AcquireFails(k) ==
    /\ OpenFailed(k)
    /\ req' = [req EXCEPT ![k] = NoReq]
    /\ Forget
    /\ UNCHANGED <<step, inherited>>

-----------------------------------------------------------------------------
(***************************************************************************)
(* do_proxy_connect and do_proxy_read_response.                            *)
(***************************************************************************)
ConnectWritten(k) ==
    /\ step[k] = "connect_write"
    /\ SetStep(k, "connect_read")
    /\ UNCHANGED <<vars, req, peer, wire, inherited>>

\* The answer is 200: from here the proxy relays bytes to the target, if it was
\* the proxy that answered.  The upgrade fails only without an ssl::context.
ConnectAccepted(k) ==
    LET c == conn[k]
    IN  /\ step[k] = "connect_read" /\ wire[c] # "eof"
        /\ peer' = [peer EXCEPT ![c].to = IF peer[c] = [to |-> req[k].via, tls |-> FALSE]
                                          THEN req[k].target ELSE @]
        /\ UNCHANGED wire
        /\ IF SslCtx \/ peer[c].tls
           THEN SetStep(k, "handshake") /\ UNCHANGED <<vars, req, inherited>>
           ELSE Finish(k, FALSE)

Upgraded(k) ==
    /\ step[k] = "handshake"
    /\ peer' = [peer EXCEPT ![conn[k]].tls = TRUE]
    /\ SetStep(k, "write")
    /\ UNCHANGED <<vars, req, wire, inherited>>

(***************************************************************************)
(* do_write and do_read.                                                   *)
(***************************************************************************)
Written(k) ==
    /\ step[k] = "write"
    /\ SetStep(k, "read")
    /\ UNCHANGED <<vars, req, peer, wire, inherited>>

\* finish(res, 0): reusable is decided by the Connection header alone.  Nothing
\* is read from a stream that the peer has ended.
ReadDone(k) ==
    /\ step[k] = "read" /\ wire[conn[k]] # "eof"
    /\ \E framing \in Framings, keep_alive \in BOOLEAN :
          \E left \in Leftover(req[k], framing) :
            /\ wire' = [wire EXCEPT ![conn[k]] = IF keep_alive THEN left ELSE "spent"]
            /\ Finish(k, keep_alive)
    /\ UNCHANGED peer

\* finish(nullopt, code): 2 and 3 talking to the proxy, 4 when it refuses, 6 in
\* the handshake, 7 writing, 8 reading.
StepFails(k) ==
    /\ step[k] # "none"
    /\ Finish(k, FALSE)
    /\ wire' = [wire EXCEPT ![conn[k]] = "spent"]
    /\ UNCHANGED peer

-----------------------------------------------------------------------------
PoolTakesBack(k) ==
    /\ ReleaseDrop(k) \/ ReleaseKeep(k)
    /\ Forget
    /\ UNCHANGED <<req, step, inherited>>

PoolReaps ==
    /\ Reap
    /\ Forget
    /\ UNCHANGED <<req, step, inherited>>

ClockTicks == Tick /\ UNCHANGED sessionVars

Progress(k) ==
    \/ GetIdle(k)
    \/ OpenNew(k)
    \/ Resolve(k)
    \/ GetNew(k)
    \/ GetNewTls(k)
    \/ AcquireFails(k)
    \/ ConnectWritten(k)
    \/ ConnectAccepted(k)
    \/ Upgraded(k)
    \/ Written(k)
    \/ ReadDone(k)
    \/ StepFails(k)
    \/ PoolTakesBack(k)

SessionNext ==
    \/ \E k \in Clients, r \in Requests : Run(k, r)
    \/ \E k \in Clients : Progress(k)
    \/ PoolReaps
    \/ ClockTicks

SessionSpec == SessionInit /\ [][SessionNext]_allVars

(***************************************************************************)
(* Every operation of a session has a timeout (set_op_timeout before each  *)
(* one) and so ends.                                                       *)
(***************************************************************************)
SessionFairness ==
    /\ \A k \in Clients : WF_allVars(Progress(k))
    /\ WF_allVars(PoolReaps)
    /\ WF_allVars(ClockTicks)

FairSessionSpec == SessionSpec /\ SessionFairness

-----------------------------------------------------------------------------
\* Types, and that a session waits on a connection exactly while the pool has
\* lent it one.
SessionTypeOK ==
    /\ TypeOK
    /\ req \in [Clients -> Requests \cup {NoReq}]
    /\ step \in [Clients -> Steps]
    /\ peer \in [Conns -> [to : Origins, tls : BOOLEAN] \cup {NoPeer}]
    /\ wire \in [Conns -> Wires]
    /\ inherited \in SUBSET Clients
    /\ \A k \in Clients : /\ step[k] # "none" <=> pc[k] = "held"
                          /\ req[k] = NoReq <=> pc[k] \in {"out", "reuse", "drop"}

\* The server that must be at the far end when request r is written.
ProperPeer(r) ==
    IF Proxied(r) /\ ~Tunnelled(r)
    THEN [to |-> r.via, tls |-> FALSE]
    ELSE [to |-> r.target, tls |-> r.target \in HttpsOrigins]

\* acquire's contract, "a ready connection for the origin", end to end: a
\* CONNECT goes to the proxy in the clear and a request to its own target (or
\* its proxy), whatever the connection was used for before.
RightPeer ==
    \A k \in Clients :
        /\ step[k] \in {"connect_write", "connect_read"}
            => peer[conn[k]] = [to |-> req[k].via, tls |-> FALSE]
        /\ step[k] \in {"write", "read"} => peer[conn[k]] = ProperPeer(req[k])

\* The same contract, apart from sessions that were given a connection an
\* earlier one had made a tunnel of: no other history of the pool's keys, of
\* plain and tunnelled requests and of failures sends a message to the wrong
\* server or past TLS.
RightPeerBeforeTunnel ==
    \A k \in Clients \ inherited :
        /\ step[k] \in {"connect_write", "connect_read"}
            => peer[conn[k]] = [to |-> req[k].via, tls |-> FALSE]
        /\ step[k] \in {"write", "read"} => peer[conn[k]] = ProperPeer(req[k])

\* release's contract, "if healthy & reusable": a session starts on a stream at
\* a message boundary that has not reached its end.
CleanStart ==
    \A k \in Clients :
        step[k] \in {"connect_write", "write"} => wire[conn[k]] = "clean"

\* finish() and release() together: a connection on which an operation failed,
\* and so possibly in the middle of a message, or whose last response announced
\* the close, waits in no deque and is used by no session, however the sessions
\* and the reaper interleave.  (What a skipped body or one without a length
\* leaves is not kept out: CleanStart.)
SpentNotLent ==
    \A c \in Conns : wire[c] = "spent" =>
        /\ c \notin Pooled(idle)
        /\ \A k \in Clients : conn[k] = c => step[k] = "none"

\* A request for an https origin is written to a TLS stream only, also when a
\* connection was tunnelled before or its tunnel is reused.
NeverInTheClear ==
    \A k \in Clients :
        step[k] = "write" /\ req[k].target \in HttpsOrigins => peer[conn[k]].tls

\* Every session runs its callback: what fails or hangs ends in a finish().
CallbackRuns == \A k \in Clients : req[k] # NoReq ~> req[k] = NoReq
=============================================================================
