----------------------------- MODULE HttpClient -----------------------------
(***************************************************************************)
(* The monadic client: http_request_io takes a proxy from the manager's    *)
(* ProxyPool for an exchange (http_client_monad.hpp) and runs the request  *)
(* (module HttpRequest).  The IO may be run again, by retry_exponential_if *)
(* for one, with the same exchange; other threads work on the pool.        *)
(***************************************************************************)
EXTENDS HttpRequest

CONSTANTS
    EnvProxies,     \* proxies taken from the environment: from_env
    Bypassed,       \* hosts that NO_PROXY names
    MaxRuns         \* runs of the IO

ASSUME ClientAssumption == EnvProxies \subseteq Proxies

VARIABLES
    exProxy,        \* ex->proxy
    given,          \* the proxy the caller put there
    phase,          \* "idle", "borrow": has_proxy_pool() was true, "running"
    runs,
    noneUsable      \* the pool was empty or had every entry blacklisted when it was asked

clientVars == <<reqVars, poolVars, exProxy, given, phase, runs, noneUsable>>

ClientInit ==
    /\ ReqInit /\ PoolInit
    /\ given \in Proxies \cup {NoProxy} /\ proxy = NoProxy
    /\ exProxy = given /\ phase = "idle" /\ runs = 0 /\ noneUsable = FALSE

(* The tests before the pool is asked.                                     *)
WantsPool == exProxy = NoProxy /\ ~request.noProxyPool

(* NO_PROXY is honoured for proxies from the environment.                  *)
AfterBypass(p) == IF p \in EnvProxies /\ request.url.host \in Bypassed THEN NoProxy ELSE p

(* The request is built from the exchange and handed to the manager.       *)
Submit(p) ==
    /\ exProxy' = AfterBypass(p) /\ proxy' = AfterBypass(p)
    /\ phase' = "running" /\ runs' = runs + 1
    /\ UNCHANGED <<request, url, left, session, sent, answers, given>>

HttpRequestIo ==
    /\ phase = "idle" /\ runs < MaxRuns
    /\ IF WantsPool /\ proxies # <<>>
       THEN phase' = "borrow" /\ UNCHANGED <<reqVars, exProxy, given, runs, noneUsable>>
       ELSE Submit(exProxy) /\ noneUsable' = (proxies = <<>>)
    /\ UNCHANGED poolVars

(* borrow_proxy takes the mutex again: the list may have changed.          *)
Borrow ==
    /\ phase = "borrow"
    /\ LET p == IF proxies = <<>> THEN NoProxy ELSE NextProxy
       IN Submit(p) /\ noneUsable' = (p = NoProxy)
    /\ Advance

(* The answer is passed on as a Result and the request's state destroyed;  *)
(* the caller may run the IO again.                                        *)
Done ==
    /\ phase = "running" /\ answers # <<>>
    /\ phase' = "idle" /\ noneUsable' = FALSE
    /\ proxy' = NoProxy /\ url' = request.url /\ left' = MaxRedirects /\ pc' = "start"
    /\ timer' = "off" /\ cancelled' = FALSE /\ deadline' = FALSE
    /\ peer' = "none" /\ tls' = FALSE
    /\ hdr' = FALSE /\ body' = <<>> /\ last' = 0 /\ streamed' = <<>>
    /\ sent' = {} /\ answers' = <<>>
    /\ UNCHANGED <<request, poolVars, exProxy, given, runs>>

Request == phase = "running" /\ ReqNext /\ UNCHANGED <<poolVars, exProxy, given, phase, runs, noneUsable>>

(* Other threads change the pool.  While a request runs, such a step       *)
(* commutes with all of its steps (the exchange owns its proxy through a   *)
(* shared_ptr): it is taken before or after.                               *)
Others ==
    /\ phase # "running" /\ PoolNext
    /\ UNCHANGED <<reqVars, exProxy, given, phase, runs, noneUsable>>

ClientNext == HttpRequestIo \/ Borrow \/ Done \/ Request \/ Others

(* The threads run what is ready and a timer expires; a resolution ends    *)
(* once it is cancelled and a stream operation once its timeout is set,    *)
(* if nothing else ends them: they may hang until then.                    *)
ClientSpec ==
    /\ ClientInit /\ [][ClientNext]_clientVars
    /\ WF_clientVars(Borrow)
    /\ WF_clientVars(Request /\ (HttpRequest \/ TimerExpires))
    /\ WF_clientVars(Request /\ OnTimer)
    /\ WF_clientVars(Request /\ cancelled /\ (OnResolve \/ OnResolveProxy))
    /\ WF_clientVars(Request /\ deadline /\ Operation)

-----------------------------------------------------------------------------
(* A run of the IO ends with an answer, and with one only, however the     *)
(* operations of the chain of hops end or hang.                            *)
AnsweredOnce ==
    /\ (phase = "borrow" \/ (phase = "running" /\ answers = <<>>)) ~> (Len(answers) = 1)
    /\ [](Len(answers) <= 1)

(* Which way the hops of a request go.  The choice is made once, for the   *)
(* URL of the exchange, and holds for every redirect.                      *)
(*   - A proxy the caller gave is used, unless it is the environment's and *)
(*     NO_PROXY names the host, or the request must not be modified.       *)
(*   - With no_proxy_pool no other proxy is.                               *)
(*   - A hop that goes direct does so for one of these reasons, or because *)
(*     the pool had no usable proxy when it was asked.                     *)
(*   - Only a redirect can reach a host that NO_PROXY names through a      *)
(*     proxy of the environment: its host is not tested again.             *)
CallersProxy == given # NoProxy /\ (given \in EnvProxies => request.url.host \notin Bypassed)

ProxyPolicy ==
    \A s \in sent :
        /\ CallersProxy => proxy = given
        /\ (CallersProxy /\ ~request.noModify) => s.via = "tunnel"
        /\ (request.noProxyPool /\ given = NoProxy) => s.via = "origin"
        /\ s.via = "origin" =>
              \/ request.noModify
              \/ request.noProxyPool
              \/ request.url.host \in Bypassed
              \/ noneUsable
        /\ (s.via = "tunnel" /\ proxy \in EnvProxies /\ s.url.host \in Bypassed) =>
              s.url.host # request.url.host

(* The way of each hop follows the policy of http_request_io, and the      *)
(* ProxyPool it borrows from gives every proxy its turn.                   *)
ProxyChoice == ProxyPolicy /\ FairRotation
=============================================================================
