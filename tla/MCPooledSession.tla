--------------------------- MODULE MCPooledSession ---------------------------
(***************************************************************************)
(* Instances of PooledSession: a plain origin, TLS origins and a proxy.    *)
(***************************************************************************)
EXTENDS PooledSession

CONSTANTS web, tls, bank, proxy

Ask(target, via, skip) == [target |-> target, via |-> via, skip |-> skip]

\* Direct requests, one of them to the proxy's own origin, and plain and
\* tunnelled ones, to two targets, through the proxy.
AllRequests == {Ask(proxy, NoOrigin, FALSE), Ask(tls, NoOrigin, FALSE),
                Ask(web, proxy, FALSE), Ask(tls, proxy, FALSE), Ask(bank, proxy, FALSE)}

\* The same proxy used for a plain request and for a CONNECT tunnel.
TunnelRequests == {Ask(tls, proxy, FALSE), Ask(web, proxy, FALSE)}

\* Sessions with ResponseBody = empty_body, which skip the response body, and
\* others.
SkipRequests == {Ask(web, NoOrigin, TRUE), Ask(web, NoOrigin, FALSE)}

\* An https origin, asked directly.
HttpsRequests == {Ask(tls, NoOrigin, FALSE)}
=============================================================================
