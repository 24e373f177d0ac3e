----------------------------- MODULE HttpRequest -----------------------------
(***************************************************************************)
(* One request of HttpClientManager that does not use the connection pool: *)
(* http_request with its chain of redirects, http_request_stream, and the  *)
(* session (http_session.hpp, http_session_stream.hpp) that each hop runs: *)
(* resolve under a watchdog timer, connect, or CONNECT through a proxy,    *)
(* TLS handshake, write, read.  An action is the completion handler of one *)
(* asynchronous operation; the callbacks it calls are part of it.          *)
(***************************************************************************)
EXTENDS ProxyPool

CONSTANTS
    Requests,       \* records: url, kind (the response body), method, follow,
                    \* noModify, bodyFile, accumulate, onChunk
    Locations,      \* Location headers a redirect may carry
    IpHosts,        \* hosts that are IP literals: no SNI
    MaxRedirects,   \* redirects_left at the start: 5
    BodyLen         \* bytes of a streamed body

ASSUME RequestAssumption ==
    /\ MaxRedirects \in Nat /\ BodyLen \in Nat \ {0}

NoResp == [status |-> 0]     \* std::nullopt

VARIABLES
    request, proxy,     \* params and proxy_setting
    url, left,          \* RedirectState: url, redirects_left
    pc,                 \* the pending operation
    timer, cancelled,   \* resolve_timer_; resolver_.cancel() was called
    deadline,           \* expires_after is in force for the pending operation
    peer, tls,          \* the other end of the stream
    hdr, body, last, streamed,  \* the stream's parser, last_body_size_, what on_chunk_ got
    sent,               \* requests written
    answers             \* calls of the user's callback

session == <<pc, timer, cancelled, deadline, peer, tls, hdr, body, last, streamed>>
reqVars == <<request, proxy, url, left, session, sent, answers>>

ReqInit ==
    /\ request \in Requests /\ proxy \in Proxies \cup {NoProxy}
    /\ url = request.url /\ left = MaxRedirects /\ pc = "start"
    /\ timer = "off" /\ cancelled = FALSE /\ deadline = FALSE
    /\ peer = "none" /\ tls = FALSE
    /\ hdr = FALSE /\ body = <<>> /\ last = 0 /\ streamed = <<>>
    /\ sent = {} /\ answers = <<>>

-----------------------------------------------------------------------------
(* Redirects.  A Location is absolute, relative to the scheme, to the      *)
(* origin or to the directory of the path, missing or unparsable.          *)

IsRedirectStatus(s) == s \in {301, 302, 303, 307, 308}

ResolveRedirectUrl(base, l) ==
    IF l.form = "absolute" THEN {l.url}
    ELSE IF l.form = "scheme_relative" THEN {[l.url EXCEPT !.scheme = base.scheme]}
    ELSE IF l.form = "path" THEN {[base EXCEPT !.path = l.path]}
    ELSE IF l.form = "relative" THEN {[base EXCEPT !.path = Front(base.path) \o l.path]}
    ELSE {}         \* missing, or parse_uri fails

Next1(resp) == ResolveRedirectUrl(url, resp.location)

(* The tests of the callback cb; http_request_stream never follows.        *)
Follows(resp, code) ==
    /\ code = 0 /\ resp # NoResp /\ request.follow /\ left > 0
    /\ request.kind # "stream"
    /\ request.method \in {"GET", "HEAD"}
    /\ IsRedirectStatus(resp.status) /\ Next1(resp) # {}

(* run() leaves a request that it must not change to the origin: it looks  *)
(* at no_modify_req_ before it looks at proxy_setting_.                    *)
Proxied == proxy # NoProxy /\ ~request.noModify

(* session::run for the next hop: a new session with a new stream.         *)
Run(u) ==
    /\ url' = u
    /\ pc' = IF Proxied THEN "resolve_proxy" ELSE "resolve"
    /\ timer' = "armed" /\ cancelled' = FALSE /\ deadline' = FALSE
    /\ peer' = "none" /\ tls' = FALSE
    /\ hdr' = FALSE /\ body' = <<>> /\ last' = 0 /\ streamed' = <<>>

Deliver(resp, code) ==
    /\ IF Follows(resp, code)
       THEN /\ Run(CHOOSE u \in Next1(resp) : TRUE)
            /\ left' = left - 1 /\ UNCHANGED answers
       ELSE /\ answers' = Append(answers, [resp |-> resp, code |-> code])
            /\ pc' = "done"
            /\ UNCHANGED <<url, left, cancelled, deadline, peer, tls, hdr, body, last, streamed>>
            /\ timer' = IF timer = "armed" THEN "off" ELSE timer
    /\ UNCHANGED <<request, proxy, sent>>

Fail(code) == Deliver(NoResp, code)

(* The next operation is started, under a new timeout.                     *)
Start(op, p, t) ==
    /\ pc' = op /\ peer' = p /\ tls' = t /\ deadline' = TRUE
    /\ UNCHANGED <<request, proxy, url, left, cancelled, hdr, body, last, streamed, sent, answers>>

StopTimer == timer' = IF timer = "armed" THEN "off" ELSE timer

(* http_request: the first hop.                                            *)
HttpRequest ==
    /\ pc = "start" /\ Run(request.url)
    /\ UNCHANGED <<request, proxy, left, sent, answers>>

-----------------------------------------------------------------------------
(* The watchdog of the name resolution.                                    *)

(* A timer that has expired keeps its handler queued when it is cancelled. *)
TimerExpires ==
    /\ timer = "armed" /\ timer' = "due"
    /\ UNCHANGED <<request, proxy, url, left, pc, cancelled, deadline, peer, tls,
                   hdr, body, last, streamed, sent, answers>>

\* Mutant: the watchdog does nothing.
OnTimerIdle ==
    /\ timer = "due" /\ timer' = "off"
    /\ UNCHANGED <<request, proxy, url, left, pc, cancelled, deadline, peer, tls,
                   hdr, body, last, streamed, sent, answers>>

OnTimer ==
    /\ timer = "due" /\ timer' = "off"
    /\ cancelled' = (pc \in {"resolve", "resolve_proxy"})
    /\ UNCHANGED <<request, proxy, url, left, pc, deadline, peer, tls,
                   hdr, body, last, streamed, sent, answers>>

(* do_resolve's handler.  resolver_.cancel() takes nothing back from a     *)
(* resolution that has ended, with its handler queued, or is under way: it *)
(* may still bring its results, and the session goes on to connect.        *)
OnResolve ==
    /\ pc = "resolve"
    /\ \/ Fail(1)
       \/ StopTimer /\ Start("connect", "none", FALSE)

OnResolveProxy ==
    /\ pc = "resolve_proxy"
    /\ \/ Fail(1)
       \/ StopTimer /\ Start("proxy_connect", "none", FALSE)

-----------------------------------------------------------------------------
(* The tunnel.                                                             *)

OnConnectProxyServer ==
    /\ pc = "proxy_connect"
    /\ Fail(1) \/ (Start("proxy_write", "proxy", FALSE) /\ UNCHANGED timer)

OnRequestProxy ==
    /\ pc = "proxy_write"
    /\ Fail(2) \/ (Start("proxy_read", "proxy", FALSE) /\ UNCHANGED timer)

(* after_connect of session_plain and session_stream_plain.                *)
AfterConnectPlain(p) == Start("write", p, FALSE) /\ UNCHANGED timer

(* after_connect of session_ssl and session_stream_ssl: SNI, unless the    *)
(* host is an IP literal, and the handshake.                               *)
AfterConnectSsl(p) ==
    \/ url.host \notin IpHosts /\ Fail(9)
    \/ Start("handshake", p, FALSE) /\ UNCHANGED timer

\* Mutant: a tunnel to an https origin is taken for a plain connection.
AfterConnectClear(p) == AfterConnectPlain(p)

(* The session that http_request or http_request_stream made for the URL.  *)
AfterConnect(p) ==
    IF url.scheme = "https" THEN AfterConnectSsl(p) ELSE AfterConnectPlain(p)

OnReadProxyResponse ==
    /\ pc = "proxy_read"
    /\ \/ Fail(3)
       \/ Fail(4)                   \* any status but 200
       \/ AfterConnect("tunnel")    \* replace_stream

OnConnect ==
    /\ pc = "connect"
    /\ Fail(5) \/ AfterConnect("origin")

OnHandshake ==
    /\ pc = "handshake"
    /\ Fail(10) \/ (Start("write", peer, TRUE) /\ UNCHANGED timer)

-----------------------------------------------------------------------------
(* What the Host header and the target of the request name.                *)

Named == IF request.noModify THEN request.url ELSE url

(* do_request's handler, which goes on with do_read; a file response needs *)
(* a file.                                                                 *)
OnWrite ==
    /\ pc = "write"
    /\ \/ Fail(6)
       \/ /\ IF request.kind = "file" /\ ~request.bodyFile
             THEN answers' = Append(answers, [resp |-> NoResp, code |-> 7]) /\ pc' = "done"
             ELSE pc' = "read" /\ UNCHANGED answers
          /\ deadline' = TRUE
          /\ sent' = sent \cup {[url |-> url, named |-> Named, via |-> peer, tls |-> tls]}
          /\ UNCHANGED <<request, proxy, url, left, timer, cancelled, peer, tls, hdr, body, last, streamed>>

Responses(whole) ==
    {[from |-> url, status |-> 200, location |-> [form |-> "missing"], whole |-> whole]} \cup
    {[from |-> url, status |-> 302, location |-> l, whole |-> whole] : l \in Locations}

\* Mutant: an error after the header is reported as a response.
OnReadLenient ==
    /\ pc = "read" /\ request.kind # "stream"
    /\ \E w \in BOOLEAN : \E r \in Responses(w) : Deliver(r, 0)

(* do_read's handler: the parser's message is released in every case; of   *)
(* an empty_body only the header is read, and a body is no error.          *)
OnRead ==
    /\ pc = "read" /\ request.kind # "stream"
    /\ \/ \E r \in Responses(TRUE) : Deliver(r, 0)
       \/ \E r \in Responses(FALSE) : Deliver(r, 8)

\* Mutant: the body is dropped and its size kept.
SizeAfterKept(grown, hands) == IF hands THEN Len(grown) ELSE last

(* last_body_size_ after a chunk was handed on.                            *)
SizeAfter(grown, hands) ==
    IF ~hands THEN last ELSE IF request.accumulate THEN Len(grown) ELSE 0

(* Bytes of the body the parser has taken in.                              *)
Got == IF request.onChunk THEN Len(streamed) ELSE Len(body)

(* read_some_loop's handler: the header once, then what is new in the body,*)
(* which is dropped unless the response accumulates; the end, or the loop. *)
ReadSome ==
    \/ \E r \in Responses(FALSE) : Deliver(r, 8)
    \/ \E n \in (IF hdr THEN Got + 1 ELSE 0) .. BodyLen :
          LET grown == body \o [i \in 1 .. n - Got |-> Got + i]
              hands == Len(grown) > last /\ request.onChunk
          IN /\ hdr' = TRUE
             /\ streamed' = IF hands THEN streamed \o SubSeq(grown, last + 1, Len(grown))
                                     ELSE streamed
             /\ last' = SizeAfter(grown, hands)
             /\ body' = IF hands /\ ~request.accumulate THEN <<>> ELSE grown
             /\ IF n = BodyLen
                THEN /\ \E r \in Responses(TRUE) :
                           answers' = Append(answers, [resp |-> r, code |-> 0])
                     /\ pc' = "done"
                ELSE UNCHANGED <<pc, answers>>
             /\ UNCHANGED <<request, proxy, url, left, timer, cancelled, deadline,
                            peer, tls, sent>>

(* The two streaming sessions.                                             *)
OnReadSomeSsl == pc = "read" /\ request.kind = "stream" /\ url.scheme = "https" /\ ReadSome
OnReadSomePlain == pc = "read" /\ request.kind = "stream" /\ url.scheme # "https" /\ ReadSome

-----------------------------------------------------------------------------
(* Operations on a stream, which expires_after ends.                       *)
Operation ==
    \/ OnConnectProxyServer \/ OnRequestProxy \/ OnReadProxyResponse
    \/ OnConnect \/ OnHandshake \/ OnWrite \/ OnRead
    \/ OnReadSomeSsl \/ OnReadSomePlain

ReqNext ==
    \/ HttpRequest \/ TimerExpires \/ OnTimer \/ OnResolve \/ OnResolveProxy \/ Operation

-----------------------------------------------------------------------------
(* Every request that is written names the URL of its hop (unless the      *)
(* caller forbids changes, and with them the proxy), goes through the      *)
(* proxy's tunnel if there is one to use and to the origin itself if not,  *)
(* and is encrypted exactly for https; a hop beyond the first comes from a *)
(* GET or a HEAD.                                                          *)
SentRight ==
    \A s \in sent :
        /\ ~request.noModify => s.named = s.url
        /\ s.via = IF Proxied THEN "tunnel" ELSE "origin"
        /\ s.tls <=> s.url.scheme = "https"
        /\ s.url # request.url => request.method \in {"GET", "HEAD"} /\ request.follow

(* An answer without error is the whole response of the last hop; a        *)
(* redirect is handed to the user only if it could not be followed.        *)
AnswerMeans ==
    \A i \in DOMAIN answers : answers[i].code = 0 =>
        /\ answers[i].resp # NoResp /\ answers[i].resp.whole
        /\ answers[i].resp.from = url
        /\ \E s \in sent : s.url = url
        /\ (IsRedirectStatus(answers[i].resp.status) /\ request.follow /\ request.kind # "stream"
              /\ request.method \in {"GET", "HEAD"})
             => left = 0 \/ Next1(answers[i].resp) = {}

(* on_chunk_ gets the bytes of the body in order, none twice and none      *)
(* left out, and all of them before a good end.                            *)
StreamFaithful ==
    /\ \A i \in DOMAIN streamed : streamed[i] = i
    /\ (request.kind = "stream" /\ request.onChunk) =>
          \A i \in DOMAIN answers : answers[i].code = 0 => Len(streamed) = BodyLen
=============================================================================
