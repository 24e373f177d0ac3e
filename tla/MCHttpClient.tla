---------------------------- MODULE MCHttpClient ----------------------------
(* A small world for HttpClient: two origins, two proxies.                 *)
EXTENDS HttpClient

U(s, h, p) == [scheme |-> s, host |-> h, path |-> p]
A == U("https", "a", <<"x", "y">>)
B == U("http", "ip", <<"z">>)

R(u, k, m) == [url |-> u, kind |-> k, method |-> m, follow |-> TRUE, noModify |-> FALSE,
               bodyFile |-> TRUE, accumulate |-> TRUE, onChunk |-> TRUE, noProxyPool |-> FALSE]

MCRequests ==
    { R(B, "string", "GET"), R(A, "string", "POST"),
      [R(B, "file", "GET") EXCEPT !.bodyFile = FALSE, !.noProxyPool = TRUE],
      [R(A, "empty", "HEAD") EXCEPT !.noModify = TRUE],
      R(A, "stream", "GET"), [R(B, "stream", "GET") EXCEPT !.accumulate = FALSE] }

MCLocations ==
    { [form |-> "absolute", url |-> A], [form |-> "scheme_relative", url |-> B],
      [form |-> "relative", path |-> <<"v">>],
      [form |-> "bad"] }

MCLists == { <<>>, <<"q">>, <<"p", "q">> }
=============================================================================
