----------------------------- MODULE ClientText -----------------------------
(***************************************************************************)
(* What the monadic client reads out of and writes into text: the NO_PROXY *)
(* list, query parameters and cookies (http_client_monad.hpp).  Here names *)
(* are sequences of characters, for the matching is by characters.         *)
(***************************************************************************)
EXTENDS Integers, Sequences, SequencesExt, FiniteSetsExt

Digits == {"1"}         \* the digits that inputs are made of

(* A port at the end of a token is cut off: all that follows the last      *)
(* colon, if it is digits.                                                 *)
StripPort(t) ==
    LET colons == {i \in DOMAIN t : t[i] = ":"}
    IN IF colons = {} THEN t
       ELSE LET i == Max(colons)
            IN IF i < Len(t) /\ \A j \in i + 1 .. Len(t) : t[j] \in Digits
               THEN SubSeq(t, 1, i - 1) ELSE t

\* Mutant: the suffix may be the whole host.
TokenMatchesWhole(t, host) ==
    LET name == StripPort(t)
        dotted == name # <<>> /\ Head(name) = "."
        suffix == IF dotted THEN Tail(name) ELSE name
        at == Len(host) - Len(suffix)
    IN \/ t = <<"*">>
       \/ name # <<>> /\ host = name
       \/ suffix # <<>> /\ IsSuffix(suffix, host) /\ (dotted => at = 0 \/ host[at] = ".")

(* A token that starts with a dot asks for a dot before the suffix; one    *)
(* that does not is compared with the end of the host as it is.            *)
TokenMatches(t, host) ==
    LET name == StripPort(t)
        dotted == name # <<>> /\ Head(name) = "."
        suffix == IF dotted THEN Tail(name) ELSE name
        at == Len(host) - Len(suffix)
    IN \/ t = <<"*">>
       \/ name # <<>> /\ host = name
       \/ /\ suffix # <<>> /\ at > 0 /\ IsSuffix(suffix, host)
          /\ dotted => host[at] = "."

(* should_bypass_env_proxy_for_url: NO_PROXY, or no_proxy if that is empty.*)
ShouldBypass(upper, lower, host) ==
    LET list == IF upper # <<>> THEN upper ELSE lower
    IN host # <<>> /\ \E i \in DOMAIN list : TokenMatches(list[i], host)

-----------------------------------------------------------------------------
(* set_query_param: the first entry of the key is replaced.                *)

SetQueryParam(params, key, value) ==
    LET same == {i \in DOMAIN params : params[i].k = key}
    IN IF same = {} THEN Append(params, [k |-> key, v |-> value])
       ELSE [params EXCEPT ![Min(same)] = [k |-> key, v |-> value]]

-----------------------------------------------------------------------------
(* Cookies.  A Set-Cookie header is split into parts, each a name and a    *)
(* value which may be in quotes.                                           *)

FirstOf(headers, name) ==
    LET all == FlattenSeq(headers)
        hits == {i \in DOMAIN all : all[i].k = name}
    IN IF hits = {} THEN {} ELSE {all[Min(hits)].v}

(* getResponseCookie: any part of a header counts, its attributes too.     *)
GetResponseCookie(hasResponse, headers, name) ==
    IF ~hasResponse THEN {} ELSE FirstOf(headers, name)

-----------------------------------------------------------------------------
(* A host that is named in NO_PROXY, or is below a domain named there,     *)
(* goes direct, and no host does whose end is not in the list.  A token    *)
(* with a dot in front means the hosts below it only.  (A token without    *)
(* one also matches in the middle of a label, and an IPv6 literal is taken *)
(* for a host and a port.)                                                 *)
BypassOK(upper, lower, host) ==
    LET list == IF upper # <<>> THEN upper ELSE lower
        sound(t) == t = <<"*">> \/ IsSuffix(IF StripPort(t) # <<>> /\ Head(StripPort(t)) = "."
                                            THEN Tail(StripPort(t)) ELSE StripPort(t), host)
        plain(t) == t # <<>> /\ \A i \in DOMAIN t : t[i] # ":"
        below(t) == IF Head(t) = "." THEN t # <<".">> /\ IsSuffix(t, host) ELSE IsSuffix(<<".">> \o t, host)
    IN host # <<>> =>
       /\ ShouldBypass(upper, lower, host) => \E i \in DOMAIN list : sound(list[i])
       /\ (\E i \in DOMAIN list : plain(list[i]) /\ (host = list[i] \/ (below(list[i]) /\ host # list[i])))
             => ShouldBypass(upper, lower, host)
       /\ (Len(list) = 1 /\ plain(list[1]) /\ Head(list[1]) = "." /\ Len(list[1]) > 1
             /\ host = Tail(list[1])) => ~ShouldBypass(upper, lower, host)

(* After set_query_param the key is read as the new value, no other key    *)
(* changes and the order is kept; a second call changes nothing more.      *)
QueryOK(params, key, value) ==
    LET after == SetQueryParam(params, key, value)
        others(s) == SelectSeq(s, LAMBDA p : p.k # key)
    IN /\ FirstOf(<<after>>, key) = {value}
       /\ others(after) = others(params)
       /\ SetQueryParam(after, key, value) = after
       /\ Len(after) <= Len(params) + 1

(* A cookie is found if some header sets it; the first header that does    *)
(* counts, unless an attribute of an earlier one has its name.             *)
CookieOK(headers, name) ==
    LET set == {i \in DOMAIN headers : headers[i][1].k = name}
        got == GetResponseCookie(TRUE, headers, name)
    IN /\ set # {} => got # {}
       /\ (set # {} /\ \A i \in 1 .. Min(set), j \in 2 .. 3 :
              j \in DOMAIN headers[i] => headers[i][j].k # name) => got = {headers[Min(set)][1].v}
       /\ got # {} => \E i \in DOMAIN headers, j \in 1 .. 3 : j \in DOMAIN headers[i] /\ headers[i][j].k = name
       /\ GetResponseCookie(FALSE, headers, name) = {}
=============================================================================
