------------------------------ MODULE MCResults ------------------------------
(* Results, messages and sessions: what MCValues calls their functions     *)
(* with, and what they must give.                                          *)
EXTENDS ApiMessages, SessionData

VARIABLES
    part,       \* which function is called
    input       \* its input in brackets, or None before the call

None == <<>>
Fn(pairs) == [k \in {p[1] : p \in pairs} |-> (CHOOSE p \in pairs : p[1] = k)[2]]
UpTo(S, n) == UNION {[1 .. m -> S] : m \in 0 .. n}

-----------------------------------------------------------------------------
(* Results and messages                                                    *)

Op == {"map", "and_then", "map_err", "catch_then", "or_else"}
Call == [op : Op, to : BOOLEAN, moves : BOOLEAN]
Railways == {x \in [r : {Ok(<<"v">>), Err(<<"e">>)}, calls : UpTo(Call, 3), void : {FALSE}]
               \cup [r : {Ok(Unit), Err(<<"e">>)}, calls : UpTo(Call, 3), void : {TRUE}] :
             x.void => \A i \in DOMAIN x.calls : x.calls[i].op # "map"}
Zips == [rs : UpTo({Ok(<<"a">>), Ok(<<"b">>), Err(<<"e">>), Err(<<"f">>)}, 3), void : SUBSET (1 .. 3)]

Datas == {NoData, OneData(0), OneData(3)} \cup {ListData(s, MetaOf(s)) : s \in UpTo({1, 2}, 2)}
           \cup {ListData(<<1>>, NoMeta), ListData(<<1>>, [total |-> 9, offset |-> 2, limit |-> 1])}
Jsons == {JNull, JNum(4), JStr("x"), JArr(<<JNum(1)>>), JArr(<<JStr("x")>>)}
Bodies == {EmptyBody, OtherText} \cup {Text(j) : j \in Jsons}
            \cup {Text(JObj(f)) : f \in UNION {[d -> Jsons] : d \in SUBSET {"data", "error"}}}
            \cup {Text(JObj(Fn({<<"error", JObj(Fn({<<"code", c>>, <<"key", k>>}))>>, <<"data", JNum(1)>>}))) :
                    c \in {JNum(5), JNull}, k \in {JStr("k"), JNum(1)}}
            \cup {Text(JObj(Fn({<<"error", JObj(Fn({<<"code", JNum(5)>>, <<f, j>>}))>>}))) : j \in Jsons,
                    f \in {"what", "params", "response_status", "content_type", "alternative_body"}}
            \cup {Text(JObj(Fn({<<"data", d>>, <<"meta", m>>}))) :
                    d \in Jsons, m \in {JNull} \cup {JObj(Fn({<<k, n>>})) :
                                                     k \in {"total", "limit"}, n \in {JNum(-1), JNum(2), JStr("x")}}}
Errors == [code : {4, 500}, key : {"", "k"}, status : {404, 500}, json : BOOLEAN,
           alt : {NoBody, JNum(4)}, preview : {FALSE}]
Answers == [kind : {"data"}, data : Datas, status : {200, 500}]
             \cup [kind : {"success", "redirect", "none"}, status : {200, 302}]
             \cup [kind : {"inline"}, body : Bodies, status : {199, 200, 299, 300}]
             \cup [kind : {"file"}, opens : BOOLEAN, status : {200}]
             \cup [kind : {"error"}, error : Errors]

-----------------------------------------------------------------------------
(* Sessions                                                                *)

Perms == UpTo({Permission("*", "*", <<"*">>), Permission("t", "", <<>>)}, 2)
Sessions ==
    {EmptySession @@ Fn({<<"user_id", i>>}) @@ Fn({<<"user_name", s>>}) @@ Fn({<<"mfa", b>>, <<"email_verified", ~b>>}) :
        i \in {0, 1}, s \in {"", "x"}, b \in BOOLEAN}
      \cup {[EmptySession EXCEPT !["user_permissions"] = p, !["amr"] = l, !["auth_by"] = n] :
              p \in Perms, l \in UpTo({"r"}, 2), n \in 0 .. 2}
Foreign == {JNull, JBool(FALSE), JNum(0), JNum(7), JStr("true"), JStr("0"), JStr("x"), JArr(<<JStr("r")>>),
            JArr(<<PermissionToJson(Permission("t", "i", <<"x">>))>>), JArr(<<>>)}
Foreigns == {JObj(Fn({<<f, j>>, <<g, k>>})) :
               f \in {"user_id", "mfa", "user_name"}, g \in {"amr", "user_permissions", "email_verified", "auth_by"},
               j \in Foreign, k \in Foreign} \cup {JNull}

-----------------------------------------------------------------------------
On(p, Good1(_)) == part = p /\ input # None => Good1(input[1])

(* Results: a chain of combinators gives what its functions say, with the  *)
(* moved-from objects of the && overloads in it, and several results are   *)
(* all values or the first error (result_monad.hpp).                       *)
ResultLaws ==
    /\ On("railway", LAMBDA x : RailwayOK(x.r, x.calls, x.void))
    /\ On("zip", LAMBDA x : ZipsOK(x.rs, x.void \cap DOMAIN x.rs))

(* What is written is read back: the client decodes what a handler         *)
(* answered, and sessions survive JSON.                                    *)
RoundTrips ==
    /\ On("answer", RoundTripOK)
    /\ On("session", SessionRoundTrip)
    /\ On("foreign", SessionReadOK)
=============================================================================
