----------------------------- MODULE ApiMessages -----------------------------
(***************************************************************************)
(* What an API handler answers and what the client makes of it: the        *)
(* response generator (api_handler_base.hpp), the JSON of an error         *)
(* (result_monad.hpp), and the decoding of a response by HttpExchange      *)
(* (http_client_monad.hpp, api_response_result.hpp).                       *)
(*                                                                         *)
(* A JSON value is null, a number, a string, an array or an object.        *)
(* A body is empty, the text of a JSON value or other text.  The payload   *)
(* type T is a number: value_to throws for everything else.                *)
(***************************************************************************)
EXTENDS ResultMonad, JsonValue

Text(j) == [k |-> "json", j |-> j]
EmptyBody == [k |-> "empty"]
OtherText == [k |-> "other"]

(* value_to<T>                                                             *)
ValueTo(j) == IF j.t = "num" THEN Got(j.n) ELSE Threw

NoMeta == [none |-> TRUE]

-----------------------------------------------------------------------------
(* ApiDataResponse: nothing, one value, or a list with its meta data.      *)

NoData == [kind |-> "none", meta |-> NoMeta]
OneData(v) == [kind |-> "one", one |-> v, meta |-> NoMeta]
ListData(vs, meta) == [kind |-> "list", list |-> vs, meta |-> meta]

(* The meta data of a bare list, and of a ListResult made of one.          *)
MetaOf(vs) == [total |-> Len(vs), offset |-> 0, limit |-> Len(vs)]

MetaToJson(m) == JObj([k \in {"total", "offset", "limit"} |-> JNum(m[k])])
MetaFromJson(j) ==
    [k \in {"total", "offset", "limit"} |-> IF HasField(j, k) THEN j.f[k].n ELSE 0]

\* Mutant: the meta data is left out of the JSON.
DataToJsonBare(d) ==
    JObj([k \in {"data"} |->
            IF d.kind = "one" THEN JNum(d.one)
            ELSE IF d.kind = "list" THEN JArr([i \in DOMAIN d.list |-> JNum(d.list[i])]) ELSE JNull])

DataToJson(d) ==
    LET data == IF d.kind = "one" THEN JNum(d.one)
                ELSE IF d.kind = "list" THEN JArr([i \in DOMAIN d.list |-> JNum(d.list[i])])
                ELSE JNull
    IN IF d.meta = NoMeta THEN JObj([k \in {"data"} |-> data])
       ELSE JObj([k \in {"data", "meta"} |-> IF k = "data" THEN data ELSE MetaToJson(d.meta)])

(* value_to<DataMeta> throws for a field that is not a number, and for a   *)
(* negative one that is to be a size_t.                                    *)
MetaThrows(j) ==
    \E k \in {"total", "offset", "limit"} :
        HasField(j, k) /\ (j.f[k].t # "num" \/ (k # "total" /\ j.f[k].n < 0))

(* value_to<ApiDataResponse<T>>                                            *)
DataFromJson(j) ==
    LET bad == HasField(j, "meta") /\ MetaThrows(j.f["meta"])
        meta == IF HasField(j, "meta") THEN MetaFromJson(j.f["meta"]) ELSE NoMeta
    IN IF bad THEN Threw
       ELSE IF ~HasField(j, "data") THEN Got([NoData EXCEPT !.meta = meta])
       ELSE LET d == j.f["data"]
            IN IF d.t = "arr"
               THEN IF \E i \in DOMAIN d.e : ValueTo(d.e[i]).threw THEN Threw
                    ELSE Got(ListData([i \in DOMAIN d.e |-> ValueTo(d.e[i]).v], meta))
               ELSE IF ValueTo(d).threw THEN Threw
                    ELSE Got([OneData(ValueTo(d).v) EXCEPT !.meta = meta])

-----------------------------------------------------------------------------
(* Error and its JSON, which leaves out response_status, content_type and  *)
(* alternative_body.                                                       *)

NoBody == [t |-> "no alternative"]
NoKey == ""
MakeError(code, key) ==
    [code |-> code, key |-> key, status |-> 500, json |-> TRUE, alt |-> NoBody, preview |-> FALSE]

ErrorToJson(e) == JObj([k \in {"code", "key"} |-> IF k = "code" THEN JNum(e.code) ELSE JStr(e.key)])

(* value_to<Error>: the code is required, a field of another type throws.  *)
(* It reads what error_to_json leaves out, should another server send it.  *)
ErrorFromJson(j) ==
    LET wrong(k, t) == HasField(j, k) /\ j.f[k].t # t
    IN IF \/ ~HasField(j, "code") \/ wrong("code", "num") \/ wrong("what", "str") \/ wrong("key", "str")
          \/ wrong("response_status", "num") \/ wrong("params", "obj") \/ wrong("content_type", "str")
       THEN Threw
       ELSE Got([code |-> j.f["code"].n,
                 key |-> IF HasField(j, "key") THEN j.f["key"].s ELSE NoKey,
                 status |-> IF HasField(j, "response_status") THEN j.f["response_status"].n ELSE 500,
                 json |-> IF HasField(j, "content_type") THEN j.f["content_type"].s = "application/json" ELSE TRUE,
                 alt |-> IF HasField(j, "alternative_body") THEN j.f["alternative_body"] ELSE NoBody,
                 preview |-> FALSE])

(* error_to_response                                                       *)
ErrorToResponse(e) ==
    IF e.alt # NoBody THEN Text(e.alt)
    ELSE IF e.json THEN Text(JObj([k \in {"error"} |-> ErrorToJson(e)]))
    ELSE OtherText

-----------------------------------------------------------------------------
(* ResponseGenerator.                                                      *)

Response(status, body) == Ok([status |-> status, body |-> body, location |-> FALSE])

GenData(d, status) == Response(status, Text(DataToJson(d)))
GenSuccess(code, status) ==
    Response(status, Text(JObj([k \in {"code", "message"} |->
                                  IF k = "code" THEN JNum(code) ELSE JStr("done")])))
GenInline(body, status) == Response(status, body)
GenFile(opens, status) == IF opens THEN Response(status, OtherText) ELSE Err(MakeError(4999, NoKey))
GenRedirect(status) == Ok([status |-> status, body |-> EmptyBody, location |-> TRUE])
GenNoContent == Response(204, EmptyBody)

Generate(a) ==
    IF a.kind = "data" THEN GenData(a.data, a.status)
    ELSE IF a.kind = "success" THEN GenSuccess(7, a.status)
    ELSE IF a.kind = "inline" THEN GenInline(a.body, a.status)
    ELSE IF a.kind = "file" THEN GenFile(a.opens, a.status)
    ELSE IF a.kind = "redirect" THEN GenRedirect(a.status)
    ELSE IF a.kind = "error" THEN Response(a.error.status, ErrorToResponse(a.error))
    ELSE GenNoContent

-----------------------------------------------------------------------------
(* HttpExchange on the client's side.  ex is the response or NoResponse.   *)

NoResponse == [status |-> 0, body |-> EmptyBody, location |-> FALSE]

(* An error of the decoding keeps the status of the response and, if there *)
(* was a response, a preview of its body.                                  *)
DecodeError(code, ex) ==
    Err([MakeError(code, NoKey) EXCEPT !.status = ex.status, !.preview = (ex # NoResponse)])

Expect2xx(ex) ==
    IF ex = NoResponse THEN Err(MakeError(400, NoKey))
    ELSE IF ex.status < 200 \/ ex.status >= 300 THEN Err(MakeError(ex.status, NoKey))
    ELSE Ok(Unit)
Is2xx(ex) == ex # NoResponse /\ ex.status >= 200 /\ ex.status < 300
Not2xx(ex) == ex = NoResponse \/ ex.status < 200 \/ ex.status >= 300

GetJsonResponse(ex) ==
    IF ex = NoResponse THEN DecodeError(9001, ex)
    ELSE IF ex.body = EmptyBody THEN DecodeError(9000, ex)
    ELSE IF ex.body = OtherText THEN DecodeError(9001, ex)
    ELSE Ok(ex.body.j)

ParseJsonResponse(ex) ==
    LET r == GetJsonResponse(ex)
    IN IF ~r.ok THEN r
       ELSE IF ValueTo(r.v).threw THEN DecodeError(9003, ex) ELSE Ok(ValueTo(r.v).v)

ParseJsonDataResponse(ex) ==
    LET r == GetJsonResponse(ex)
    IN IF ~r.ok THEN r
       ELSE IF r.v.t # "obj" THEN DecodeError(9005, ex)
       ELSE IF ~HasField(r.v, "data") THEN DecodeError(9004, ex)
       ELSE LET v == ValueTo(r.v.f["data"])
            IN IF v.threw THEN DecodeError(9003, ex) ELSE Ok(v.v)

(* value_to<ApiResponseResult<T>>, which never throws.                     *)
ResultFromJson(j) ==
    IF j.t # "obj" THEN Err(MakeError(9000, NoKey))
    ELSE IF HasField(j, "error")
         THEN LET e == ErrorFromJson(j.f["error"])
              IN IF e.threw THEN Err(MakeError(9001, NoKey)) ELSE Err(e.v)
    ELSE IF HasField(j, "data")
         THEN LET d == DataFromJson(j)
              IN IF d.threw THEN Err(MakeError(9001, NoKey)) ELSE Ok(d.v)
    ELSE Err(MakeError(9000, NoKey))

ParseJsonResponseResult(ex) ==
    LET r == GetJsonResponse(ex) IN IF ~r.ok THEN r ELSE ResultFromJson(r.v)

-----------------------------------------------------------------------------
(* What the client makes of a handler's answer, by the call meant for it:  *)
(* the data with its meta data, or the handler's error with its code and   *)
(* key.  What is lost: the status of an error, and an empty answer, which  *)
(* comes back as the error "malformed".  Whatever a response holds, a      *)
(* decoding is good only if the JSON has the shape asked for, and a bad    *)
(* one of parseJsonDataResponse or parseJsonResponse keeps the status of   *)
(* the response (of parseJsonResponseResult nothing is said: an error that *)
(* it makes of JSON with another shape has the status 500); only           *)
(* parseJsonDataResponse overlooks an "error" beside the data, and meta    *)
(* data that cannot be read.                                               *)
RoundTripOK(a) ==
    LET g == Generate(a)
        ex == IF g.ok THEN g.v ELSE NoResponse
        res == ParseJsonResponseResult(ex)
        one == ParseJsonDataResponse(ex)
        top == ParseJsonResponse(ex)
        err == a.kind = "error" /\ a.error.json /\ a.error.alt = NoBody
    IN /\ (a.kind = "data" /\ a.data # NoData) => res = Ok(a.data)
       /\ (a.kind = "data" /\ a.data = NoData) => res = Err(MakeError(9001, NoKey))
       /\ err => res = Err([a.error EXCEPT !.status = 500])
       /\ a.kind \notin {"data", "inline", "error"} => ~res.ok
       /\ a.kind = "data" => /\ one.ok <=> a.data.kind = "one"
                             /\ one.ok => one.v = a.data.one
       /\ (one.ok /\ ~res.ok) => \/ HasField(ex.body.j, "error")
                                 \/ HasField(ex.body.j, "meta") /\ MetaThrows(ex.body.j.f["meta"])
       /\ top.ok => ~res.ok /\ ~one.ok
       /\ (~one.ok => one.v.status = ex.status) /\ (~top.ok => top.v.status = ex.status)
       /\ Is2xx(ex) = Expect2xx(ex).ok /\ Is2xx(ex) = ~Not2xx(ex)
=============================================================================
