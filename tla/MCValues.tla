------------------------------ MODULE MCValues ------------------------------
(* The functions that keep no state, each on all its small inputs, and the *)
(* overrides of the configuration.                                         *)
EXTENDS MCResults, ClientText, ConfigSources, ClientConfig

allVars == <<part, input, configVars>>

-----------------------------------------------------------------------------
(* Text                                                                    *)

Hosts == UpTo({"a", ".", ":", "1"}, 3) \cup {<<"b", ".", "a">>, <<"b", "a", ".", "a">>}
Lists == {<<>>, <<<<"*">>>>} \cup {<<t>> : t \in UpTo({"a", ".", ":", "1"}, 3)} \cup {<<<<"b">>, <<".", "a">>>>}
Bypasses == [list : Lists, lower : {<<>>, <<<<"a">>>>}, host : Hosts]
Queries == [params : UpTo([k : {"p", "q"}, v : {1, 2}], 3), key : {"p", "q"}, value : {1, 3}]

Part == [k : {"p", "q"}, v : {1, 2}]
Cookies == {x \in UpTo(UpTo(Part, 2), 2) : \A i \in DOMAIN x : x[i] # <<>>}

A == <<"A">>
Vars == {Fn({}), Fn({<<A, <<"x">>>>}), Fn({<<A, <<>>>>}), Fn({<<A, <<"$", "{", "A", "}">>>>})}
Refs == [s : UpTo({"$", "{", "}", "A", ":-"}, 6), cli : {Fn({})}, env : {Fn({})}, over : Vars]
          \cup [s : {<<"$", "{", "A", ":-", "A", "}">>, <<"$", "{", "A", "}", "$", "{", "A", "}">>,
                     <<"$", "{", "A", ":-", "$", "{", "A", "}", "}">>, <<"A", "$", "{", "$", "{", "A", "}">>},
                cli : Vars, env : Vars, over : Vars]
Lines == [key : {<<"k">>}, value : UpTo({" ", "#", "\"", "\\", "k"}, 4)]

-----------------------------------------------------------------------------
(* Configuration                                                           *)

Leaf == {JNum(1), JNum(2)}
Objects == {JObj(f) : f \in UNION {[d -> Leaf \cup {JObj(Fn({<<"p", JNum(1)>>})), JObj(Fn({<<"q", JNum(2)>>}))}] :
                                   d \in SUBSET {"p", "q"}}}
Docs(j) == [anchors |-> Fn({}), root |-> AsYaml(j)]
FileSystems ==
    LET small == {JObj(Fn({<<"p", JNum(1)>>})), JObj(Fn({<<"p", JObj(Fn({<<"p", JNum(2)>>}))>>})),
                  JObj(Fn({<<"p", JObj(Fn({<<"q", JNum(1)>>}))>>, <<"q", JNum(2)>>})), JNum(1), Missing, Broken}
        applications == {JNum(1), Missing, Broken} \cup {JObj(Fn({<<"c", w>>})) : w \in small \ {Missing, Broken}}
    IN {Fn({<<File("d1", "c", "", "json"), x>>, <<File("d1", "c", "override", "json"), y>>}) :
            x \in Objects, y \in Objects}
       \cup {Fn({<<File("d1", "c", "", "json"), x>>, <<File("d1", "c", "prod", "json"), y>>,
                 <<File("d2", "c", "", "json"), z>>,
                 <<File("d1", "application", "override", "json"),
                   IF w = Missing THEN w ELSE JObj(Fn({<<"c", w>>}))>>}) :
            x \in small, y \in small, z \in small, w \in small \ {Broken}}
       \cup {Fn({<<File("d1", "application", "override", "json"), x>>, <<File("d1", "application", "prod", "yaml"), y>>,
                 <<File("d2", "application", "", "json"), z>>, <<File("d2", "c", "dev", "json"), w>>}) :
            x \in applications, y \in {IF a = Broken THEN a ELSE Docs(a) : a \in applications \ {Missing}},
            z \in applications, w \in {JObj(Fn({<<"p", JNum(1)>>})), Missing}}
       \cup {Fn({<<File("d1", "c", "prod", "json"), x>>, <<File("d1", "c", "prod", "yaml"), Docs(y)>>,
                 <<File("d1", "c", "other", "yml"), Docs(JNum(1))>>, <<File("d2", "c", "", "yml"), Broken>>}) :
            x \in small, y \in Objects}
Yamls == [j : Objects \cup {JNull, JBool(TRUE), JBool(FALSE), JStr(<<"1">>), JStr(<<"true">>), JArr(<<JNum(1), JStr(<<"x">>)>>)},
          base : Objects]

PropFile(b, l) == File("d1", b, l, "properties")
PropNames == {PropFile("application", ""), PropFile("application", "dev"), PropFile("application", "prod"),
              PropFile("mail", ""), PropFile("mail", "dev"), PropFile("web", "prod")}
PropTrees == [fs : {[f \in fs |-> IF f = broken THEN Broken ELSE Holds(Fn({<<A, <<f.base, f.layer>>>>}))] :
                      fs \in {S \in SUBSET PropNames : Cardinality(S) \in 1 .. 3}, broken \in PropNames},
              second : BOOLEAN, order : BOOLEAN]

(* A second directory, listed in some order, holds the same and one more.  *)
Listing(fs, order) == LET s == SetToSeq(DOMAIN fs) IN IF order THEN s ELSE Reverse(s)

ProxyJson(pw, off) ==
    JObj(Fn({<<"host", JStr(<<"h">>)>>, <<"username", JStr(<<"u">>)>>, <<"password", JStr(pw)>>, <<"port", JNum(80)>>}
            \cup (IF off = JNull THEN {} ELSE {<<"disabled", off>>})))
Passwords == {<<"u">>, <<"$", "{", "A", "}">>, <<"$", "{", "A", ":-", "}">>, <<"$", "{", "B", "}">>}
Pools == UpTo({ProxyJson(w, JNull) : w \in Passwords} \cup {ProxyJson(<<"u">>, o) : o \in {JBool(TRUE), JStr(<<"NO">>), JStr(<<"x">>)}}, 2)
Section(pool, insecure, n) ==
    JObj(Fn({<<"proxy_pool", JArr(pool)>>, <<"threads_num", JNum(n)>>}
            \cup (IF insecure = JNull THEN {} ELSE {<<"insecure_skip_verify", insecure>>})))
Sections == {Section(p, JNull, 0) : p \in Pools}
              \cup {Section(<<>>, i, n) : i \in {JBool(TRUE), JStr(<<"$", "{", "B", ":-", "true", "}">>), JNum(0), JNum(2)},
                                          n \in {-1, 1, 9}}

(* The default section may trust more, or lists of the wrong shape.        *)
With(section, k, v) == JObj(Fn({<<k, v>>}) @@ section.f)
Cert(k, v) == JObj(Fn({<<k, v>>, <<"file_format", JStr(<<"pem">>)>>}))
Trusting ==
    LET base == {Section(<<>>, i, 1) : i \in {JNull, JBool(TRUE)}}
        bad == {JNum(1), JArr(<<JNum(1)>>), JArr(<<JObj(Fn({<<"cert_path", JStr(<<"x">>)>>}))>>)}
    IN {With(x, "verify_paths", j) : x \in base, j \in bad \cup {JArr(<<JStr(<<"x">>)>>)}}
       \cup {With(x, "certificates", j) : x \in base,
               j \in bad \cup {JArr(<<Cert("cert_content", JStr(<<>>))>>), JArr(<<Cert("cert_content", JNum(1))>>)}}
       \cup {With(x, "certificate_files", j) : x \in base,
               j \in bad \cup {JArr(<<Cert("cert_path", JStr(<<"$", "{", "A", "}">>))>>)}}
Roots == {[keys |-> <<"proxy_pool", "threads_num">>, root |-> r] : r \in Sections}
           \cup {[keys |-> k, root |-> JObj(Fn({<<k[1], r>>, <<k[2], Section(<<>>, JNull, 1)>>}))] :
                   k \in {<<"default", "x">>, <<"x", "default">>, <<"x", "y">>}, r \in Sections \cup Trusting \cup {JNum(1)}}

(* The variables, as overrides and as properties: a value may be another   *)
(* reference.                                                              *)
Variables == {Fn({<<A, <<"v">>>>}), Fn({<<A, <<"$", "{", "D", "}">>>>, <<<<"D">>, <<"true">>>>}),
              Fn({<<A, <<"$", "{", "B", "}">>>>})}
Clients == [at : Roots, ignore : BOOLEAN, raw : {<<>>, <<"h">>, <<"socks", "://", "h">>, <<":", "1">>},
            vars : Variables]
Iocs == [content : {[ok |-> FALSE, code |-> 5019]}
                     \cup {[ok |-> TRUE, v |-> JObj(Fn({<<"threads_num", j>>} \cup name))] :
                              j \in {JNum(-1), JNum(0), JNum(1), JNum(9), JStr(<<"1">>)},
                              name \in {{}} \cup {{<<"name", n>>} : n \in {JNum(1), JStr(<<"true">>),
                                                                       JStr(<<"$", "{", "A", "}">>)}}},
         cores : 1 .. 4, vars : Variables]
Urls == [scheme : {<<>>, <<"http", "://">>}, user : {<<>>, <<"u">>},
         pw : {<<>>, <<"p">>, <<"p", "@">>, <<":", "@", "p">>}, host : {<<"h">>, <<":", ":", "1">>},
         port : {<<>>, <<"1">>}]

-----------------------------------------------------------------------------
(* JSON, sessions and bytes                                                *)

Scalars == {JNull, JBool(TRUE), JBool(FALSE)} \cup {JNum(n) : n \in -1 .. 2}
             \cup {JStr(s) : s \in Yes \cup No \cup {<<"True">>, <<"NO">>, <<"x">>, <<>>}}
Level1 == {JNull, JBool(TRUE), JObj(Fn({})), JObj(Fn({<<"a", JNull>>})), JObj(Fn({<<"a", JObj(Fn({}))>>}))}
Level2 == Level1 \cup {JObj(Fn({<<"a", j>>})) : j \in Level1}
Lookups == {JObj(Fn({<<k, j>>})) : k \in {"a", "b"}, j \in Level2} \cup Level1

Bytes == [b : UpTo({0, 1, 91, 251, 255}, 4), distance : {2, 5}]

-----------------------------------------------------------------------------
Parts == {"railway", "zip", "answer", "bypass", "query", "cookie", "refs", "line", "layers", "yaml", "props",
          "client", "url", "ioc", "bools", "lookup", "session", "foreign", "bytes"}
Inputs(p) ==
    CASE p = "railway" -> Railways [] p = "zip" -> Zips [] p = "answer" -> Answers
      [] p = "bypass" -> Bypasses [] p = "query" -> Queries [] p = "cookie" -> Cookies
      [] p = "refs" -> Refs [] p = "line" -> Lines
      [] p = "layers" -> FileSystems [] p = "yaml" -> Yamls [] p = "props" -> PropTrees
      [] p = "client" -> Clients [] p = "url" -> Urls [] p = "ioc" -> Iocs
      [] p = "bools" -> Scalars
      [] p = "lookup" -> Lookups [] p = "session" -> Sessions [] p = "foreign" -> Foreigns
      [] p = "bytes" -> Bytes

MCInit == ConfigInit /\ input = None /\ part \in Parts \cup {"config"}

Take == /\ part # "config" /\ input = None
        /\ \E x \in Inputs(part) : input' = <<x>>
        /\ UNCHANGED <<part, configVars>>

Texts == {<<>>, <<"x">>, <<"$", "{", "B", "}">>}
Names == {"A", "B"}
OneFile(v) == Fn({<<PropFile("application", ""), Holds(Fn({<<A, v>>}))>>})
Configure ==
    /\ part = "config" /\ UNCHANGED <<part, input>>
    /\ \/ \E k \in Names, v \in Texts : SetCliOverride(<<k>>, v)
       \/ \E v \in Texts : MergeEnvOverrides(Fn({<<A, v>>})) \/ SetEnv(A, v)
       \/ \E v \in Texts : BuildAppProperties(OneFile(v), <<<<PropFile("application", "")>>>>, <<>>)

MCNext == Take \/ Configure
MCSpec == MCInit /\ [][MCNext]_allVars

-----------------------------------------------------------------------------
(* Text means what it says: NO_PROXY, query parameters and cookies,        *)
(* references to variables, the lines that set them, and base64.           *)
TextMeaning ==
    /\ On("bypass", LAMBDA x : BypassOK(x.list, x.lower, x.host))
    /\ On("query", LAMBDA x : QueryOK(x.params, x.key, x.value))
    /\ On("cookie", LAMBDA x : CookieOK(x, "p"))
    /\ On("refs", LAMBDA x : ReferencesOK(x.cli, x.env, x.over, x.s))
    /\ On("line", LAMBDA x : EnvLineOK(x.key, x.value))
    /\ On("bytes", LAMBDA x : Base64OK(x.b, x.distance))


(* The client's profiles, proxies and switches are what the merged files   *)
(* say once variables are put in, in the two passes that PassesAgree is    *)
(* about; one profile, the default, decides about verification for all.    *)
ClientSettings ==
    /\ PassesAgree(Names)
    /\ On("client", LAMBDA x : ClientConfigOK(x.at.keys, x.at.root, x.ignore, x.raw,
                                              Fn({}), Fn({}), x.vars, x.vars, 4))
    /\ On("url", LAMBDA x : ProxyUrlOK(x.scheme, x.user, x.pw, x.host, x.port))
    /\ On("ioc", LAMBDA x : ThreadsOK(x.content, x.cores, Fn({}), Fn({}), x.vars, x.vars))
    /\ On("bools", BoolsOK)
    /\ On("lookup", LAMBDA j : \A k \in {"a", "b"} : LookupOK(j, k, "a", "a"))
=============================================================================
