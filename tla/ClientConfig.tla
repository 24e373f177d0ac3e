----------------------------- MODULE ClientConfig -----------------------------
(***************************************************************************)
(* The configuration of the HTTP client (http_client_config_provider.hpp): *)
(* profiles with their proxies, the proxy of the environment, the threads  *)
(* (also ioc_manager_config_provider.hpp) and the verification of peers    *)
(* (client_ssl_ctx.hpp).                                                   *)
(***************************************************************************)
EXTENDS JsonUtil

SslMethods == {<<"tlsv12_client">>, <<"tls">>}      \* the names of the table
SslMethodFromString(s) == IF s \in SslMethods THEN Got(s) ELSE Threw

(* ProxySetting from JSON: a port may be a number.                         *)
Proxy(host, port, user, pw) ==
    [host |-> host, port |-> port, username |-> user, password |-> pw, fromEnv |-> FALSE]
ProxyFromJson(j) ==
    LET text(k) == HasField(j, k) /\ j.f[k].t = "str"
        port == IF ~HasField(j, "port") THEN Got(<<>>)
                ELSE IF j.f["port"].t = "str" THEN Got(j.f["port"].s)
                ELSE IF j.f["port"].t = "num" THEN Got(<<j.f["port"].n>>) ELSE Threw
        off == IF HasField(j, "disabled") THEN BoolOrThrow(j.f["disabled"]) ELSE Got(FALSE)
    IN IF ~text("host") \/ ~text("username") \/ ~text("password") \/ port.threw \/ off.threw THEN Threw
       ELSE Got([p |-> Proxy(j.f["host"].s, port.v, j.f["username"].s, j.f["password"].s),
                 disabled |-> off.v])

Unresolved(s) == \E i \in DOMAIN s : i < Len(s) /\ s[i] = "$" /\ s[i + 1] = "{"

\* Mutant: placeholders in the password are not looked for.
UsableNoPassword(x) == ~x.disabled /\ ~Unresolved(x.p.username)

(* What stays in the pool.                                                 *)
Usable(x) == ~x.disabled /\ ~Unresolved(x.p.username) /\ ~Unresolved(x.p.password)

(* A list of texts; a list of certificates, with the field that matters.   *)
TextsFromJson(j) ==
    IF j.t # "arr" THEN Threw
    ELSE IF \E i \in DOMAIN j.e : j.e[i].t # "str" THEN Threw
    ELSE Got([i \in DOMAIN j.e |-> j.e[i].s])
CertificatesFromJson(j, field) ==
    LET text(x, k) == HasField(x, k) /\ x.f[k].t = "str"
    IN IF j.t # "arr" THEN Threw
       ELSE IF \E i \in DOMAIN j.e : ~text(j.e[i], field) \/ ~text(j.e[i], "file_format") THEN Threw
       ELSE Got([i \in DOMAIN j.e |-> j.e[i].f[field].s])

(* HttpclientConfig from JSON; any exception is thrown on.                 *)
ConfigFromJson(j) ==
    LET method == IF HasField(j, "ssl_method")
                  THEN IF j.f["ssl_method"].t = "str" THEN SslMethodFromString(j.f["ssl_method"].s) ELSE Threw
                  ELSE Got(<<"tlsv12_client">>)
        insecure == IF HasField(j, "insecure_skip_verify")
                    THEN BoolOrThrow(j.f["insecure_skip_verify"]) ELSE Got(FALSE)
        list == IF HasField(j, "proxy_pool") THEN j.f["proxy_pool"] ELSE JArr(<<>>)
        pool == [i \in DOMAIN list.e |-> ProxyFromJson(list.e[i])]
        field(k) == IF HasField(j, k) THEN j.f[k] ELSE JArr(<<>>)
        paths == TextsFromJson(field("verify_paths"))
        certs == CertificatesFromJson(field("certificates"), "cert_content")
        files == CertificatesFromJson(field("certificate_files"), "cert_path")
    IN IF ~HasField(j, "threads_num") \/ j.f["threads_num"].t # "num" \/ method.threw \/ insecure.threw
          \/ paths.threw \/ certs.threw \/ files.threw \/ list.t # "arr" THEN Threw
       ELSE IF j.f["threads_num"].n < 0 \/ \E i \in DOMAIN pool : pool[i].threw THEN Threw
       ELSE LET kept == SelectSeq([i \in DOMAIN pool |-> pool[i].v], Usable)
            IN Got([threads |-> j.f["threads_num"].n, insecure |-> insecure.v,
                    verify_paths |-> paths.v, certificates |-> certs.v, certificate_files |-> files.v,
                    pool |-> [i \in DOMAIN kept |-> kept[i].p]])

(* Threads: never more than the machine has; 0 means all of them.          *)
GetThreadsNum(n, cores) == IF n = 0 THEN cores ELSE IF n > cores THEN cores ELSE n

-----------------------------------------------------------------------------
(* parse_configs.  The root is its keys in order and their values.         *)

KnownKeys == {"threads_num", "ssl_method", "verify_paths", "certificates", "certificate_files", "proxy_pool"}
LooksLikeSingle(keys) == \E i \in DOMAIN keys : keys[i] \in KnownKeys

ParseConfigs(keys, root) ==
    LET parsed == [i \in DOMAIN keys |-> ConfigFromJson(root.f[keys[i]])]
        single == ConfigFromJson(root)
    IN IF LooksLikeSingle(keys)
       THEN IF single.threw THEN Threw
            ELSE Got([configs |-> [k \in {"default"} |-> single.v], default |-> "default"])
       ELSE IF keys = <<>> \/ \E i \in DOMAIN keys : ~IsObject(root.f[keys[i]]) \/ parsed[i].threw THEN Threw
       ELSE Got([configs |-> [k \in DOMAIN root.f |-> ConfigFromJson(root.f[k]).v],
                 default |-> IF "default" \in DOMAIN root.f THEN "default" ELSE keys[1]])

(* ClientSSLContext: one for all profiles, from the default one; and what  *)
(* it trusts besides the system's certificates.                            *)
VerifyMode(loaded) ==
    IF loaded.configs[loaded.default].insecure THEN "verify_none" ELSE "verify_peer"
Trusted(loaded) ==
    LET c == loaded.configs[loaded.default]
    IN IF c.insecure THEN {}
       ELSE Range(c.verify_paths) \cup ((Range(c.certificate_files) \cup Range(c.certificates)) \ {<<>>})

-----------------------------------------------------------------------------
(* parse_proxy_env_value on characters; "://" counts as one.  Nothing is   *)
(* an empty set; a socks scheme throws.                                    *)

HostPort(h) ==
    LET colons == At(h, ":", 1)
        end == At(h, "]", 1)
    IN IF h # <<>> /\ h[1] = "["
       THEN IF end = {} THEN [host |-> <<>>, port |-> <<>>]
            ELSE [host |-> Cut(h, 2, Min(end) - 1),
                  port |-> IF Min(end) < Len(h) /\ h[Min(end) + 1] = ":"
                           THEN Cut(h, Min(end) + 2, Len(h)) ELSE <<>>]
       ELSE IF colons # {} /\ Max(colons) < Len(h)
       THEN [host |-> Cut(h, 1, Max(colons) - 1), port |-> Cut(h, Max(colons) + 1, Len(h))]
       ELSE [host |-> h, port |-> <<>>]

AuthEnd(s) == IF At(s, "@", 1) = {} THEN 0 ELSE Max(At(s, "@", 1))

ParseProxyEnvValue(raw) ==
    LET trimmed == LTrim(RTrim(raw))
        sep == At(trimmed, "://", 1)
        scheme == IF sep = {} THEN <<>> ELSE Cut(trimmed, 1, Min(sep) - 1)
        rest == IF sep = {} THEN trimmed ELSE Cut(trimmed, Min(sep) + 1, Len(trimmed))
        s == IF At(rest, "/", 1) = {} THEN rest ELSE Cut(rest, 1, Min(At(rest, "/", 1)) - 1)
        auth == Cut(s, 1, AuthEnd(s) - 1)
        colon == At(auth, ":", 1)
        hp == HostPort(Cut(s, AuthEnd(s) + 1, Len(s)))
    IN IF scheme # <<>> /\ scheme[1] = "socks" THEN Threw
       ELSE IF hp.host = <<>> THEN Got({})
       ELSE Got({Proxy(hp.host, IF hp.port = <<>> THEN <<"80">> ELSE hp.port,
                       IF colon = {} THEN auth ELSE Cut(auth, 1, Min(colon) - 1),
                       IF colon = {} THEN <<>> ELSE Cut(auth, Min(colon) + 1, Len(auth)))})

(* inherit_env_proxy_if_enabled: a profile without a usable proxy of its   *)
(* own takes the one of the environment.                                   *)
Inherit(c, envProxy) ==
    IF c.pool = <<>> /\ envProxy # {}
    THEN [c EXCEPT !.pool = <<[(CHOOSE p \in envProxy : TRUE) EXCEPT !.fromEnv = TRUE]>>] ELSE c
InheritEnvProxy(loaded, ignore, raw) ==
    LET env == ParseProxyEnvValue(raw)
    IN IF ignore \/ raw = <<>> THEN Got(loaded)
       ELSE IF env.threw THEN Threw
       ELSE Got([loaded EXCEPT !.configs = [k \in DOMAIN loaded.configs |->
                                              Inherit(loaded.configs[k], env.v)]])

(* What json_content and then substitue_envs make of the merged files.     *)
Expanded(root, cli, env, over, props) ==
    SubstitueEnvs(cli, env, props, ExpandEnv(cli, env, over, root))

(* HttpclientConfigProviderFile                                            *)
LoadClientConfig(keys, root, ignore, raw, cli, env, over, props) ==
    LET p == ParseConfigs(keys, Expanded(root, cli, env, over, props))
    IN IF p.threw THEN p ELSE InheritEnvProxy(p.v, ignore, raw)

(* IocConfigProviderFile: without a file, half of the cores.  A negative   *)
(* number from a file is not refused, and a name that substitue_envs has   *)
(* made a bool is.                                                         *)
IocFromJson(j) ==
    IF ~HasField(j, "threads_num") \/ j.f["threads_num"].t # "num" THEN Threw
    ELSE IF HasField(j, "name") /\ j.f["name"].t # "str" THEN Threw
    ELSE Got([threads |-> j.f["threads_num"].n,
              name |-> IF HasField(j, "name") THEN j.f["name"].s ELSE <<"net">>])
LoadIocConfig(content, cores, cli, env, over, props) ==
    IF content.ok THEN IocFromJson(Expanded(content.v, cli, env, over, props))
    ELSE Got([threads |-> IF cores \div 2 < 1 THEN 1 ELSE cores \div 2, name |-> <<"main">>])

-----------------------------------------------------------------------------
(* Of a profile c and its section of the file: no pool has a proxy that is *)
(* switched off or whose credentials are a placeholder; the proxy of the   *)
(* environment stands alone and only where the profile has no usable one,  *)
(* and nowhere if it is to be ignored.                                     *)
ProfileOK(c, section, ignore, cores) ==
    LET own == IF HasField(section, "proxy_pool") THEN section.f["proxy_pool"].e ELSE <<>>
        fine(x) == ~Unresolved(x.f["username"].s) /\ ~Unresolved(x.f["password"].s)
                   /\ (HasField(x, "disabled") => BoolOrThrow(x.f["disabled"]) = Got(FALSE))
        kept == SelectSeq(own, fine)
    IN /\ \A i \in DOMAIN c.pool :
             IF c.pool[i].fromEnv THEN ~ignore /\ Len(c.pool) = 1 ELSE
             ~Unresolved(c.pool[i].username) /\ ~Unresolved(c.pool[i].password)
       /\ kept # <<>> => [i \in DOMAIN c.pool |-> c.pool[i].host] = [i \in DOMAIN kept |-> kept[i].f["host"].s]
       /\ GetThreadsNum(c.threads, cores) \in 1 .. cores

(* If the configuration loads, the default profile is one of its profiles, *)
(* each is what its section says after both passes over the variables, and *)
(* peers of all profiles go unverified exactly if the default profile's    *)
(* section says so; another profile has no say in that.                    *)
ClientConfigOK(keys, root, ignore, raw, cli, env, over, props, cores) ==
    \A r \in {LoadClientConfig(keys, root, ignore, raw, cli, env, over, props)} : ~r.threw =>
       LET jv == Expanded(root, cli, env, over, props)
           section(k) == IF LooksLikeSingle(keys) THEN jv ELSE jv.f[k]
           asked(j) == HasField(j, "insecure_skip_verify") /\ ParseBoolLike(j.f["insecure_skip_verify"]) = {TRUE}
       IN /\ r.v.default \in DOMAIN r.v.configs
          /\ "default" \in DOMAIN r.v.configs => r.v.default = "default"
          /\ \A k \in DOMAIN r.v.configs : ProfileOK(r.v.configs[k], section(k), ignore, cores)
          /\ VerifyMode(r.v) = "verify_none" <=> asked(section(r.v.default))
          /\ VerifyMode(r.v) = "verify_none" => Trusted(r.v) = {}

(* There is a thread to run on, unless a file asks for fewer than none:    *)
(* that number goes through as it is, although IocConfig's constructor     *)
(* refuses one.  Without a file nothing can go wrong.                      *)
ThreadsOK(content, cores, cli, env, over, props) ==
    \A r \in {LoadIocConfig(content, cores, cli, env, over, props)} :
       /\ ~r.threw => GetThreadsNum(r.v.threads, cores) \in 1 .. cores
                      \/ (content.ok /\ r.v.threads < 0 /\ GetThreadsNum(r.v.threads, cores) = r.v.threads)
       /\ ~content.ok => ~r.threw

(* A proxy written as a URL is read back, whatever the password holds but  *)
(* a slash, with an IPv6 host in brackets, and port 80 if there is none.   *)
ProxyUrlOK(scheme, user, pw, host, port) ==
    LET six == At(host, ":", 1) # {}
        url == scheme \o (IF user = <<>> /\ pw = <<>> THEN <<>> ELSE user \o <<":">> \o pw \o <<"@">>)
               \o (IF six THEN <<"[">> \o host \o <<"]">> ELSE host)
               \o (IF port = <<>> THEN <<>> ELSE <<":">> \o port) \o <<"/">>
    IN ParseProxyEnvValue(<<" ">> \o url) =
          Got({Proxy(host, IF port = <<>> THEN <<"80">> ELSE port, user, pw)})
=============================================================================
