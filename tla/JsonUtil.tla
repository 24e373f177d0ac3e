------------------------------- MODULE JsonUtil -------------------------------
(***************************************************************************)
(* jsonutil (json_util.cpp): reading bools and objects out of JSON, and    *)
(* putting variables into it, after ConfigSources (simple_data.hpp) has    *)
(* put its own.  A string is a text as EnvText has it.                     *)
(***************************************************************************)
EXTENDS EnvText, JsonValue

Err1 == [ok |-> FALSE, code |-> 1]
ErrAt(code) == [ok |-> FALSE, code |-> code]
Good(v) == [ok |-> TRUE, v |-> v]

(* Texts that differ in case only.                                         *)
Lower(s) == IF s = <<"True">> THEN <<"true">> ELSE IF s = <<"NO">> THEN <<"no">> ELSE s
Yes == {<<"true">>, <<"1">>, <<"yes">>, <<"on">>}
No == {<<"false">>, <<"0">>, <<"no">>, <<"off">>}

(* A bool in a set, or nothing.                                            *)
ParseBoolLike(j) ==
    IF j.t = "bool" THEN {j.b}
    ELSE IF j.t = "num" /\ j.n \in {0, 1} THEN {j.n = 1}
    ELSE IF j.t = "str" /\ Lower(j.s) \in Yes THEN {TRUE}
    ELSE IF j.t = "str" /\ Lower(j.s) \in No THEN {FALSE} ELSE {}

BoolWithContext(j) ==
    IF ParseBoolLike(j) = {} THEN Err1 ELSE Good(CHOOSE b \in ParseBoolLike(j) : TRUE)
BoolOrThrow(j) ==
    LET r == BoolWithContext(j) IN IF r.ok THEN Got(r.v) ELSE Threw

(* bool_from_json_ob: everything it does not know is false, and it tells   *)
(* upper from lower case.                                                  *)
BoolFromJsonOb(j, key) ==
    LET v == IF key = "" THEN j ELSE IF HasField(j, key) THEN j.f[key] ELSE JNull
    IN IF v.t = "bool" THEN v.b ELSE v.t = "str" /\ v.s \in Yes

-----------------------------------------------------------------------------
(* Objects and values by their keys.                                       *)

ConsumeObjectAt(j, k1) ==
    IF HasField(j, k1) /\ IsObject(j.f[k1]) THEN Good(j.f[k1]) ELSE Err1
ReferenceObjectAt(j, k1) ==
    IF HasField(j, k1) /\ IsObject(j.f[k1]) THEN Good(j.f[k1]) ELSE Err1
ConsumeValueAt(j, k1) == IF HasField(j, k1) THEN Good(j.f[k1]) ELSE Err1
ReferenceValueAt(j, k1) == IF HasField(j, k1) THEN Good(j.f[k1]) ELSE Err1

ExpectObjectAt(j, k1, k2) ==
    IF ~IsObject(j) THEN ErrAt(1)
    ELSE IF ~HasField(j, k1) THEN ErrAt(2)
    ELSE IF ~IsObject(j.f[k1]) THEN ErrAt(3)
    ELSE IF ~HasField(j.f[k1], k2) THEN ErrAt(4)
    ELSE IF ~IsObject(j.f[k1].f[k2]) THEN ErrAt(5) ELSE Good(j.f[k1].f[k2])
ExpectObjectAt3(j, k1, k2, k3) ==
    LET two == ExpectObjectAt(j, k1, k2)
    IN IF ~two.ok THEN two
       ELSE IF ~HasField(two.v, k3) THEN ErrAt(6)
       ELSE IF ~IsObject(two.v.f[k3]) THEN ErrAt(7) ELSE Good(two.v.f[k3])

ExpectTrueAt(j, k1) == IF HasField(j, k1) /\ j.f[k1] = JBool(TRUE) THEN Good(TRUE) ELSE Err1

-----------------------------------------------------------------------------
(* ConfigSources::expand_env, on every string of a value.                  *)
RECURSIVE ExpandEnv(_, _, _, _)
ExpandEnv(cli, env, over, j) ==
    IF j.t = "obj" THEN JObj([k \in DOMAIN j.f |-> ExpandEnv(cli, env, over, j.f[k])])
    ELSE IF j.t = "arr" THEN JArr([i \in DOMAIN j.e |-> ExpandEnv(cli, env, over, j.e[i])])
    ELSE IF j.t = "str" THEN JStr(ExpandEnvInString(cli, env, over, j.s)) ELSE j

(* substitue_envs: a string that becomes "true" or "false" becomes a bool. *)

RECURSIVE SubstitueEnvs(_, _, _, _)
SubstitueEnvs(cli, env, props, j) ==
    IF j.t = "obj" THEN JObj([k \in DOMAIN j.f |-> SubstitueEnvs(cli, env, props, j.f[k])])
    ELSE IF j.t = "arr" THEN JArr([i \in DOMAIN j.e |-> SubstitueEnvs(cli, env, props, j.e[i])])
    ELSE IF j.t = "str"
    THEN LET s == ReplaceEnvVar(cli, env, props, j.s)
         IN IF s = <<"true">> THEN JBool(TRUE) ELSE IF s = <<"false">> THEN JBool(FALSE) ELSE JStr(s)
    ELSE j

-----------------------------------------------------------------------------
(* A switch that is on for bool_from_json_ob is on for bool_or_throw, and  *)
(* where the two differ bool_or_throw has found a number or a word in      *)
(* capitals, or throws; a number reads as its digits do, and what          *)
(* substitue_envs makes a bool reads the same.                             *)
BoolsOK(j) ==
    LET strict == BoolOrThrow(j)
    IN /\ BoolFromJsonOb(j, "") => strict = Got(TRUE)
       /\ (strict = Got(TRUE) /\ ~BoolFromJsonOb(j, "")) => j.t = "num" \/ (j.t = "str" /\ Lower(j.s) # j.s)
       /\ j.t = "num" => strict = BoolOrThrow(JStr(<<ToString(j.n)>>))
       /\ LET none == [v \in {} |-> 0]
          IN ~strict.threw => BoolOrThrow(SubstitueEnvs(none, none, none, j)) = strict

(* expect_object_at says how far it came: an even code is a missing key,   *)
(* an odd one something else than an object; two and three keys agree with *)
(* one lookup after the other.                                             *)
LookupOK(j, k1, k2, k3) ==
    LET one == ReferenceObjectAt(j, k1)
        two == ExpectObjectAt(j, k1, k2)
        three == ExpectObjectAt3(j, k1, k2, k3)
    IN /\ two.ok <=> one.ok /\ ReferenceObjectAt(one.v, k2).ok
       /\ two.ok => two = ConsumeObjectAt(one.v, k2) /\ three.ok = ConsumeObjectAt(two.v, k3).ok
       /\ three.ok => three = ConsumeValueAt(two.v, k3)
       /\ ~two.ok => three = two
       /\ ~three.ok => /\ three.code % 2 = 0 => ~ReferenceValueAt(
                                   IF three.code = 2 THEN j ELSE IF three.code = 4 THEN one.v ELSE two.v,
                                   IF three.code = 2 THEN k1 ELSE IF three.code = 4 THEN k2 ELSE k3).ok
                       /\ three.code > 3 => one.ok
       /\ ExpectTrueAt(j, k1).ok => BoolFromJsonOb(j, k1)
=============================================================================
