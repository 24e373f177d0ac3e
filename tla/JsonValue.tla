------------------------------ MODULE JsonValue ------------------------------
(***************************************************************************)
(* boost::json::value as the code uses it: null, a bool, a number, a       *)
(* string, an array or an object.  Numbers are integers.                   *)
(***************************************************************************)
EXTENDS Integers, Sequences

JNull == [t |-> "null"]
JBool(b) == [t |-> "bool", b |-> b]
JNum(n) == [t |-> "num", n |-> n]
JStr(x) == [t |-> "str", s |-> x]
JArr(s) == [t |-> "arr", e |-> s]
JObj(f) == [t |-> "obj", f |-> f]

IsObject(j) == j.t = "obj"
HasField(j, k) == IsObject(j) /\ k \in DOMAIN j.f

(* A conversion: what it gives, or that it threw.                          *)
Threw == [threw |-> TRUE]
Got(v) == [threw |-> FALSE, v |-> v]
=============================================================================
