----------------------------- MODULE SessionData -----------------------------
(***************************************************************************)
(* SessionAttributes and Permission as JSON (simple_data.hpp), and the     *)
(* base64 of base64.cpp.                                                   *)
(*                                                                         *)
(* The attributes are a function from the fields that are set; a list is   *)
(* always set, and so is auth_by.                                          *)
(***************************************************************************)
EXTENDS JsonValue, SequencesExt, FiniteSetsExt

IntFields == {"user_id", "apikey_id", "created_at", "auth_time", "email_verified_at", "phone_verified_at"}
StrFields == {"user_name", "user_email", "acr", "credential_id", "country_of_residence",
              "preferred_market_id", "preferred_locale", "preferred_currency", "user_state"}
BoolFields == {"mfa", "webauthn_platform", "attestation_verified", "email_verified", "phone_verified"}
ListFields == {"user_roles", "amr"}

Permission(obtype, obid, actions) == [obtype |-> obtype, obid |-> obid, actions |-> actions]
Strings(s) == JArr([i \in DOMAIN s |-> JStr(s[i])])

PermissionToJson(p) ==
    JObj([k \in {"obtype", "obid", "actions"} |-> IF k = "actions" THEN Strings(p.actions) ELSE JStr(p[k])])

(* A vector of strings, and of permissions: one wrong element throws.      *)
StringsFromJson(j) ==
    IF j.t # "arr" \/ \E i \in DOMAIN j.e : j.e[i].t # "str" THEN Threw
    ELSE Got([i \in DOMAIN j.e |-> j.e[i].s])
PermissionFromJson(j) ==
    IF \E k \in {"obtype", "obid", "actions"} : ~HasField(j, k) THEN Threw
    ELSE IF j.f["obtype"].t # "str" \/ j.f["obid"].t # "str" \/ StringsFromJson(j.f["actions"]).threw THEN Threw
    ELSE Got(Permission(j.f["obtype"].s, j.f["obid"].s, StringsFromJson(j.f["actions"]).v))
PermissionsFromJson(j) ==
    IF j.t # "arr" \/ \E i \in DOMAIN j.e : PermissionFromJson(j.e[i]).threw THEN Threw
    ELSE Got([i \in DOMAIN j.e |-> PermissionFromJson(j.e[i]).v])

(* add_permissions_from_string: all that the text holds, or none.          *)
AddPermissions(sa, j) ==
    LET p == PermissionsFromJson(j)
    IN IF p.threw THEN sa ELSE [sa EXCEPT !["user_permissions"] = @ \o p.v]

-----------------------------------------------------------------------------

FieldSet(sa, k) == k \in DOMAIN sa /\ (k \in ListFields \cup {"user_permissions"} => sa[k] # <<>>)

FieldToJson(sa, k) ==
    IF k \in IntFields \cup {"auth_by"} THEN JNum(sa[k])
    ELSE IF k \in StrFields THEN JStr(sa[k])
    ELSE IF k \in BoolFields THEN JBool(sa[k])
    ELSE IF k \in ListFields THEN Strings(sa[k])
    ELSE JArr([i \in DOMAIN sa[k] |-> PermissionToJson(sa[k][i])])

SessionToJson(sa) == JObj([k \in {x \in DOMAIN sa : FieldSet(sa, x)} |-> FieldToJson(sa, k)])

(* parse_optional_bool: lenient, and null or nonsense is absent.           *)
ParseOptionalBool(j) ==
    IF j.t = "bool" THEN {j.b}
    ELSE IF j.t = "num" THEN {j.n # 0}
    ELSE IF j.t = "str" /\ j.s \in {"true", "1"} THEN {TRUE}
    ELSE IF j.t = "str" /\ j.s \in {"false", "0"} THEN {FALSE} ELSE {}

(* The other fields throw when they have another type.                     *)
FieldFromJson(k, j) ==
    IF k \in IntFields \cup {"auth_by"} THEN IF j.t = "num" THEN Got(j.n) ELSE Threw
    ELSE IF k \in StrFields THEN IF j.t = "str" THEN Got(j.s) ELSE Threw
    ELSE IF k \in BoolFields THEN Got(CHOOSE b \in ParseOptionalBool(j) : TRUE)
    ELSE IF k \in ListFields THEN StringsFromJson(j) ELSE PermissionsFromJson(j)

EmptySession ==
    [k \in ListFields \cup {"user_permissions", "auth_by"} |-> IF k = "auth_by" THEN 0 ELSE <<>>]

SessionFromJson(j) ==
    LET known == IntFields \cup StrFields \cup BoolFields \cup DOMAIN EmptySession
        there == IF IsObject(j) THEN {k \in DOMAIN j.f : k \in known} ELSE {}
        read == {k \in there : k \in BoolFields => ParseOptionalBool(j.f[k]) # {}}
    IN IF \E k \in read : FieldFromJson(k, j.f[k]).threw THEN Threw
       ELSE Got([k \in DOMAIN EmptySession \cup read |->
                   IF k \in read THEN FieldFromJson(k, j.f[k]).v ELSE EmptySession[k]])

-----------------------------------------------------------------------------
(* base64: a character is its position; the alphabets differ in the last   *)
(* two.  Padding is "=" or ".".                                            *)

CharOf(n, url) == [n |-> n, url |-> url /\ n > 61]
Pad(url) == [n |-> -1, url |-> url]
IsPad(c) == c.n = -1
Break == [n |-> -2, url |-> FALSE]

(* pos_of_char takes both alphabets; below 0 it throws.                    *)
PosOfChar(c) == c.n

(* Three bytes at i (0-based), or what is left of them.                    *)
EncodeGroup(b, i, url) ==
    LET n == Len(b) - i
        x == b[i + 1]
        y == IF n > 1 THEN b[i + 2] ELSE 0
        z == IF n > 2 THEN b[i + 3] ELSE 0
    IN <<CharOf(x \div 4, url), CharOf((x % 4) * 16 + y \div 16, url),
         IF n > 1 THEN CharOf((y % 16) * 4 + z \div 64, url) ELSE Pad(url),
         IF n > 2 THEN CharOf(z % 64, url) ELSE Pad(url)>>
Base64Encode(b, url) ==
    FlattenSeq([g \in 1 .. (Len(b) + 2) \div 3 |-> EncodeGroup(b, 3 * (g - 1), url)])

(* Four characters at i, or what is left: padding may be missing, but two  *)
(* characters must be there.                                               *)
DecodeGroup(s, i) ==
    LET p(k) == PosOfChar(s[i + k])
        has(k) == i + k <= Len(s) /\ ~IsPad(s[i + k])
        bytes == IF ~has(3) THEN 1 ELSE IF ~has(4) THEN 2 ELSE 3
    IN IF i + 2 > Len(s) THEN Threw
       ELSE IF \E k \in 1 .. bytes + 1 : p(k) < 0 THEN Threw
       ELSE Got(SubSeq(<<p(1) * 4 + p(2) \div 16>>
                       \o (IF bytes > 1 THEN <<(p(2) % 16) * 16 + p(3) \div 4>> ELSE <<>>)
                       \o (IF bytes > 2 THEN <<(p(3) % 4) * 64 + p(4)>> ELSE <<>>), 1, bytes))
Base64Decode(text, removeLinebreaks) ==
    LET s == IF removeLinebreaks THEN SelectSeq(text, LAMBDA c : c # Break) ELSE text
        groups == [g \in 1 .. (Len(s) + 3) \div 4 |-> DecodeGroup(s, 4 * (g - 1))]
    IN IF \E g \in DOMAIN groups : groups[g].threw THEN Threw
       ELSE Got(FlattenSeq([g \in DOMAIN groups |-> groups[g].v]))

(* insert_linebreaks: after every so many characters, not after the last.  *)
InsertLinebreaks(s, distance) ==
    FlattenSeq([i \in DOMAIN s |-> IF i % distance = 0 /\ i < Len(s) THEN <<s[i], Break>> ELSE <<s[i]>>])

-----------------------------------------------------------------------------
(* What is written is read back: with all fields and values, false and the *)
(* empty string too.                                                       *)
SessionRoundTrip(sa) == SessionFromJson(SessionToJson(sa)) = Got(sa)

(* What was read from foreign JSON survives being written and read; a      *)
(* field that is not a bool is there only with its own type.               *)
SessionReadOK(j) ==
    LET r == SessionFromJson(j)
    IN ~r.threw => /\ SessionRoundTrip(r.v)
                   /\ \A k \in DOMAIN r.v \ (BoolFields \cup DOMAIN EmptySession) : FieldToJson(r.v, k) = j.f[k]
                   /\ AddPermissions(r.v, JNull) = r.v
                   /\ HasField(j, "user_permissions") =>
                         Len(AddPermissions(r.v, j.f["user_permissions"])["user_permissions"])
                            = 2 * Len(r.v["user_permissions"])

(* The six bits of every character are the bits of the bytes in order, the *)
(* rest zero; decoding takes both alphabets, lines and missing padding.    *)
Bit(n, k) == (n \div 2^k) % 2
Base64OK(b, distance) ==
    LET bit(i) == IF i \div 8 < Len(b) THEN Bit(b[i \div 8 + 1], 7 - (i % 8)) ELSE 0
    IN \A url \in BOOLEAN :
         LET s == Base64Encode(b, url)
             bare == SelectSeq(s, LAMBDA c : ~IsPad(c))
         IN /\ Len(s) % 4 = 0 /\ 6 * Len(bare) >= 8 * Len(b) /\ 6 * Len(bare) < 8 * Len(b) + 6
            /\ \A i \in 0 .. 6 * Len(bare) - 1 : Bit(PosOfChar(bare[i \div 6 + 1]), 5 - (i % 6)) = bit(i)
            /\ Base64Decode(s, FALSE) = Got(b) /\ Base64Decode(bare, FALSE) = Got(b)
            /\ Base64Decode(InsertLinebreaks(s, distance), TRUE) = Got(b)
=============================================================================
