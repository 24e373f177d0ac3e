------------------------------- MODULE EnvText -------------------------------
(***************************************************************************)
(* References to variables in text, ${VAR} and ${VAR:-default}, which two  *)
(* functions expand: ConfigSources::expand_env_in_string (simple_data.hpp) *)
(* and jsonutil::replace_env_var (json_util.cpp); and the lines of a       *)
(* .properties file (env_file_parser.hpp).  A text is a sequence of        *)
(* characters; ":-" counts as one.                                         *)
(***************************************************************************)
EXTENDS Integers, Sequences, SequencesExt, FiniteSetsExt

At(s, x, i) == {j \in i .. Len(s) : s[j] = x}
Cut(s, i, j) == SubSeq(s, i, j)

(* A reference starts at i, and where it ends.                             *)
Opens(s, i) == i < Len(s) /\ s[i] = "$" /\ s[i + 1] = "{" /\ At(s, "}", i + 2) # {}
Closes(s, i) == Min(At(s, "}", i + 2))

(* A token: the variable and, in a set, its default.                       *)
Var(token) ==
    IF At(token, ":-", 1) = {} THEN token ELSE Cut(token, 1, Min(At(token, ":-", 1)) - 1)
Default(token) ==
    IF At(token, ":-", 1) = {} THEN {}
    ELSE {Cut(token, Min(At(token, ":-", 1)) + 1, Len(token))}

(* The value of a variable, in a set: the command line, then the           *)
(* environment unless it is empty, then the overrides or properties.       *)
ResolveEnvVar(cli, env, over, var) ==
    IF var \in DOMAIN cli THEN {cli[var]}
    ELSE IF var \in DOMAIN env /\ env[var] # <<>> THEN {env[var]}
    ELSE IF var \in DOMAIN over THEN {over[var]} ELSE {}

(* What a reference becomes: an empty default counts, and an unresolved    *)
(* reference stays as it is.                                               *)
ExpandRef(cli, env, over, ref) ==
    LET token == Cut(ref, 3, Len(ref) - 1)
        found == ResolveEnvVar(cli, env, over, Var(token))
    IN IF found # {} THEN found ELSE IF Default(token) # {} THEN Default(token) ELSE {ref}

ExpandEnvInString(cli, env, over, s) ==
    LET E[i \in 1 .. Len(s) + 1] ==
            IF i > Len(s) THEN <<>>
            ELSE IF Opens(s, i)
            THEN (CHOOSE x \in ExpandRef(cli, env, over, Cut(s, i, Closes(s, i))) : TRUE)
                 \o E[Closes(s, i) + 1]
            ELSE <<s[i]>> \o E[i + 1]
    IN E[1]

-----------------------------------------------------------------------------
(* replace_env_var rewrites the text in place from pos on.  An empty       *)
(* default does not count: such a reference stays.                         *)

ReplaceOne(cli, env, props, st) ==
    LET starts == {i \in st.pos .. Len(st.out) : i < Len(st.out) /\ st.out[i] = "$" /\ st.out[i + 1] = "{"}
        i == Min(starts)
        end == Closes(st.out, i)
        token == Cut(st.out, i + 2, end - 1)
        found == ResolveEnvVar(cli, env, props, Var(token))
        with == IF found # {} THEN found ELSE Default(token) \ {<<>>}
        new == CHOOSE x \in with : TRUE
    IN IF starts = {} \/ ~Opens(st.out, i) THEN st
       ELSE IF with = {} THEN [st EXCEPT !.pos = end + 1]
       ELSE [out |-> Cut(st.out, 1, i - 1) \o new \o Cut(st.out, end + 1, Len(st.out)),
             pos |-> i + Len(new)]

(* A round ends one reference, and a text of n characters has no more than *)
(* n \div 3 of them.                                                       *)
ReplaceEnvVar(cli, env, props, s) ==
    FoldLeft(LAMBDA st, k : ReplaceOne(cli, env, props, st), [out |-> s, pos |-> 1],
             [k \in 1 .. Len(s) \div 3 |-> k]).out

-----------------------------------------------------------------------------
(* parse_env_file.  A line gives a key and a value, or nothing.            *)

Blank == {" ", "\t"}
RTrim(s) == LET keep == {i \in DOMAIN s : s[i] \notin Blank}
            IN IF keep = {} THEN <<>> ELSE Cut(s, 1, Max(keep))
LTrim(s) == LET keep == {i \in DOMAIN s : s[i] \notin Blank}
            IN IF keep = {} THEN <<>> ELSE Cut(s, Min(keep), Len(s))

Comment(s) == s = <<>> \/ s[1] = "#"

(* "export" counts as one character, and only before a blank or the end.   *)
WithoutExport(s) ==
    IF s # <<>> /\ s[1] = "export" /\ (Len(s) = 1 \/ s[2] \in Blank) THEN LTrim(Tail(s)) ELSE s

(* The value in quotes: a backslash takes the next character as it is.     *)
Quoted(s, quote) ==
    FoldLeft(LAMBDA a, c : IF a.closed THEN a
                           ELSE IF a.esc THEN [a EXCEPT !.v = Append(@, c), !.esc = FALSE]
                           ELSE IF c = "\\" THEN [a EXCEPT !.esc = TRUE]
                           ELSE IF c = quote THEN [a EXCEPT !.closed = TRUE]
                           ELSE [a EXCEPT !.v = Append(@, c)],
             [v |-> <<>>, esc |-> FALSE, closed |-> FALSE], s).v

Unquoted(s) ==
    LTrim(RTrim(IF At(s, "#", 1) = {} THEN s ELSE Cut(s, 1, Min(At(s, "#", 1)) - 1)))

ParseEnvLine(raw) ==
    LET line == WithoutExport(LTrim(raw))
        stop == {i \in DOMAIN line : line[i] \in Blank \cup {"="}}
        i == IF stop = {} THEN Len(line) + 1 ELSE Min(stop)
        key == Cut(line, 1, i - 1)
        rest == LTrim(Cut(line, i, Len(line)))
        after == LTrim(Tail(rest))
    IN IF Comment(LTrim(raw)) \/ Comment(line) \/ key = <<>> \/ rest = <<>> \/ rest[1] # "=" THEN {}
       ELSE {[k |-> IF Last(key) = "+" THEN Front(key) ELSE key,
              v |-> IF after = <<>> THEN <<>>
                    ELSE IF after[1] \in {"\"", "'"} THEN Quoted(Tail(after), after[1])
                    ELSE Unquoted(after)]}

-----------------------------------------------------------------------------
(* The references of a text, as its grammar has them: from the left, and   *)
(* none inside another.                                                    *)
Starts(s) ==
    LET open == {i \in DOMAIN s : Opens(s, i)}
    IN CHOOSE S \in SUBSET open :
          \A i \in open : i \in S <=> \A j \in S : j < i => Closes(s, j) < i
Means(cli, env, over, s) ==
    FlattenSeq([i \in DOMAIN s |->
        IF i \in Starts(s) THEN CHOOSE x \in ExpandRef(cli, env, over, Cut(s, i, Closes(s, i))) : TRUE
        ELSE IF \E j \in Starts(s) : j < i /\ i <= Closes(s, j) THEN <<>> ELSE <<s[i]>>])

(* Both functions give what the references of the text mean: values are    *)
(* not looked at again, and a reference that is not closed is text.  They  *)
(* differ for ${VAR:-} alone.  A text without references stays, and one    *)
(* whose references are all resolved has none left unless a value or a     *)
(* default brings them in.                                                 *)
ReferencesOK(cli, env, over, s) ==
    LET out == ExpandEnvInString(cli, env, over, s)
        tokens == {Cut(s, i + 2, Closes(s, i) - 1) : i \in Starts(s)}
        emptyDefault == \E t \in tokens : Default(t) = {<<>>} /\ ResolveEnvVar(cli, env, over, Var(t)) = {}
    IN /\ out = Means(cli, env, over, s)
       /\ ~emptyDefault => ReplaceEnvVar(cli, env, over, s) = out
       /\ Starts(s) = {} => out = s
       /\ (/\ At(s, "$", 1) = Starts(s)
           /\ \A t \in tokens : ResolveEnvVar(cli, env, over, Var(t)) # {} \/ Default(t) # {}
           /\ At(out, "$", 1) # {})
             => \E t \in tokens : \E x \in ResolveEnvVar(cli, env, over, Var(t)) : At(x, "$", 1) # {}

(* A value written in quotes, with its backslashes and quotes escaped, is  *)
(* read back as it is, and so is one without quotes that has no comment,   *)
(* no blank at an end and no quote in front.                               *)
EnvLineOK(key, value) ==
    LET escaped(q) == FlattenSeq([i \in DOMAIN value |->
                          IF value[i] \in {"\\", q} THEN <<"\\", value[i]>> ELSE <<value[i]>>])
        entry == {[k |-> key, v |-> value]}
    IN /\ \A q \in {"\"", "'"} :
             ParseEnvLine(<<"export", " ">> \o key \o <<"=", q>> \o escaped(q) \o <<q>>) = entry
       /\ (/\ At(value, "#", 1) = {} /\ LTrim(RTrim(value)) = value
           /\ value # <<>> => value[1] \notin {"\"", "'"})
             => ParseEnvLine(key \o <<" ", "=", " ">> \o value \o <<" ", "#">>) = entry
       /\ ParseEnvLine(<<"#">> \o key \o <<"=">> \o value) = {}
=============================================================================
