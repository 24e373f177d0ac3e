------------------------------- MODULE LogLines -------------------------------
(***************************************************************************)
(* Log streams (log_stream.hpp, i_output.hpp).  A call such as info()      *)
(* makes a stream with a buffer of its own; std::endl hands the buffer to  *)
(* the output's ostream under the output's mutex, as a text and then an    *)
(* end of line.  Writers log concurrently to one output.                   *)
(***************************************************************************)
EXTENDS Integers, Sequences, SequencesExt

CONSTANTS
    Writers,
    Verbosity,          \* of the output
    MaxItems, MaxLines  \* items in a line and lines of a writer

NoWriter == ""

ASSUME LogAssumption == Verbosity \in 0 .. 5 /\ NoWriter \notin Writers

VARIABLES
    stream,     \* each writer's stream: made or not, enabled_, buffer_, first_
    made,       \* items a writer put into the line it is writing
    lines,      \* lines a writer has ended
    flushing,   \* the writer that holds mutex_ between its two writes, or NoWriter
    os          \* what the ostream has got

logVars == <<stream, made, lines, flushing, os>>

Levels == <<"error", "warning", "info", "debug", "trace">>
NoStream == [on |-> FALSE, enabled |-> FALSE, buffer |-> <<>>, first |-> TRUE]
EndLine == [w |-> NoWriter, k |-> "endl"]
Prefix(w) == [w |-> w, k |-> "prefix"]
Item(w) == [w |-> w, k |-> "item"]

(* The verbosity a level needs on a console.                               *)
Needs(level) == CHOOSE j \in DOMAIN Levels : Levels[j] = level
Shown(level) == Verbosity >= Needs(level)

LogInit ==
    /\ stream = [w \in Writers |-> NoStream] /\ made = [w \in Writers |-> 0]
    /\ lines = [w \in Writers |-> 0] /\ flushing = NoWriter /\ os = <<>>

(* make_stream; a stream that goes out of scope loses what it holds.       *)
MakeStream(w, level) ==
    /\ flushing # w /\ lines[w] < MaxLines
    /\ stream' = [stream EXCEPT ![w] = [NoStream EXCEPT !.on = TRUE, !.enabled = Shown(level)]]
    /\ made' = [made EXCEPT ![w] = 0]
    /\ UNCHANGED <<lines, flushing, os>>

(* operator<< of a value, with maybe_prefix.                               *)
Put(w) ==
    /\ stream[w].on /\ flushing # w /\ made[w] < MaxItems
    /\ made' = [made EXCEPT ![w] = @ + 1]
    /\ stream' = IF stream[w].enabled
                 THEN [stream EXCEPT ![w].buffer = @ \o (IF stream[w].first THEN <<Prefix(w)>> ELSE <<>>) \o <<Item(w)>>,
                                     ![w].first = FALSE]
                 ELSE stream
    /\ UNCHANGED <<lines, flushing, os>>

(* operator<< of std::endl: flush() locks and writes the buffer.           *)
Flush(w) ==
    /\ stream[w].on /\ stream[w].enabled /\ flushing = NoWriter /\ lines[w] < MaxLines
    /\ flushing' = w /\ os' = os \o stream[w].buffer
    /\ UNCHANGED <<stream, made, lines>>

EndFlush(w) ==
    /\ flushing = w
    /\ os' = Append(os, EndLine) /\ flushing' = NoWriter
    /\ stream' = [stream EXCEPT ![w].buffer = <<>>, ![w].first = TRUE]
    /\ made' = [made EXCEPT ![w] = 0] /\ lines' = [lines EXCEPT ![w] = @ + 1]

LogNext == \E w \in Writers : \/ \E i \in DOMAIN Levels : MakeStream(w, Levels[i])
                              \/ Put(w) \/ Flush(w) \/ EndFlush(w)

-----------------------------------------------------------------------------
(* Every line is one writer's: its prefix, once and in front, and then     *)
(* items of that writer alone, or nothing; only the line that is being     *)
(* written has no end, and its writer holds the mutex.                     *)
LinesWhole ==
    LET ends == {0} \cup {i \in DOMAIN os : os[i] = EndLine}
        from(i) == CHOOSE j \in ends : j < i /\ \A k \in ends : k < i => k <= j
    IN \A i \in DOMAIN os :
          \/ os[i] = EndLine
          \/ /\ os[i].k = "prefix" <=> from(i) = i - 1
             /\ os[i].w = os[from(i) + 1].w
             /\ (\A k \in ends : k < i) => flushing = os[i].w
=============================================================================
