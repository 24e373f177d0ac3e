----------------------------- MODULE ResultMonad -----------------------------
(***************************************************************************)
(* Result<T, E> and Result<void, E> (result_monad.hpp).  A combinator has  *)
(* a const& overload, which leaves its source as it is, and an && one,     *)
(* which moves the content out: the source still says whether it is ok.    *)
(* A value and an error are the sequence of functions that made them.      *)
(***************************************************************************)
EXTENDS Integers, Sequences

Hollow == <<"moved from">>

Ok(v) == [ok |-> TRUE, v |-> v]
Err(e) == [ok |-> FALSE, v |-> e]
Unit == <<>>            \* the value of a Result<void, E>

(* The source after a call, and what a call gives.                         *)
Left(r, moves) == IF moves THEN [r EXCEPT !.v = Hollow] ELSE r
Gives(res, src) == [res |-> res, src |-> src]

(* f runs on the content: f is its name, to says on which track it ends.   *)
Invoke(f, r, to) == [ok |-> to, v |-> Append(r.v, f)]

Map(r, f, moves) ==
    Gives(IF r.ok THEN Invoke(f, r, TRUE) ELSE r, Left(r, moves))
AndThen(r, f, to, moves) ==
    Gives(IF r.ok THEN Invoke(f, r, to) ELSE r, Left(r, moves))
MapErr(r, f, moves) ==
    Gives(IF r.ok THEN r ELSE Invoke(f, r, FALSE), Left(r, moves))
CatchThen(r, f, to, moves) ==
    Gives(IF r.ok THEN r ELSE Invoke(f, r, to), Left(r, moves))

\* Mutant: the && overload hands back the object it has moved from.
OrElseStale(r, f, to, moves) ==
    Gives(IF r.ok THEN Left(r, moves) ELSE Invoke(f, r, to), Left(r, moves))

OrElse(r, f, to, moves) ==
    Gives(IF r.ok THEN r ELSE Invoke(f, r, to), Left(r, moves))

(* Result<void, E> has no value to move, and no map.                       *)
LeftVoid(r, moves) == IF moves /\ ~r.ok THEN [r EXCEPT !.v = Hollow] ELSE r
OrUnit(r) == IF r.ok THEN Ok(Unit) ELSE r

AndThenVoid(r, f, to, moves) ==
    Gives(IF r.ok THEN OrUnit(Invoke(f, r, to)) ELSE r, LeftVoid(r, moves))
MapErrVoid(r, f, moves) ==
    Gives(IF r.ok THEN r ELSE Invoke(f, r, FALSE), LeftVoid(r, moves))
CatchThenVoid(r, f, to, moves) ==
    Gives(IF r.ok THEN r ELSE OrUnit(Invoke(f, r, to)), LeftVoid(r, moves))
OrElseVoid(r, f, to, moves) ==
    Gives(IF r.ok THEN r ELSE OrUnit(Invoke(f, r, to)), LeftVoid(r, moves))

-----------------------------------------------------------------------------
(* Several results.  zip_results and its like recurse on the tail, and     *)
(* look at it only if the head is ok; the results in skip, the void ones,  *)
(* are left out of the tuple.  tail[n] is what the last n results give.    *)

ZipTails(rs, skip) ==
    LET tail[n \in 0 .. Len(rs)] ==
            IF n = 0 THEN Ok(<<>>)
            ELSE LET i == Len(rs) - n + 1
                 IN IF ~rs[i].ok THEN rs[i] ELSE IF ~tail[n - 1].ok THEN tail[n - 1]
                    ELSE IF i \in skip THEN tail[n - 1] ELSE Ok(<<rs[i].v>> \o tail[n - 1].v)
    IN tail

ZipResults(rs) == ZipTails(rs, {})[Len(rs)]
ZipResultsSkipVoid(rs, void) == ZipTails(rs, void)[Len(rs)]
AllOk(rs) == ZipTails(rs, DOMAIN rs)[Len(rs)]       \* of void results

(* collect_results: a loop with an early return.                           *)
Collected(rs) ==
    LET out[i \in 0 .. Len(rs)] ==
            IF i = 0 THEN Ok(<<>>)
            ELSE IF ~out[i - 1].ok THEN out[i - 1] ELSE IF ~rs[i].ok THEN rs[i]
            ELSE Ok(Append(out[i - 1].v, rs[i].v))
    IN out

CollectResults(rs) == Collected(rs)[Len(rs)]

-----------------------------------------------------------------------------
(* A chain of calls: op, to and moves of each.  Its functions are numbered.*)

CallOn(r, c, i, void) ==
    IF void
    THEN IF c.op = "and_then" THEN AndThenVoid(r, i, c.to, c.moves)
         ELSE IF c.op = "map_err" THEN MapErrVoid(r, i, c.moves)
         ELSE IF c.op = "catch_then" THEN CatchThenVoid(r, i, c.to, c.moves)
         ELSE OrElseVoid(r, i, c.to, c.moves)
    ELSE IF c.op = "map" THEN Map(r, i, c.moves)
         ELSE IF c.op = "and_then" THEN AndThen(r, i, c.to, c.moves)
         ELSE IF c.op = "map_err" THEN MapErr(r, i, c.moves)
         ELSE IF c.op = "catch_then" THEN CatchThen(r, i, c.to, c.moves)
         ELSE OrElse(r, i, c.to, c.moves)

(* The result after each call of the chain.                                *)
ChainAt(r, calls, void) ==
    LET at[i \in 0 .. Len(calls)] ==
            IF i = 0 THEN r ELSE CallOn(at[i - 1], calls[i], i, void).res
    IN at

Chain(r, calls, void) == ChainAt(r, calls, void)[Len(calls)]

-----------------------------------------------------------------------------
(* What a chain means: the track it is on after each call, which functions *)
(* run, and the content they make.                                         *)

RunsOn(op, ok) == ok = (op \in {"map", "and_then"})
Tracks(r, calls) ==
    LET t[i \in 0 .. Len(calls)] ==
            IF i = 0 THEN r.ok
            ELSE IF RunsOn(calls[i].op, t[i - 1]) /\ calls[i].op \notin {"map", "map_err"}
                 THEN calls[i].to ELSE t[i - 1]
    IN t
Ran(r, calls, i) == RunsOn(calls[i].op, Tracks(r, calls)[i - 1])

(* The members of S in order.                                              *)
Ascending(s, S) ==
    /\ \A j, k \in DOMAIN s : j < k => s[j] < s[k]
    /\ \A x \in S : \E k \in DOMAIN s : s[k] = x

(* A void result forgets its content when it becomes or stays ok.          *)
Forgot(r, calls, void, from) ==
    IF void THEN /\ from = 0 \/ Tracks(r, calls)[from]
                 /\ \A j \in from + 1 .. Len(calls) : ~Tracks(r, calls)[j]
    ELSE from = 0

IsMeaning(res, r, calls, void) ==
    /\ res.ok = Tracks(r, calls)[Len(calls)]
    /\ \E from \in 0 .. Len(calls) :
         /\ Forgot(r, calls, void, from)
         /\ LET ran == {i \in from + 1 .. Len(calls) : Ran(r, calls, i)}
            IN \E m \in 0 .. Len(calls) : \E s \in [1 .. m -> ran] :
                 Ascending(s, ran) /\ res.v = (IF from = 0 THEN r.v ELSE <<>>) \o s

(* A chain gives what its functions say, whichever overloads it is made    *)
(* of, and no object is read after it was moved from; a source that only   *)
(* const& calls have seen can be used again, and one that was moved from   *)
(* still tells ok from error.                                              *)
RailwayOK(r, calls, void) ==
    /\ IsMeaning(Chain(r, calls, void), r, calls, void)
    /\ Len(calls) > 0 =>
         LET src == CallOn(r, calls[1], 1, void).src
         IN /\ src.ok = r.ok
            /\ ~calls[1].moves => IsMeaning(Chain(src, Tail(calls), void), r, Tail(calls), void)

(* Several results are all their values in order, or the first error: of   *)
(* a tuple, a list, and with the void ones left out.                       *)
ZipsOK(rs, void) ==
    LET bad == {i \in DOMAIN rs : ~rs[i].ok}
        first == rs[CHOOSE i \in bad : \A j \in bad : i <= j]
    IN /\ ZipResults(rs) = IF bad # {} THEN first ELSE Ok([k \in DOMAIN rs |-> rs[k].v])
       /\ CollectResults(rs) = ZipResults(rs)
       /\ AllOk(rs) = IF bad # {} THEN first ELSE Ok(Unit)
       /\ IF bad # {} THEN ZipResultsSkipVoid(rs, void) = first
          ELSE \E m \in 0 .. Len(rs) : \E s \in [1 .. m -> DOMAIN rs \ void] :
                 /\ Ascending(s, DOMAIN rs \ void)
                 /\ ZipResultsSkipVoid(rs, void) = Ok([k \in 1 .. m |-> rs[s[k]].v])
=============================================================================
