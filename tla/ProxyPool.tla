------------------------------ MODULE ProxyPool ------------------------------
(***************************************************************************)
(* ProxyPool (proxy_pool.hpp): a list of proxies handed out in rotation,   *)
(* past those on the blacklist, whose entries expire.  Every operation     *)
(* holds the pool's mutex.                                                 *)
(***************************************************************************)
EXTENDS Integers, Sequences, SequencesExt, FiniteSets

CONSTANTS
    Proxies, NoProxy,
    Lists,          \* lists that callers replace the entries with or merge into them
    Timeouts,       \* how long a proxy is blacklisted for
    MaxNow          \* the clock stops here

ASSUME PoolAssumption ==
    /\ Timeouts \subseteq Nat /\ MaxNow \in Nat /\ NoProxy \notin Proxies
    /\ \A l \in Lists : l \in Seq(Proxies)

VARIABLES
    proxies, index,     \* *proxies_, index_
    blacklist,          \* proxy -> time its entry expires
    now,
    waits               \* how often each usable position has been passed over

poolVars == <<proxies, index, blacklist, now, waits>>

PoolInit ==
    /\ proxies \in Lists /\ index = 0
    /\ blacklist = [p \in {} |-> 0] /\ now = 0
    /\ waits = [i \in 1 .. Len(proxies) |-> 0]

Tick ==
    /\ now < MaxNow /\ now' = now + 1
    /\ UNCHANGED <<proxies, index, blacklist, waits>>

IsBlacklisted(p) == p \in DOMAIN blacklist /\ now < blacklist[p]

(* clean_expired                                                           *)
CleanExpired == [p \in {q \in DOMAIN blacklist : now < blacklist[q]} |-> blacklist[p]]

(* The position i steps after the cursor, and those not blacklisted.       *)
At(i) == ((index + i) % Len(proxies)) + 1
Found == {i \in 0 .. Len(proxies) - 1 : ~IsBlacklisted(proxies[At(i)])}
FirstFound == CHOOSE i \in Found : \A j \in Found : i <= j

(* What next() returns.                                                    *)
NextProxy == IF Found = {} THEN NoProxy ELSE proxies[At(FirstFound)]

(* What it does: an empty list is left alone; the cursor goes past the     *)
(* proxy handed out, or once around.                                       *)
Advance ==
    IF proxies = <<>> THEN UNCHANGED poolVars
    ELSE /\ blacklist' = CleanExpired
         /\ index' = IF Found = {} THEN index ELSE At(FirstFound) % Len(proxies)
         /\ waits' = [i \in 1 .. Len(proxies) |->
                        IF IsBlacklisted(proxies[i]) \/ (Found # {} /\ i = At(FirstFound)) THEN 0
                        ELSE waits[i] + 1]
         /\ UNCHANGED <<proxies, now>>

\* Mutant: the cursor is not reset.
ReplaceKeepsIndex(entries) ==
    /\ proxies' = entries /\ waits' = [i \in 1 .. Len(entries) |-> 0]
    /\ UNCHANGED <<index, blacklist, now>>

ReplaceEntries(entries) ==
    /\ proxies' = entries /\ index' = 0
    /\ waits' = [i \in 1 .. Len(entries) |-> 0]
    /\ UNCHANGED <<blacklist, now>>

(* The positions of additions whose proxy seen.insert() takes: it is       *)
(* neither in the list nor earlier in additions.  They keep their order.   *)
Unseen(additions) ==
    {i \in DOMAIN additions :
        /\ \A j \in DOMAIN proxies : proxies[j] # additions[i]
        /\ \A j \in 1 .. i - 1 : additions[j] # additions[i]}

InOrder(S) ==
    {f \in [1 .. Cardinality(S) -> S] : \A m, n \in DOMAIN f : m < n => f[m] < f[n]}

(* New entries go to the end; one already there is left out.               *)
MergeEntries(additions) ==
    \E f \in InOrder(Unseen(additions)) :
       LET merged == proxies \o [n \in DOMAIN f |-> additions[f[n]]]
       IN /\ proxies' = merged
          /\ index' = IF merged = <<>> THEN 0 ELSE index % Len(merged)
          /\ waits' = [i \in 1 .. Len(merged) |-> IF i <= Len(proxies) THEN waits[i] ELSE 0]
          /\ UNCHANGED <<blacklist, now>>

Blacklist(p, timeout) ==
    /\ blacklist' = [q \in DOMAIN blacklist \cup {p} |-> IF q = p THEN now + timeout ELSE blacklist[q]]
    /\ UNCHANGED <<proxies, index, now, waits>>

ResetBlacklist ==
    /\ blacklist' = [p \in {} |-> 0]
    /\ UNCHANGED <<proxies, index, now, waits>>

(* What other threads do: their own requests ask for the next proxy, too.  *)
PoolNext ==
    \/ Tick \/ Advance \/ ResetBlacklist
    \/ \E l \in Lists : ReplaceEntries(l) \/ MergeEntries(l)
    \/ \E p \in Proxies, t \in Timeouts : Blacklist(p, t)

-----------------------------------------------------------------------------
(* next() reads the entry at index_: the cursor is inside the list, and a  *)
(* usable proxy is passed over less often than the list is long, whatever  *)
(* is replaced, merged or blacklisted in between.                          *)
FairRotation ==
    /\ index < Len(proxies) \/ (proxies = <<>> /\ index = 0)
    /\ \A i \in 1 .. Len(proxies) : waits[i] < Len(proxies)
=============================================================================
