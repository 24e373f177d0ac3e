-------------------------- MODULE HttpClient_proofs --------------------------
(***************************************************************************)
(* Proofs about the monadic client, for every set of requests, proxies,    *)
(* lists and Locations and every number of redirects and runs: the way of  *)
(* every request, what an answer means, what on_chunk_ gets, and the turn  *)
(* that ProxyPool gives every proxy.                                       *)
(***************************************************************************)
EXTENDS HttpClient, FiniteSetTheorems, WellFoundedInduction, TLAPS

-----------------------------------------------------------------------------
(* ProxyPool.                                                              *)

(* How many calls of next() the cursor is away from position i, if nothing *)
(* is blacklisted.                                                         *)
Distance(i) ==
    IF index < i THEN i - 1 - index ELSE i - 1 - index + Len(proxies)

PoolTypes ==
    /\ proxies \in Seq(Proxies) /\ index \in Nat
    /\ waits \in [1 .. Len(proxies) -> Nat]

CursorInside == index < Len(proxies) \/ (proxies = <<>> /\ index = 0)

(* A proxy that was passed over is that much nearer to the cursor: this is *)
(* the part of the invariant that FairRotation does not say.               *)
Turn == \A i \in 1 .. Len(proxies) : waits[i] + Distance(i) < Len(proxies)

PoolInv == PoolTypes /\ CursorInside /\ Turn

(* x % n where x is less than 2n, as at every use of the cursor.           *)
LEMMA ModSmall ==
    ASSUME NEW a \in Nat, NEW n \in Nat \ {0}, a < n
    PROVE  a % n = a
OBVIOUS

LEMMA ModOnce ==
    ASSUME NEW a \in Nat, NEW n \in Nat \ {0}, n <= a, a < n + n
    PROVE  a % n = a - n
OBVIOUS

(* The loop of next() looks at every position once: a position at distance *)
(* d is the d-th it looks at.                                              *)
LEMMA AtWraps ==
    ASSUME PoolTypes, CursorInside, NEW i \in 0 .. Len(proxies) - 1
    PROVE  At(i) = IF index + i < Len(proxies) THEN index + i + 1
                   ELSE index + i + 1 - Len(proxies)
<1>1. Len(proxies) \in Nat \ {0} /\ index \in Nat /\ index + i \in Nat /\ index < Len(proxies)
    BY DEF PoolTypes, CursorInside
<1>2. CASE index + i < Len(proxies)
    BY <1>1, <1>2, ModSmall DEF At
<1>3. CASE ~(index + i < Len(proxies))
    <2>1. (index + i) % Len(proxies) = index + i - Len(proxies)
        BY <1>1, <1>3, ModOnce
    <2> QED BY <1>1, <1>3, <2>1 DEF At
<1> QED BY <1>2, <1>3

LEMMA LeastExists ==
    ASSUME NEW S, S \subseteq Nat, S # {}
    PROVE  \E i \in S : \A j \in S : i <= j
<1> DEFINE R == OpToRel(<, Nat)
<1>1. PICK x \in S : \A y \in S : ~ (<<y, x>> \in R)
    BY NatLessThanWellFounded, WFMin
<1>2. \A y \in S : <<y, x>> \in R <=> y < x
    BY DEF OpToRel
<1> HIDE DEF R
<1>3. \A y \in S : ~(y < x)
    BY <1>1, <1>2
<1>4. \A y \in S : x <= y
    <2>1. x \in Nat /\ \A y \in S : y \in Nat
        OBVIOUS
    <2> QED BY <1>3, <2>1
<1> QED BY <1>4

LEMMA FirstFoundLeast ==
    ASSUME PoolTypes, Found # {}
    PROVE  /\ FirstFound \in Found /\ FirstFound \in 0 .. Len(proxies) - 1
           /\ \A j \in Found : FirstFound <= j
<1>1. Found \subseteq Nat
    BY DEF Found, PoolTypes
<1>2. \E i \in Found : \A j \in Found : i <= j
    BY <1>1, LeastExists
<1>3. FirstFound \in Found /\ \A j \in Found : FirstFound <= j
    BY <1>2 DEF FirstFound
<1> QED BY <1>3 DEF Found

LEMMA LooksAt ==
    ASSUME PoolInv, proxies # <<>>, NEW i \in 1 .. Len(proxies)
    PROVE  \E d \in 0 .. Len(proxies) - 1 : d = Distance(i) /\ At(d) = i
<1>1. Len(proxies) \in Nat \ {0} /\ index \in Nat /\ index < Len(proxies)
    BY DEF PoolInv, PoolTypes, CursorInside
<1>2. Distance(i) \in 0 .. Len(proxies) - 1
    BY <1>1 DEF Distance
<1>3. PICK d \in 0 .. Len(proxies) - 1 : d = Distance(i)
    BY <1>2
<1>4. At(d) = IF index + d < Len(proxies) THEN index + d + 1 ELSE index + d + 1 - Len(proxies)
    BY AtWraps DEF PoolInv
<1>5. CASE index < i
    BY <1>1, <1>3, <1>4, <1>5 DEF Distance
<1>6. CASE ~(index < i)
    BY <1>1, <1>3, <1>4, <1>6 DEF Distance
<1> QED BY <1>5, <1>6

(* next(): a position before the one it stops at is blacklisted, so its    *)
(* count starts again; one behind it has come nearer.                      *)
LEMMA AdvanceKeepsTurn ==
    ASSUME PoolInv, Advance
    PROVE  PoolInv'
<1>1. CASE proxies = <<>>
    BY <1>1 DEF Advance, poolVars, PoolInv, PoolTypes, CursorInside, Turn, Distance
<1>2. CASE proxies # <<>>
    <2> DEFINE L == Len(proxies)
    <2>0. L \in Nat \ {0} /\ index \in Nat /\ index < L /\ proxies' = proxies
        BY <1>2 DEF PoolInv, PoolTypes, CursorInside, Advance
    <2>1. /\ L \in Nat \ {0} /\ index \in Nat /\ index < L /\ proxies' = proxies
          /\ waits \in [1 .. L -> Nat]
          /\ waits' = [i \in 1 .. L |->
                IF IsBlacklisted(proxies[i]) \/ (Found # {} /\ i = At(FirstFound)) THEN 0
                ELSE waits[i] + 1]
        BY <1>2 DEF PoolInv, PoolTypes, CursorInside, Advance
    <2>2. waits' \in [1 .. L -> Nat]
        BY <2>1
    <2>3. CASE Found = {}
        <3>1. index' = index
            BY <1>2, <2>3 DEF Advance
        <3>2. ASSUME NEW i \in 1 .. L PROVE waits'[i] = 0
            <4>1. PICK d \in 0 .. L - 1 : d = Distance(i) /\ At(d) = i
                BY <1>2, LooksAt
            <4>2. At(d) = i
                BY <4>1
            <4>3. IsBlacklisted(proxies[i])
                BY <2>3, <4>1, <4>2 DEF Found
            <4> QED BY <2>1, <4>3
        <3>3. \A i \in 1 .. L : Distance(i)' < L /\ Distance(i)' \in Nat
            BY <2>1, <3>1 DEF Distance
        <3> QED BY <2>1, <2>2, <3>1, <3>2, <3>3 DEF PoolInv, PoolTypes, CursorInside, Turn
    <2>4. CASE Found # {}
        <3>1. PICK f \in 0 .. L - 1 : f = FirstFound /\ f \in Found /\ \A j \in Found : f <= j
            BY <2>4, FirstFoundLeast DEF PoolInv
        <3>2. PICK a \in 1 .. L : a = At(f) /\ a = IF index + f < L THEN index + f + 1 ELSE index + f + 1 - L
            <4>1. At(f) = IF index + f < L THEN index + f + 1 ELSE index + f + 1 - L
                BY AtWraps DEF PoolInv
            <4>2. At(f) \in 1 .. L
                BY <2>0, <4>1
            <4> QED BY <4>1, <4>2
        <3>3. index' = IF a = L THEN 0 ELSE a
            <4>1. index' = a % L
                BY <1>2, <2>4, <3>1, <3>2 DEF Advance
            <4>2. CASE a = L
                BY <2>1, <4>1, <4>2, ModOnce
            <4>3. CASE a # L
                BY <2>1, <4>1, <4>3, ModSmall
            <4> QED BY <4>2, <4>3
        <3>4. ASSUME NEW i \in 1 .. L PROVE waits'[i] + Distance(i)' < L
            <4>1. PICK d \in 0 .. L - 1 : d = Distance(i) /\ At(d) = i
                BY <1>2, LooksAt
            <4>2. At(d) = i
                BY <4>1
            <4>3. CASE d < f
                <5>1. waits'[i] = 0
                    <6>1. IsBlacklisted(proxies[i])
                        BY <3>1, <4>1, <4>2, <4>3 DEF Found
                    <6> QED BY <2>1, <6>1
                <5>2. Distance(i)' \in 0 .. L - 1
                    BY <2>1, <3>2, <3>3 DEF Distance
                <5> QED BY <2>1, <5>1, <5>2
            <4>4. CASE d = f
                <5>1. waits'[i] = 0
                    BY <2>1, <2>4, <3>1, <4>2, <4>4
                <5>2. Distance(i)' \in 0 .. L - 1
                    BY <2>1, <3>2, <3>3 DEF Distance
                <5> QED BY <2>1, <5>1, <5>2
            <4>5. CASE d > f
                <5>1. waits'[i] <= waits[i] + 1 /\ waits'[i] \in Nat /\ waits[i] \in Nat
                    BY <2>1
                <5>2. Distance(i)' = d - f - 1
                    <6>1. Distance(i)' = IF index' < i THEN i - 1 - index' ELSE i - 1 - index' + L
                        BY <2>0 DEF Distance
                    <6>2. d = IF index < i THEN i - 1 - index ELSE i - 1 - index + L
                        BY <4>1 DEF Distance
                    <6>3. CASE index < i
                        BY <2>0, <3>2, <3>3, <4>5, <6>1, <6>2, <6>3
                    <6>4. CASE ~(index < i)
                        <7>1. CASE index + f < L
                            <8>1. a = index + f + 1
                                BY <3>2, <7>1
                            <8>2. CASE a = L
                                <9>1. index' = 0
                                    BY <3>3, <8>2
                                <9> QED BY <2>0, <6>1, <6>2, <6>4, <8>1, <8>2, <9>1
                            <8>3. CASE a # L
                                <9>1. index' = index + f + 1
                                    BY <3>3, <8>1, <8>3
                                <9> QED BY <2>0, <6>1, <6>2, <6>4, <9>1
                            <8> QED BY <8>2, <8>3
                        <7>2. CASE ~(index + f < L)
                            <8>1. a = index + f + 1 - L
                                BY <3>2, <7>2
                            <8>2. index' = index + f + 1 - L
                                BY <2>0, <3>3, <4>5, <6>2, <6>4, <8>1
                            <8>3. index' < i
                                BY <2>0, <4>5, <6>2, <6>4, <8>2
                            <8> QED BY <2>0, <6>1, <6>2, <6>4, <8>2, <8>3
                        <7> QED BY <7>1, <7>2
                    <6> QED BY <6>3, <6>4
                <5>3. waits[i] + d < L
                    BY <4>1 DEF PoolInv, Turn
                <5> QED BY <2>1, <4>5, <5>1, <5>2, <5>3
            <4> QED BY <4>3, <4>4, <4>5
        <3>5. index' \in Nat /\ index' < L
            BY <2>1, <3>2, <3>3
        <3> QED BY <2>1, <2>2, <3>4, <3>5 DEF PoolInv, PoolTypes, CursorInside, Turn
    <2> QED BY <2>3, <2>4
<1> QED BY <1>1, <1>2

LEMMA ReplaceKeepsTurn ==
    ASSUME NEW l \in Lists, ReplaceEntries(l)
    PROVE  PoolInv'
<1>1. proxies' = l /\ index' = 0 /\ waits' = [i \in 1 .. Len(l) |-> 0] /\ l \in Seq(Proxies)
    BY PoolAssumption DEF ReplaceEntries
<1>2. PoolTypes'
    BY <1>1 DEF PoolTypes
<1>3. CursorInside'
    BY <1>1 DEF CursorInside
<1>4. Turn'
    BY <1>1 DEF Turn, Distance
<1> QED BY <1>2, <1>3, <1>4 DEF PoolInv

(* A longer list: a position before the cursor is further from it by as    *)
(* much as the list has grown.                                             *)
LEMMA MergeKeepsTurn ==
    ASSUME PoolInv, NEW l \in Lists, MergeEntries(l)
    PROVE  PoolInv'
<1>1. PICK f \in InOrder(Unseen(l)) :
          LET merged == proxies \o [n \in DOMAIN f |-> l[f[n]]]
          IN /\ proxies' = merged
             /\ index' = IF merged = <<>> THEN 0 ELSE index % Len(merged)
             /\ waits' = [i \in 1 .. Len(merged) |-> IF i <= Len(proxies) THEN waits[i] ELSE 0]
    BY DEF MergeEntries
<1> DEFINE tail == [n \in DOMAIN f |-> l[f[n]]]
<1>2. tail \in Seq(Proxies)
    <2>1. l \in Seq(Proxies)
        BY PoolAssumption
    <2>2. Unseen(l) \subseteq DOMAIN l
        BY DEF Unseen
    <2>3. PICK N \in Nat : N = Cardinality(Unseen(l))
        <3>1. IsFiniteSet(DOMAIN l)
            BY <2>1, FS_Interval
        <3> QED BY <2>2, <3>1, FS_Subset, FS_CardinalityType
    <2>4. f \in [1 .. N -> DOMAIN l]
        BY <2>2, <2>3 DEF InOrder
    <2> QED BY <2>1, <2>4
<1> HIDE DEF tail
<1>3. /\ proxies' = proxies \o tail /\ proxies \in Seq(Proxies)
      /\ index' = IF proxies' = <<>> THEN 0 ELSE index % Len(proxies')
      /\ waits' = [i \in 1 .. Len(proxies') |-> IF i <= Len(proxies) THEN waits[i] ELSE 0]
    BY <1>1 DEF tail, PoolInv, PoolTypes
<1>4. proxies' \in Seq(Proxies) /\ Len(proxies') = Len(proxies) + Len(tail) /\ Len(tail) \in Nat
    BY <1>2, <1>3
<1>5. index' = index /\ CursorInside'
    <2>1. CASE proxies' = <<>>
        BY <1>3, <1>4, <2>1 DEF PoolInv, CursorInside, PoolTypes
    <2>2. CASE proxies' # <<>>
        <3>1. Len(proxies') \in Nat \ {0} /\ index \in Nat /\ index < Len(proxies')
            BY <1>3, <1>4, <2>2 DEF PoolInv, CursorInside, PoolTypes
        <3> QED BY <1>3, <2>2, <3>1, ModSmall DEF CursorInside
    <2> QED BY <2>1, <2>2
<1>6. PoolTypes'
    BY <1>3, <1>4, <1>5 DEF PoolInv, PoolTypes
<1>7. ASSUME NEW i \in 1 .. Len(proxies') PROVE waits'[i] + Distance(i)' < Len(proxies')
    <2>1. index \in Nat /\ Len(proxies) \in Nat /\ Len(proxies') \in Nat
        BY <1>3, <1>4 DEF PoolInv, PoolTypes
    <2>2. CASE i <= Len(proxies)
        <3>1. waits'[i] = waits[i] /\ waits[i] \in Nat /\ waits[i] + Distance(i) < Len(proxies)
            BY <1>3, <2>1, <2>2 DEF PoolInv, PoolTypes, Turn
        <3> QED BY <1>4, <1>5, <2>1, <2>2, <3>1 DEF Distance
    <2>3. CASE ~(i <= Len(proxies))
        <3>1. waits'[i] = 0
            BY <1>3, <2>1, <2>3
        <3>2. index <= Len(proxies)
            BY <2>1 DEF PoolInv, CursorInside
        <3> QED BY <1>4, <1>5, <2>1, <2>3, <3>1, <3>2 DEF Distance
    <2> QED BY <2>2, <2>3
<1> QED BY <1>5, <1>6, <1>7 DEF PoolInv, Turn

LEMMA PoolKept ==
    ASSUME PoolInv, UNCHANGED <<proxies, index, waits>>
    PROVE  PoolInv'
BY DEF PoolInv, PoolTypes, CursorInside, Turn, Distance

LEMMA PoolStep ==
    ASSUME PoolInv, PoolNext
    PROVE  PoolInv'
<1>1. CASE Tick
    BY <1>1, PoolKept DEF Tick
<1>2. CASE ResetBlacklist
    BY <1>2, PoolKept DEF ResetBlacklist
<1>3. ASSUME NEW l \in Lists, ReplaceEntries(l) PROVE PoolInv'
    BY <1>3, ReplaceKeepsTurn
<1>4. ASSUME NEW l \in Lists, MergeEntries(l) PROVE PoolInv'
    BY <1>4, MergeKeepsTurn
<1>5. ASSUME NEW p \in Proxies, NEW t \in Timeouts, Blacklist(p, t) PROVE PoolInv'
    BY <1>5, PoolKept DEF Blacklist
<1> QED BY <1>1, <1>2, <1>3, <1>4, <1>5, AdvanceKeepsTurn DEF PoolNext

LEMMA PoolStarts ==
    ASSUME PoolInit
    PROVE  PoolInv
<1>1. proxies \in Seq(Proxies) /\ index = 0 /\ waits = [i \in 1 .. Len(proxies) |-> 0]
    BY PoolAssumption DEF PoolInit
<1> QED BY <1>1 DEF PoolInv, PoolTypes, CursorInside, Turn, Distance

LEMMA PoolFair ==
    ASSUME PoolInv
    PROVE  FairRotation
<1>1. \A i \in 1 .. Len(proxies) : waits[i] \in Nat /\ Distance(i) \in Nat
    BY DEF PoolInv, PoolTypes, CursorInside, Distance
<1>2. \A i \in 1 .. Len(proxies) : waits[i] < Len(proxies)
    BY <1>1 DEF PoolInv, PoolTypes, Turn
<1> QED BY <1>2 DEF FairRotation, PoolInv, CursorInside

-----------------------------------------------------------------------------
(* The request.                                                            *)

(* The operations on the way to the proxy, to the origin, and after that.  *)
ProxyOps == {"resolve_proxy", "proxy_connect", "proxy_write", "proxy_read"}
DirectOps == {"resolve", "connect"}
OriginOps == {"handshake", "write", "read"}

Via == IF Proxied THEN "tunnel" ELSE "origin"

(* Each pending operation is one of the session's for this way and URL.    *)
OnTheWay ==
    /\ pc \in {"start", "done"} \cup ProxyOps \cup DirectOps \cup OriginOps
    /\ pc \in ProxyOps => Proxied
    /\ pc \in DirectOps => ~Proxied
    /\ pc \in OriginOps => peer = Via
    /\ pc = "handshake" => url.scheme = "https"
    /\ pc \in {"write", "read"} => (tls <=> url.scheme = "https")

(* A hop beyond the first.                                                 *)
Followed == url # request.url => request.method \in {"GET", "HEAD"} /\ request.follow

(* The user's callback is called when the session has nothing pending.     *)
OneAnswer ==
    answers = <<>> \/ (pc = "done" /\ answers = <<answers[1]>>)

Fresh ==
    pc = "start" =>
        /\ url = request.url /\ left = MaxRedirects /\ sent = {} /\ answers = <<>>
        /\ hdr = FALSE /\ body = <<>> /\ last = 0 /\ streamed = <<>>

Written == pc = "read" => \E s \in sent : s.url = url

ReqInv ==
    /\ left \in Nat /\ OnTheWay /\ Followed /\ OneAnswer /\ Fresh /\ Written
    /\ SentRight /\ AnswerMeans

(* The body of a streamed response: what the parser holds is what was      *)
(* handed to on_chunk_, or nothing when chunks are dropped.                *)
StreamInv ==
    /\ body \in Seq(Nat) /\ streamed \in Seq(Nat) /\ last \in Nat
    /\ \A i \in DOMAIN streamed : streamed[i] = i
    /\ hdr = FALSE => body = <<>> /\ streamed = <<>> /\ last = 0
    /\ (~request.onChunk) => streamed = <<>>
    /\ (request.onChunk /\ request.accumulate) => body = streamed /\ last = Len(body)
    /\ (request.onChunk /\ ~request.accumulate) => body = <<>> /\ last = 0
    /\ (request.kind = "stream" /\ request.onChunk) =>
          \A i \in DOMAIN answers : answers[i].code = 0 => Len(streamed) = BodyLen

(* Outside a run of the IO the request has not begun.                      *)
ClientInv ==
    /\ PoolInv /\ ReqInv /\ StreamInv
    /\ phase \in {"idle", "borrow", "running"}
    /\ phase # "running" => pc = "start"

(* The next hop, or the answer to the user.                                *)
LEMMA DeliverKeepsReq ==
    ASSUME ReqInv, pc \notin {"start", "done"}, NEW resp, NEW code, Deliver(resp, code),
           code = 0 => /\ pc = "read" /\ resp # NoResp /\ resp.whole /\ resp.from = url
    PROVE  ReqInv'
<1>1. request' = request /\ proxy' = proxy /\ sent' = sent /\ answers = <<>> /\ left \in Nat
    BY DEF Deliver, ReqInv, OneAnswer
<1>2. SentRight'
    BY <1>1 DEF ReqInv, SentRight, Proxied
<1>3. CASE Follows(resp, code)
    <2>1. PICK u \in Next1(resp) : Run(u)
        BY <1>3 DEF Deliver, Follows
    <2>2. left' = left - 1 /\ answers' = <<>> /\ left > 0
        BY <1>1, <1>3 DEF Deliver, Follows
    <2>3. OnTheWay'
        BY <1>1, <2>1 DEF Run, OnTheWay, Proxied, ProxyOps, DirectOps, OriginOps
    <2>4. Followed'
        BY <1>1, <1>3 DEF Follows, Followed
    <2>5. OneAnswer' /\ Fresh' /\ Written'
        BY <2>1, <2>2 DEF OneAnswer, Fresh, Written, Run
    <2>6. AnswerMeans'
        BY <2>2 DEF AnswerMeans
    <2> QED BY <1>1, <1>2, <2>2, <2>3, <2>4, <2>5, <2>6 DEF ReqInv
<1>4. CASE ~Follows(resp, code)
    <2>1. /\ answers' = <<[resp |-> resp, code |-> code]>> /\ pc' = "done"
          /\ url' = url /\ left' = left /\ peer' = peer /\ tls' = tls
        BY <1>1, <1>4 DEF Deliver
    <2>2. OnTheWay'
        BY <2>1 DEF OnTheWay, ProxyOps, DirectOps, OriginOps
    <2>3. Followed'
        BY <1>1, <2>1 DEF ReqInv, Followed
    <2>4. OneAnswer' /\ Fresh' /\ Written'
        BY <2>1 DEF OneAnswer, Fresh, Written
    <2>5. AnswerMeans'
        <3>1. SUFFICES ASSUME code = 0
                       PROVE  /\ resp # NoResp /\ resp.whole /\ resp.from = url'
                              /\ \E s \in sent' : s.url = url'
                              /\ (IsRedirectStatus(resp.status) /\ request'.follow /\ request'.kind # "stream"
                                    /\ request'.method \in {"GET", "HEAD"})
                                   => left' = 0 \/ Next1(resp)' = {}
            BY <2>1 DEF AnswerMeans
        <3>2. resp # NoResp /\ resp.whole /\ resp.from = url'
            BY <2>1, <3>1
        <3>3. \E s \in sent' : s.url = url'
            BY <1>1, <2>1, <3>1 DEF ReqInv, Written
        <3>4. Next1(resp)' = Next1(resp)
            BY <2>1 DEF Next1
        <3>5. (IsRedirectStatus(resp.status) /\ request.follow /\ request.kind # "stream"
                 /\ request.method \in {"GET", "HEAD"})
                => ~(left > 0) \/ Next1(resp) = {}
            BY <1>4, <3>1 DEF Follows
        <3> QED BY <1>1, <2>1, <3>2, <3>3, <3>4, <3>5
    <2> QED BY <1>1, <1>2, <2>1, <2>2, <2>3, <2>4, <2>5 DEF ReqInv
<1> QED BY <1>3, <1>4

LEMMA FailKeepsReq ==
    ASSUME ReqInv, pc \notin {"start", "done"}, NEW code \in Nat \ {0}, Fail(code)
    PROVE  ReqInv'
BY DeliverKeepsReq DEF Fail

(* A step of the session that leaves the hop, what was written and the     *)
(* answer alone.                                                           *)
SameHop ==
    UNCHANGED <<request, proxy, url, left, hdr, body, last, streamed, sent, answers>>

LEMMA SameHopKeepsReq ==
    ASSUME ReqInv, SameHop, OnTheWay', pc' \notin {"start", "done", "read"}, pc \notin {"start", "done"}
    PROVE  ReqInv'
<1>1. SentRight'
    BY DEF SameHop, ReqInv, SentRight, Proxied
<1>2. AnswerMeans'
    BY DEF SameHop, ReqInv, AnswerMeans, Next1
<1>3. OneAnswer' /\ Fresh' /\ Written' /\ Followed'
    BY DEF SameHop, ReqInv, OneAnswer, Fresh, Written, Followed
<1> QED BY <1>1, <1>2, <1>3 DEF ReqInv, SameHop

LEMMA StartKeepsReq ==
    ASSUME ReqInv, NEW op, NEW p, NEW t, Start(op, p, t), OnTheWay',
           op \notin {"start", "done", "read"}, pc \notin {"start", "done"}
    PROVE  ReqInv'
BY SameHopKeepsReq DEF Start, SameHop

(* The step from the connection to the first byte for the origin.          *)
LEMMA AfterConnectKeepsReq ==
    ASSUME ReqInv, pc \notin {"start", "done"}, NEW p, p = Via, AfterConnect(p)
    PROVE  ReqInv'
<1>1. CASE url.scheme = "https" /\ Fail(9)
    BY <1>1, FailKeepsReq
<1>2. CASE url.scheme = "https" /\ Start("handshake", p, FALSE)
    <2>1. OnTheWay'
        BY <1>2 DEF Start, OnTheWay, ProxyOps, DirectOps, OriginOps, Via, Proxied
    <2> QED BY <1>2, <2>1, StartKeepsReq
<1>3. CASE url.scheme # "https" /\ Start("write", p, FALSE)
    <2>1. OnTheWay'
        BY <1>3 DEF Start, OnTheWay, ProxyOps, DirectOps, OriginOps, Via, Proxied
    <2> QED BY <1>3, <2>1, StartKeepsReq
<1> QED BY <1>1, <1>2, <1>3 DEF AfterConnect, AfterConnectSsl, AfterConnectPlain

(* What a response is, and the answer that ends a good stream.             *)
LEMMA ResponseFacts ==
    ASSUME NEW w \in BOOLEAN, NEW r \in Responses(w)
    PROVE  r # NoResp /\ r.whole = w /\ r.from = url
BY DEF Responses, NoResp

LEMMA WriteKeepsReq ==
    ASSUME ReqInv, OnWrite
    PROVE  ReqInv'
<1>1. CASE Fail(6)
    BY <1>1, FailKeepsReq DEF OnWrite
<1>2. CASE ~Fail(6)
    <2> DEFINE s == [url |-> url, named |-> Named, via |-> peer, tls |-> tls]
    <2>1. /\ pc = "write" /\ answers = <<>> /\ sent' = sent \cup {s}
          /\ UNCHANGED <<request, proxy, url, left, peer, tls, hdr, body, last, streamed>>
          /\ \/ answers' = Append(answers, [resp |-> NoResp, code |-> 7]) /\ pc' = "done"
             \/ pc' = "read" /\ answers' = answers
        BY <1>2 DEF OnWrite, ReqInv, OneAnswer
    <2>2. /\ s.url = url /\ s.via = Via /\ (s.tls <=> url.scheme = "https")
          /\ (~request.noModify => s.named = url)
        BY <2>1 DEF ReqInv, OnTheWay, OriginOps, Named
    <2>3. /\ ~request.noModify => s.named = s.url
          /\ s.via = IF Proxied THEN "tunnel" ELSE "origin"
          /\ s.tls <=> s.url.scheme = "https"
          /\ s.url # request.url => request.method \in {"GET", "HEAD"} /\ request.follow
        BY <2>2 DEF ReqInv, Followed, Via
    <2>4. SentRight'
        <3> HIDE DEF s
        <3>1. Proxied' = Proxied
            BY <2>1 DEF Proxied
        <3> QED BY <2>1, <2>3, <3>1 DEF ReqInv, SentRight
    <2>5. OnTheWay'
        BY <2>1 DEF ReqInv, OnTheWay, ProxyOps, DirectOps, OriginOps, Via, Proxied
    <2>6. Followed' /\ Fresh' /\ left' \in Nat
        BY <2>1 DEF ReqInv, Followed, Fresh
    <2>7. Written'
        BY <2>1, <2>2 DEF Written
    <2>8. OneAnswer'
        BY <2>1 DEF OneAnswer
    <2>9. AnswerMeans'
        BY <2>1 DEF AnswerMeans
    <2> QED BY <2>4, <2>5, <2>6, <2>7, <2>8, <2>9 DEF ReqInv
<1> QED BY <1>1, <1>2

(* read_some_loop: the end of a stream is the answer of a whole response,  *)
(* which is never followed.                                                *)
LEMMA ReadSomeKeepsReq ==
    ASSUME ReqInv, pc = "read", request.kind = "stream", ReadSome
    PROVE  ReqInv'
<1>1. CASE \E r \in Responses(FALSE) : Deliver(r, 8)
    BY <1>1, DeliverKeepsReq
<1>2. CASE ~\E r \in Responses(FALSE) : Deliver(r, 8)
    <2>1. /\ UNCHANGED <<request, proxy, url, left, timer, cancelled, deadline, peer, tls, sent>>
          /\ \/ \E r \in Responses(TRUE) : answers' = Append(answers, [resp |-> r, code |-> 0]) /\ pc' = "done"
             \/ pc' = pc /\ answers' = answers
        BY <1>2 DEF ReadSome
    <2>2. answers = <<>>
        BY DEF ReqInv, OneAnswer
    <2>3. SentRight'
        BY <2>1 DEF ReqInv, SentRight, Proxied
    <2>4. Followed' /\ left' \in Nat
        BY <2>1 DEF ReqInv, Followed
    <2>5. CASE pc' = pc /\ answers' = answers
        <3>1. OnTheWay' /\ OneAnswer' /\ Fresh' /\ Written'
            BY <2>1, <2>2, <2>5 DEF ReqInv, OnTheWay, OneAnswer, Fresh, Written,
               ProxyOps, DirectOps, OriginOps, Via, Proxied
        <3>2. AnswerMeans'
            BY <2>2, <2>5 DEF AnswerMeans
        <3> QED BY <2>3, <2>4, <3>1, <3>2 DEF ReqInv
    <2>6. CASE \E r \in Responses(TRUE) : answers' = Append(answers, [resp |-> r, code |-> 0]) /\ pc' = "done"
        <3>1. PICK r \in Responses(TRUE) : answers' = <<[resp |-> r, code |-> 0]>> /\ pc' = "done"
            <4>1. PICK r \in Responses(TRUE) :
                      answers' = Append(answers, [resp |-> r, code |-> 0]) /\ pc' = "done"
                BY <2>6
            <4>2. answers' = <<[resp |-> r, code |-> 0]>>
                BY <2>2, <4>1
            <4> QED BY <4>1, <4>2
        <3>2. r # NoResp /\ r.whole /\ r.from = url
            BY ResponseFacts
        <3>3. OnTheWay' /\ OneAnswer' /\ Fresh' /\ Written'
            BY <3>1 DEF OnTheWay, OneAnswer, Fresh, Written, ProxyOps, DirectOps, OriginOps
        <3>4. AnswerMeans'
            BY <2>1, <3>1, <3>2 DEF ReqInv, AnswerMeans, Written
        <3> QED BY <2>3, <2>4, <3>3, <3>4 DEF ReqInv
    <2> QED BY <2>1, <2>5, <2>6
<1> QED BY <1>1, <1>2

LEMMA RequestKeepsReq ==
    ASSUME ReqInv, ReqNext
    PROVE  ReqInv'
<1>1. CASE HttpRequest
    <2>1. /\ pc = "start" /\ Run(request.url)
          /\ UNCHANGED <<request, proxy, left, sent, answers>>
          /\ sent = {} /\ answers = <<>> /\ left \in Nat
        BY <1>1 DEF HttpRequest, ReqInv, Fresh
    <2>2. OnTheWay'
        BY <2>1 DEF Run, OnTheWay, Proxied, ProxyOps, DirectOps, OriginOps
    <2>3. Followed' /\ OneAnswer' /\ Fresh' /\ Written' /\ SentRight' /\ AnswerMeans'
        BY <2>1 DEF Run, Followed, OneAnswer, Fresh, Written, SentRight, AnswerMeans
    <2> QED BY <2>1, <2>2, <2>3 DEF ReqInv
<1>2. CASE TimerExpires \/ OnTimer
    <2>1. UNCHANGED <<request, proxy, url, left, pc, peer, tls, hdr, body, last, streamed, sent, answers>>
        BY <1>2 DEF TimerExpires, OnTimer
    <2>2. SentRight' /\ AnswerMeans'
        BY <2>1 DEF ReqInv, SentRight, AnswerMeans, Proxied, Next1
    <2>3. OnTheWay'
        BY <2>1 DEF ReqInv, OnTheWay, Via, Proxied
    <2>4. Followed' /\ OneAnswer' /\ Fresh' /\ Written' /\ left' \in Nat
        BY <2>1 DEF ReqInv, Followed, OneAnswer, Fresh, Written
    <2> QED BY <2>2, <2>3, <2>4 DEF ReqInv
<1>3. CASE OnResolve
    <2>1. CASE Fail(1)
        BY <1>3, <2>1, FailKeepsReq DEF OnResolve
    <2>2. CASE Start("connect", "none", FALSE)
        <3>1. OnTheWay'
            BY <1>3, <2>2 DEF OnResolve, Start, ReqInv, OnTheWay, Proxied, ProxyOps, DirectOps, OriginOps
        <3> QED BY <1>3, <2>2, <3>1, StartKeepsReq DEF OnResolve
    <2> QED BY <1>3, <2>1, <2>2 DEF OnResolve
<1>4. CASE OnResolveProxy
    <2>1. CASE Fail(1)
        BY <1>4, <2>1, FailKeepsReq DEF OnResolveProxy
    <2>2. CASE Start("proxy_connect", "none", FALSE)
        <3>1. OnTheWay'
            BY <1>4, <2>2 DEF OnResolveProxy, Start, ReqInv, OnTheWay, Proxied, ProxyOps, DirectOps, OriginOps
        <3> QED BY <1>4, <2>2, <3>1, StartKeepsReq DEF OnResolveProxy
    <2> QED BY <1>4, <2>1, <2>2 DEF OnResolveProxy
<1>5. CASE OnConnectProxyServer
    <2>1. CASE Fail(1)
        BY <1>5, <2>1, FailKeepsReq DEF OnConnectProxyServer
    <2>2. CASE Start("proxy_write", "proxy", FALSE)
        <3>1. OnTheWay'
            BY <1>5, <2>2 DEF OnConnectProxyServer, Start, ReqInv, OnTheWay, Proxied, ProxyOps, DirectOps, OriginOps
        <3> QED BY <1>5, <2>2, <3>1, StartKeepsReq DEF OnConnectProxyServer
    <2> QED BY <1>5, <2>1, <2>2 DEF OnConnectProxyServer
<1>6. CASE OnRequestProxy
    <2>1. CASE Fail(2)
        BY <1>6, <2>1, FailKeepsReq DEF OnRequestProxy
    <2>2. CASE Start("proxy_read", "proxy", FALSE)
        <3>1. OnTheWay'
            BY <1>6, <2>2 DEF OnRequestProxy, Start, ReqInv, OnTheWay, Proxied, ProxyOps, DirectOps, OriginOps
        <3> QED BY <1>6, <2>2, <3>1, StartKeepsReq DEF OnRequestProxy
    <2> QED BY <1>6, <2>1, <2>2 DEF OnRequestProxy
<1>7. CASE OnReadProxyResponse
    <2>1. CASE Fail(3) \/ Fail(4)
        BY <1>7, <2>1, FailKeepsReq DEF OnReadProxyResponse
    <2>2. CASE AfterConnect("tunnel")
        <3>1. Via = "tunnel"
            BY <1>7 DEF OnReadProxyResponse, ReqInv, OnTheWay, ProxyOps, Via
        <3> QED BY <1>7, <2>2, <3>1, AfterConnectKeepsReq DEF OnReadProxyResponse
    <2> QED BY <1>7, <2>1, <2>2 DEF OnReadProxyResponse
<1>8. CASE OnConnect
    <2>1. CASE Fail(5)
        BY <1>8, <2>1, FailKeepsReq DEF OnConnect
    <2>2. CASE AfterConnect("origin")
        <3>1. Via = "origin"
            BY <1>8 DEF OnConnect, ReqInv, OnTheWay, DirectOps, Via
        <3> QED BY <1>8, <2>2, <3>1, AfterConnectKeepsReq DEF OnConnect
    <2> QED BY <1>8, <2>1, <2>2 DEF OnConnect
<1>9. CASE OnHandshake
    <2>1. CASE Fail(10)
        BY <1>9, <2>1, FailKeepsReq DEF OnHandshake
    <2>2. CASE Start("write", peer, TRUE)
        <3>1. OnTheWay' /\ SameHop /\ pc' = "write"
            BY <1>9, <2>2 DEF OnHandshake, Start, ReqInv, OnTheWay, Proxied, Via, ProxyOps, DirectOps, OriginOps, SameHop
        <3> QED BY <1>9, <3>1, SameHopKeepsReq DEF OnHandshake
    <2> QED BY <1>9, <2>1, <2>2 DEF OnHandshake
<1>10. CASE OnWrite
    BY <1>10, WriteKeepsReq
<1>11. CASE OnRead
    <2>1. CASE \E r \in Responses(TRUE) : Deliver(r, 0)
        <3>1. PICK r \in Responses(TRUE) : Deliver(r, 0)
            BY <2>1
        <3>2. r # NoResp /\ r.whole /\ r.from = url
            BY ResponseFacts
        <3> QED BY <1>11, <3>1, <3>2, DeliverKeepsReq DEF OnRead
    <2>2. CASE \E r \in Responses(FALSE) : Deliver(r, 8)
        BY <1>11, <2>2, DeliverKeepsReq DEF OnRead
    <2> QED BY <1>11, <2>1, <2>2 DEF OnRead
<1>12. CASE OnReadSomeSsl \/ OnReadSomePlain
    BY <1>12, ReadSomeKeepsReq DEF OnReadSomeSsl, OnReadSomePlain
<1> QED
    BY <1>1, <1>2, <1>3, <1>4, <1>5, <1>6, <1>7, <1>8, <1>9, <1>10, <1>11, <1>12
    DEF ReqNext, Operation

-----------------------------------------------------------------------------
(* The streamed body.                                                      *)

LEMMA DeliverKeepsStream ==
    ASSUME StreamInv, answers = <<>>, NEW resp, NEW code, Deliver(resp, code),
           code = 0 => request.kind # "stream"
    PROVE  StreamInv'
<1>1. request' = request
    BY DEF Deliver
<1>2. CASE Follows(resp, code)
    <2>1. hdr' = FALSE /\ body' = <<>> /\ last' = 0 /\ streamed' = <<>> /\ answers' = <<>>
        BY <1>2 DEF Deliver, Run
    <2> QED BY <1>1, <2>1 DEF StreamInv
<1>3. CASE ~Follows(resp, code)
    <2>1. /\ UNCHANGED <<hdr, body, last, streamed>>
          /\ answers' = <<[resp |-> resp, code |-> code]>>
        BY <1>3 DEF Deliver
    <2> QED BY <1>1, <2>1 DEF StreamInv
<1> QED BY <1>2, <1>3

LEMMA SameKeepsStream ==
    ASSUME StreamInv, UNCHANGED <<request, hdr, body, last, streamed, answers>>
    PROVE  StreamInv'
BY DEF StreamInv

(* read_some_loop with n bytes of the body in the parser: it hands on the  *)
(* bytes beyond those it has handed on, and then on_chunk_ has had n.      *)
HandsOn(grown, hands) ==
    /\ streamed' = IF hands THEN streamed \o SubSeq(grown, last + 1, Len(grown)) ELSE streamed
    /\ last' = SizeAfter(grown, hands)
    /\ body' = IF hands /\ ~request.accumulate THEN <<>> ELSE grown

Grown(n, grown) ==
    n >= Got /\ grown = body \o [i \in 1 .. n - Got |-> Got + i]

LEMMA ChunkFaithful ==
    ASSUME StreamInv, request.onChunk, NEW n \in Nat, NEW grown, Grown(n, grown),
           NEW hands \in BOOLEAN, hands <=> Len(grown) > last, HandsOn(grown, hands)
    PROVE  /\ streamed' \in Seq(Nat) /\ Len(streamed') = n
           /\ \A i \in 1 .. n : streamed'[i] = i
           /\ request.accumulate => body' = streamed' /\ last' = Len(body')
           /\ (~request.accumulate) => body' = <<>> /\ last' = 0
<1>1. /\ body \in Seq(Nat) /\ streamed \in Seq(Nat) /\ last \in Nat
      /\ \A i \in 1 .. Len(streamed) : streamed[i] = i
      /\ Got = Len(streamed) /\ Got \in Nat
    BY DEF StreamInv, Got
<1> DEFINE new == [i \in 1 .. n - Got |-> Got + i]
<1>2. new \in Seq(Nat) /\ Len(new) = n - Got /\ \A i \in 1 .. n - Got : new[i] = Got + i
    BY <1>1 DEF Grown
<1>3. grown = body \o new /\ n >= Got
    BY DEF Grown
<1> HIDE DEF new
<1>4. grown \in Seq(Nat) /\ Len(grown) = Len(body) + n - Got
    <2>1. grown \in Seq(Nat) /\ Len(grown) = Len(body) + Len(new)
        <3>1. body \in Seq(Nat) /\ new \in Seq(Nat)
            BY <1>1, <1>2
        <3>2. body \o new \in Seq(Nat) /\ Len(body \o new) = Len(body) + Len(new)
            BY <3>1
        <3> QED BY <1>3, <3>2
    <2>2. Len(body) \in Nat
        BY <1>1
    <2> QED BY <1>1, <1>2, <2>1, <2>2
<1>5. CASE request.accumulate
    <2>1. body = streamed /\ last = Len(body)
        BY <1>5 DEF StreamInv
    <2>2. Len(grown) = n /\ \A i \in 1 .. n : grown[i] = i
        BY <1>1, <1>2, <1>3, <1>4, <2>1
    <2>3. CASE hands
        <3>1. streamed \o SubSeq(grown, last + 1, Len(grown)) = grown
            <4>1. SubSeq(grown, last + 1, Len(grown)) = new
                BY <1>1, <1>2, <1>3, <1>4, <2>1
            <4> QED BY <1>3, <2>1, <4>1
        <3>2. streamed' = grown /\ body' = grown /\ last' = n
            BY <1>5, <2>2, <2>3, <3>1 DEF HandsOn, SizeAfter
        <3> QED BY <1>4, <1>5, <2>2, <3>2
    <2>4. CASE ~hands
        <3>1. n = Got /\ grown = streamed
            BY <1>1, <1>2, <1>3, <1>4, <2>1, <2>2, <2>4
        <3>2. streamed' = grown /\ body' = grown /\ last' = last
            BY <2>4, <3>1 DEF HandsOn, SizeAfter
        <3> QED BY <1>1, <1>4, <1>5, <2>1, <2>2, <3>1, <3>2
    <2> QED BY <2>3, <2>4
<1>6. CASE ~request.accumulate
    <2>1. body = <<>> /\ last = 0
        BY <1>6 DEF StreamInv
    <2>2. grown = new
        BY <1>2, <1>3, <2>1
    <2>3. CASE hands
        <3>1. SubSeq(grown, last + 1, Len(grown)) = new
            BY <1>2, <2>1, <2>2
        <3>2. streamed \o new \in Seq(Nat) /\ Len(streamed \o new) = n
            BY <1>1, <1>2
        <3>3. \A i \in 1 .. n : (streamed \o new)[i] = i
            BY <1>1, <1>2
        <3>4. streamed' = streamed \o new /\ body' = <<>> /\ last' = 0
            BY <1>6, <2>3, <3>1 DEF HandsOn, SizeAfter
        <3> QED BY <1>6, <3>2, <3>3, <3>4
    <2>4. CASE ~hands
        <3>1. n = Got /\ grown = <<>>
            BY <1>1, <1>2, <1>4, <2>1, <2>2, <2>4
        <3>2. streamed' = streamed /\ body' = <<>> /\ last' = 0
            BY <2>1, <2>4, <3>1 DEF HandsOn, SizeAfter
        <3> QED BY <1>1, <1>6, <3>1, <3>2
    <2> QED BY <2>3, <2>4
<1> QED BY <1>5, <1>6

LEMMA ReadSomeKeepsStream ==
    ASSUME StreamInv, answers = <<>>, request.kind = "stream", ReadSome
    PROVE  StreamInv'
<1>1. CASE \E r \in Responses(FALSE) : Deliver(r, 8)
    BY <1>1, DeliverKeepsStream
<1>2. CASE ~\E r \in Responses(FALSE) : Deliver(r, 8)
    <2>1. PICK n \in (IF hdr THEN Got + 1 ELSE 0) .. BodyLen :
             LET grown == body \o [i \in 1 .. n - Got |-> Got + i]
                 hands == Len(grown) > last /\ request.onChunk
             IN /\ hdr' = TRUE
                /\ streamed' = IF hands THEN streamed \o SubSeq(grown, last + 1, Len(grown))
                                        ELSE streamed
                /\ last' = SizeAfter(grown, hands)
                /\ body' = IF hands /\ ~request.accumulate THEN <<>> ELSE grown
                /\ \/ n = BodyLen
                   \/ UNCHANGED answers
                /\ UNCHANGED request
        BY <1>2 DEF ReadSome
    <2>2. Got \in Nat /\ BodyLen \in Nat /\ (hdr = FALSE => Got = 0)
        BY RequestAssumption DEF StreamInv, Got
    <2>3. n \in Nat /\ n >= Got
        <3>1. CASE hdr
            BY <2>2, <3>1
        <3>2. CASE ~hdr
            BY <2>2, <3>2 DEF StreamInv
        <3> QED BY <3>1, <3>2
    <2>4. PICK grown \in Seq(Nat) : grown = body \o [i \in 1 .. n - Got |-> Got + i]
        <3>1. [i \in 1 .. n - Got |-> Got + i] \in Seq(Nat)
            BY <2>2, <2>3
        <3>2. body \o [i \in 1 .. n - Got |-> Got + i] \in Seq(Nat)
            BY <3>1 DEF StreamInv
        <3> QED BY <3>2
    <2>5. CASE request.onChunk
        <3>1. PICK hands \in BOOLEAN : hands <=> Len(grown) > last
            OBVIOUS
        <3>2. /\ hdr' = TRUE /\ request' = request /\ (n = BodyLen \/ answers' = <<>>)
              /\ HandsOn(grown, hands) /\ Grown(n, grown)
            BY <2>1, <2>3, <2>4, <2>5, <3>1 DEF SizeAfter, HandsOn, Grown
        <3>3. /\ streamed' \in Seq(Nat) /\ Len(streamed') = n
              /\ \A i \in 1 .. n : streamed'[i] = i
              /\ request.accumulate => body' = streamed' /\ last' = Len(body')
              /\ (~request.accumulate) => body' = <<>> /\ last' = 0
            BY <2>3, <2>5, <3>1, <3>2, ChunkFaithful
        <3>4. last' \in Nat /\ body' \in Seq(Nat)
            <4>1. CASE request.accumulate
                BY <3>3, <4>1
            <4>2. CASE ~request.accumulate
                <5>1. body' = <<>> /\ last' = 0
                    BY <3>3, <4>2
                <5> QED BY <5>1
            <4> QED BY <4>1, <4>2
        <3>5. \A i \in DOMAIN streamed' : streamed'[i] = i
            BY <3>3
        <3>6. \A i \in DOMAIN answers' : answers'[i].code = 0 => Len(streamed') = BodyLen
            BY <3>2, <3>3
        <3> QED BY <2>5, <3>2, <3>3, <3>4, <3>5, <3>6 DEF StreamInv
    <2>6. CASE ~request.onChunk
        <3>1. streamed' = streamed /\ last' = last /\ body' = grown /\ request' = request /\ hdr' = TRUE
            BY <2>1, <2>4, <2>6 DEF SizeAfter
        <3> QED BY <2>4, <2>6, <3>1 DEF StreamInv
    <2> QED BY <2>5, <2>6
<1> QED BY <1>1, <1>2

LEMMA RequestKeepsStream ==
    ASSUME ReqInv, StreamInv, ReqNext
    PROVE  StreamInv'
<1> DEFINE Same == UNCHANGED <<request, hdr, body, last, streamed, answers>>
<1>1. CASE HttpRequest
    <2>1. hdr' = FALSE /\ body' = <<>> /\ last' = 0 /\ streamed' = <<>> /\ answers' = <<>> /\ request' = request
        BY <1>1 DEF HttpRequest, Run, ReqInv, OneAnswer, Fresh
    <2> QED BY <2>1 DEF StreamInv
<1>2. CASE TimerExpires \/ OnTimer
    BY <1>2, SameKeepsStream DEF TimerExpires, OnTimer
<1>3. SUFFICES ASSUME OnResolve \/ OnResolveProxy \/ Operation PROVE StreamInv'
    BY <1>1, <1>2 DEF ReqNext
<1>4. answers = <<>>
    BY <1>3 DEF ReqInv, OneAnswer, OnResolve, OnResolveProxy, Operation, OnConnectProxyServer,
       OnRequestProxy, OnReadProxyResponse, OnConnect, OnHandshake, OnWrite, OnRead,
       OnReadSomeSsl, OnReadSomePlain
<1>5. ASSUME NEW code \in Nat \ {0}, Fail(code) PROVE StreamInv'
    BY <1>4, <1>5, DeliverKeepsStream DEF Fail
<1>6. ASSUME Same \/ Fail(1) \/ Fail(2) \/ Fail(3) \/ Fail(4) \/ Fail(5) \/ Fail(9) \/ Fail(10)
      PROVE  StreamInv'
    <2>1. CASE Same
        BY <2>1, SameKeepsStream
    <2>2. CASE Fail(1) \/ Fail(2) \/ Fail(3) \/ Fail(4) \/ Fail(5) \/ Fail(9) \/ Fail(10)
        BY <1>5, <2>2
    <2> QED BY <1>6, <2>1, <2>2
<1>7. CASE OnResolve \/ OnResolveProxy
    <2>1. Same \/ Fail(1)
        BY <1>7 DEF OnResolve, OnResolveProxy, Start
    <2> QED BY <1>6, <2>1
<1>8. CASE OnConnectProxyServer \/ OnRequestProxy
    <2>1. Same \/ Fail(1) \/ Fail(2)
        BY <1>8 DEF OnConnectProxyServer, OnRequestProxy, Start
    <2> QED BY <1>6, <2>1
<1>9. ASSUME NEW p, AfterConnect(p) PROVE Same \/ Fail(9)
    BY <1>9 DEF AfterConnect, AfterConnectSsl, AfterConnectPlain, Start
<1>10. CASE OnReadProxyResponse \/ OnConnect
    <2>1. Fail(3) \/ Fail(4) \/ Fail(5) \/ AfterConnect("tunnel") \/ AfterConnect("origin")
        BY <1>10 DEF OnReadProxyResponse, OnConnect
    <2> QED BY <1>6, <1>9, <2>1
<1>11. CASE OnHandshake
    <2>1. Same \/ Fail(10)
        BY <1>11 DEF OnHandshake, Start
    <2> QED BY <1>6, <2>1
<1>12. CASE OnWrite
    <2>1. CASE Fail(6)
        BY <1>5, <2>1
    <2>2. CASE ~Fail(6)
        <3>1. /\ UNCHANGED <<request, hdr, body, last, streamed>>
              /\ answers' = <<[resp |-> NoResp, code |-> 7]>> \/ answers' = answers
            BY <1>4, <1>12, <2>2 DEF OnWrite
        <3> QED BY <1>4, <3>1 DEF StreamInv
    <2> QED BY <2>1, <2>2
<1>13. CASE OnRead
    BY <1>4, <1>13, DeliverKeepsStream DEF OnRead
<1>14. CASE OnReadSomeSsl \/ OnReadSomePlain
    BY <1>4, <1>14, ReadSomeKeepsStream DEF OnReadSomeSsl, OnReadSomePlain
<1> QED
    BY <1>3, <1>7, <1>8, <1>10, <1>11, <1>12, <1>13, <1>14 DEF Operation

-----------------------------------------------------------------------------
(* The client.                                                             *)

LEMMA ClientStarts == ClientInit => ClientInv
<1> SUFFICES ASSUME ClientInit PROVE ClientInv
    OBVIOUS
<1>1. PoolInv
    BY PoolStarts DEF ClientInit
<1>2. ReqInv
    BY RequestAssumption DEF ClientInit, ReqInit, ReqInv, OnTheWay, Followed, OneAnswer, Fresh,
       Written, SentRight, AnswerMeans, ProxyOps, DirectOps, OriginOps
<1>3. StreamInv
    BY DEF ClientInit, ReqInit, StreamInv
<1> QED BY <1>1, <1>2, <1>3 DEF ClientInv, ClientInit, ReqInit

(* Before a request runs, whatever changes is outside it, or its proxy.    *)
LEMMA WaitingKept ==
    ASSUME ReqInv, StreamInv, pc = "start",
           UNCHANGED <<request, url, left, session, sent, answers>>
    PROVE  ReqInv' /\ StreamInv'
<1>1. /\ pc' = "start" /\ sent' = {} /\ answers' = <<>> /\ left' \in Nat
      /\ url' = request'.url
    BY DEF ReqInv, Fresh, session
<1>2. OnTheWay' /\ OneAnswer' /\ Written' /\ SentRight' /\ AnswerMeans' /\ Followed'
    BY <1>1 DEF OnTheWay, OneAnswer, Written, SentRight, AnswerMeans, Followed,
       ProxyOps, DirectOps, OriginOps
<1>3. Fresh'
    BY DEF ReqInv, Fresh, session
<1>4. StreamInv'
    BY SameKeepsStream DEF session
<1> QED BY <1>1, <1>2, <1>3, <1>4 DEF ReqInv

LEMMA ClientStep == ClientInv /\ [ClientNext]_clientVars => ClientInv'
<1> SUFFICES ASSUME ClientInv, [ClientNext]_clientVars PROVE ClientInv'
    OBVIOUS
<1>0. PoolInv /\ ReqInv /\ StreamInv
    BY DEF ClientInv
<1>1. CASE HttpRequestIo
    <2>1. pc = "start" /\ phase' \in {"borrow", "running"} /\ UNCHANGED poolVars
        BY <1>1 DEF HttpRequestIo, ClientInv, Submit
    <2>2. UNCHANGED <<request, url, left, session, sent, answers>>
        BY <1>1 DEF HttpRequestIo, Submit, reqVars
    <2>3. ReqInv' /\ StreamInv' /\ pc' = "start"
        BY <1>0, <2>1, <2>2, WaitingKept DEF session
    <2>4. PoolInv'
        BY <1>0, <2>1, PoolKept DEF poolVars
    <2> QED BY <2>1, <2>3, <2>4 DEF ClientInv
<1>2. CASE Borrow
    <2>1. /\ pc = "start" /\ phase' = "running" /\ Advance
          /\ UNCHANGED <<request, url, left, session, sent, answers>>
        BY <1>2 DEF Borrow, ClientInv, Submit
    <2>2. ReqInv' /\ StreamInv'
        BY <1>0, <2>1, WaitingKept
    <2>3. PoolInv'
        BY <1>0, <2>1, AdvanceKeepsTurn
    <2> QED BY <2>1, <2>2, <2>3 DEF ClientInv
<1>3. CASE Done
    <2>1. /\ phase' = "idle" /\ url' = request'.url /\ left' = MaxRedirects /\ pc' = "start"
          /\ hdr' = FALSE /\ body' = <<>> /\ last' = 0 /\ streamed' = <<>>
          /\ sent' = {} /\ answers' = <<>> /\ UNCHANGED poolVars
        BY <1>3 DEF Done
    <2>2. ReqInv'
        BY <2>1, RequestAssumption DEF ReqInv, OnTheWay, Followed, OneAnswer, Fresh, Written,
           SentRight, AnswerMeans, ProxyOps, DirectOps, OriginOps
    <2>3. StreamInv'
        BY <2>1 DEF StreamInv
    <2>4. PoolInv'
        BY <1>0, <2>1, PoolKept DEF poolVars
    <2> QED BY <2>1, <2>2, <2>3, <2>4 DEF ClientInv
<1>4. CASE Request
    <2>1. ReqNext /\ UNCHANGED poolVars /\ phase = "running" /\ phase' = phase
        BY <1>4 DEF Request
    <2>2. ReqInv' /\ StreamInv'
        BY <1>0, <2>1, RequestKeepsReq, RequestKeepsStream
    <2>3. PoolInv'
        BY <1>0, <2>1, PoolKept DEF poolVars
    <2> QED BY <2>1, <2>2, <2>3 DEF ClientInv
<1>5. CASE Others
    <2>1. pc = "start" /\ phase' = phase /\ PoolNext /\ UNCHANGED reqVars
        BY <1>5 DEF Others, ClientInv
    <2>2. ReqInv' /\ StreamInv' /\ pc' = pc
        BY <1>0, <2>1, WaitingKept DEF reqVars, session
    <2>3. PoolInv'
        BY <1>0, <2>1, PoolStep
    <2> QED BY <2>1, <2>2, <2>3 DEF ClientInv
<1>6. CASE UNCHANGED clientVars
    <2>1. /\ UNCHANGED <<request, proxy, url, left, pc, peer, tls, hdr, body, last, streamed, sent, answers>>
          /\ UNCHANGED <<proxies, index, waits, phase>>
        BY <1>6 DEF clientVars, reqVars, poolVars, session
    <2>2. SentRight' /\ AnswerMeans'
        BY <1>0, <2>1 DEF ReqInv, SentRight, AnswerMeans, Proxied, Next1
    <2>3. OnTheWay'
        BY <1>0, <2>1 DEF ReqInv, OnTheWay, Via, Proxied
    <2>4. Followed' /\ OneAnswer' /\ Fresh' /\ Written' /\ left' \in Nat
        BY <1>0, <2>1 DEF ReqInv, Followed, OneAnswer, Fresh, Written
    <2>5. ReqInv'
        BY <2>2, <2>3, <2>4 DEF ReqInv
    <2>6. PoolInv' /\ StreamInv'
        BY <1>0, <2>1, PoolKept, SameKeepsStream
    <2> QED BY <2>1, <2>5, <2>6 DEF ClientInv
<1> QED BY <1>1, <1>2, <1>3, <1>4, <1>5, <1>6 DEF ClientNext

LEMMA ClientInvariant == ClientSpec => []ClientInv
BY ClientStarts, ClientStep, PTL DEF ClientSpec

-----------------------------------------------------------------------------
(* The sessions of http_request and http_request_stream: every request     *)
(* that is written, on every hop of a chain of redirects of any length,    *)
(* names its URL, goes through the tunnel exactly when there is a proxy to *)
(* use, is encrypted exactly for https, and beyond the first hop is a GET  *)
(* or HEAD that may follow.                                                *)
THEOREM RequestsSentRight == ClientSpec => []SentRight
<1>1. ClientInv => SentRight
    BY DEF ClientInv, ReqInv
<1> QED BY <1>1, ClientInvariant, PTL

(* An answer without error is the whole response of the hop that was       *)
(* written last, and no redirect that the callback had to follow.          *)
THEOREM AnswersMeanTheirHop == ClientSpec => []AnswerMeans
<1>1. ClientInv => AnswerMeans
    BY DEF ClientInv, ReqInv
<1> QED BY <1>1, ClientInvariant, PTL

(* The user's callback is called at most once in a run of the IO, also     *)
(* when a resolution ends well after the watchdog has cancelled it.        *)
THEOREM AnsweredAtMostOnce == ClientSpec => [](Len(answers) <= 1)
<1>1. ClientInv => Len(answers) <= 1
    <2> SUFFICES ASSUME ClientInv PROVE Len(answers) <= 1
        OBVIOUS
    <2>1. answers = <<>> \/ answers = <<answers[1]>>
        BY DEF ClientInv, ReqInv, OneAnswer
    <2>2. \A a : Len(<<a>>) = 1
        OBVIOUS
    <2>3. Len(answers) = 0 \/ Len(answers) = 1
        BY <2>1, <2>2
    <2> QED BY <2>3
<1> QED BY <1>1, ClientInvariant, PTL

(* on_chunk_ gets the body's bytes in order, each once, whatever the sizes *)
(* of the reads, with and without accumulation, and all of them before a   *)
(* good end.                                                               *)
THEOREM StreamsFaithful == ClientSpec => []StreamFaithful
<1>1. ClientInv => StreamFaithful
    BY DEF ClientInv, StreamInv, StreamFaithful
<1> QED BY <1>1, ClientInvariant, PTL

-----------------------------------------------------------------------------
(* The choice of the proxy.                                                *)

(* What ex->proxy may hold between the runs of the IO: a run leaves there  *)
(* the proxy it borrowed, which the next one takes for the caller's.       *)
ExchangeInv ==
    /\ CallersProxy => exProxy = given
    /\ (request.noProxyPool /\ given = NoProxy) => exProxy = NoProxy
    /\ phase = "borrow" => WantsPool

(* What the request was built with, for all of its hops.                   *)
Chosen ==
    phase = "running" =>
        /\ CallersProxy => proxy = given
        /\ (request.noProxyPool /\ given = NoProxy) => proxy = NoProxy
        /\ proxy = NoProxy =>
              request.noProxyPool \/ request.url.host \in Bypassed \/ noneUsable
        /\ ~(proxy \in EnvProxies /\ request.url.host \in Bypassed)

(* Nothing has been sent while no request runs.                            *)
SentRunning == phase # "running" => sent = {}

ChoiceInv == ClientInv /\ ExchangeInv /\ Chosen /\ SentRunning

LEMMA BypassFacts ==
    ASSUME NEW p
    PROVE  /\ AfterBypass(p) = p \/ request.url.host \in Bypassed
           /\ AfterBypass(NoProxy) = NoProxy
           /\ ~(AfterBypass(p) \in EnvProxies /\ request.url.host \in Bypassed)
BY ClientAssumption, PoolAssumption DEF AfterBypass

(* No step of the session changes params or proxy_setting.                 *)
LEMMA RequestKeepsProxy ==
    ASSUME ReqNext
    PROVE  request' = request /\ proxy' = proxy
BY DEF ReqNext, Operation, HttpRequest, TimerExpires, OnTimer, OnResolve, OnResolveProxy,
   OnConnectProxyServer, OnRequestProxy, OnReadProxyResponse, OnConnect, OnHandshake, OnWrite,
   OnRead, OnReadSomeSsl, OnReadSomePlain, ReadSome, Fail, Deliver, Start, AfterConnect,
   AfterConnectSsl, AfterConnectPlain

(* The request is built with p, which is the caller's or what a pool that  *)
(* the tests allow has given.                                              *)
Allowed(p) ==
    /\ CallersProxy => p = given
    /\ (request.noProxyPool /\ given = NoProxy) => p = NoProxy

LEMMA SubmitKeepsChoice ==
    ASSUME NEW p, Allowed(p), Submit(p),
           p = NoProxy => request.noProxyPool \/ request.url.host \in Bypassed \/ noneUsable'
    PROVE  ExchangeInv' /\ Chosen' /\ SentRunning'
<1>1. /\ exProxy' = AfterBypass(p) /\ proxy' = AfterBypass(p) /\ phase' = "running"
      /\ request' = request /\ given' = given
    BY DEF Submit
<1>2. CallersProxy' <=> CallersProxy
    BY <1>1 DEF CallersProxy
<1>3. CallersProxy => AfterBypass(p) = given
    BY DEF Allowed, AfterBypass, CallersProxy
<1>4. ExchangeInv'
    BY <1>1, <1>2, <1>3, BypassFacts DEF ExchangeInv, Allowed
<1>5. Chosen'
    <2>1. proxy' = NoProxy =>
            request.noProxyPool \/ request.url.host \in Bypassed \/ noneUsable'
        BY <1>1, BypassFacts
    <2>2. ~(proxy' \in EnvProxies /\ request.url.host \in Bypassed)
        BY <1>1, BypassFacts
    <2>3. (request.noProxyPool /\ given = NoProxy) => proxy' = NoProxy
        BY <1>1, BypassFacts DEF Allowed
    <2> QED BY <1>1, <1>2, <1>3, <2>1, <2>2, <2>3 DEF Chosen
<1> QED BY <1>1, <1>4, <1>5 DEF SentRunning

LEMMA ChoiceStep == ChoiceInv /\ [ClientNext]_clientVars => ChoiceInv'
<1> SUFFICES ASSUME ChoiceInv, [ClientNext]_clientVars PROVE ChoiceInv'
    OBVIOUS
<1>0. ClientInv' /\ ExchangeInv /\ Chosen /\ SentRunning
    BY ClientStep DEF ChoiceInv
<1> USE DEF CallersProxy
<1>1. CASE HttpRequestIo
    <2>1. CASE WantsPool /\ proxies # <<>>
        <3>1. phase' = "borrow" /\ phase = "idle" /\ UNCHANGED <<request, proxy, exProxy, given, sent>>
            BY <1>1, <2>1 DEF HttpRequestIo, reqVars
        <3> QED BY <1>0, <2>1, <3>1 DEF ChoiceInv, ExchangeInv, Chosen, SentRunning, WantsPool
    <2>2. CASE ~(WantsPool /\ proxies # <<>>)
        <3>1. Submit(exProxy) /\ noneUsable' = (proxies = <<>>)
            BY <1>1, <2>2 DEF HttpRequestIo
        <3>2. PICK p : p = exProxy
            OBVIOUS
        <3>3. Allowed(p) /\ Submit(p)
            BY <1>0, <3>1, <3>2 DEF Allowed, ExchangeInv
        <3>4. p = NoProxy => request.noProxyPool \/ request.url.host \in Bypassed \/ noneUsable'
            BY <2>2, <3>1, <3>2 DEF WantsPool
        <3> QED BY <1>0, <3>3, <3>4, SubmitKeepsChoice DEF ChoiceInv
    <2> QED BY <2>1, <2>2
<1>2. CASE Borrow
    <2>1. PICK p : Submit(p) /\ noneUsable' = (p = NoProxy)
        BY <1>2 DEF Borrow
    <2>2. WantsPool
        BY <1>0, <1>2 DEF ExchangeInv, Borrow
    <2>3. Allowed(p)
        BY <1>0, <2>2 DEF ExchangeInv, WantsPool, Allowed
    <2> QED BY <1>0, <2>1, <2>3, SubmitKeepsChoice DEF ChoiceInv
<1>3. CASE Done
    <2>1. phase' = "idle" /\ sent' = {} /\ UNCHANGED <<request, exProxy, given>>
        BY <1>3 DEF Done
    <2> QED BY <1>0, <2>1 DEF ChoiceInv, ExchangeInv, Chosen, SentRunning
<1>4. CASE Request
    <2>1. phase = "running" /\ UNCHANGED <<request, proxy, exProxy, given, phase, noneUsable>>
        BY <1>4, RequestKeepsProxy DEF Request
    <2> QED BY <1>0, <2>1 DEF ChoiceInv, ExchangeInv, Chosen, SentRunning, WantsPool
<1>5. CASE Others
    <2>1. UNCHANGED <<request, proxy, exProxy, given, phase, noneUsable, sent>>
        BY <1>5 DEF Others, reqVars
    <2> QED BY <1>0, <2>1 DEF ChoiceInv, ExchangeInv, Chosen, SentRunning, WantsPool
<1>6. CASE UNCHANGED clientVars
    <2>1. UNCHANGED <<request, proxy, exProxy, given, phase, noneUsable, sent>>
        BY <1>6 DEF clientVars, reqVars
    <2> QED BY <1>0, <2>1 DEF ChoiceInv, ExchangeInv, Chosen, SentRunning, WantsPool
<1> QED BY <1>1, <1>2, <1>3, <1>4, <1>5, <1>6 DEF ClientNext

(* Each hop goes the way SentRight says, by the proxy that was chosen.     *)
LEMMA HopsFollowChoice == ChoiceInv => ProxyPolicy
<1> SUFFICES ASSUME ChoiceInv, NEW s \in sent
             PROVE  /\ CallersProxy => proxy = given
                    /\ (CallersProxy /\ ~request.noModify) => s.via = "tunnel"
                    /\ (request.noProxyPool /\ given = NoProxy) => s.via = "origin"
                    /\ s.via = "origin" =>
                          \/ request.noModify
                          \/ request.noProxyPool
                          \/ request.url.host \in Bypassed
                          \/ noneUsable
                    /\ (s.via = "tunnel" /\ proxy \in EnvProxies /\ s.url.host \in Bypassed) =>
                          s.url.host # request.url.host
    BY DEF ProxyPolicy
<1>1. phase = "running" /\ Chosen
    BY DEF ChoiceInv, SentRunning
<1>2. s.via = IF Proxied THEN "tunnel" ELSE "origin"
    BY DEF ChoiceInv, ClientInv, ReqInv, SentRight
<1>3. CallersProxy => given # NoProxy
    BY DEF CallersProxy
<1> QED BY <1>1, <1>2, <1>3 DEF Chosen, Proxied

(* http_request_io and ProxyPool: over any number of runs of the IO and of *)
(* redirects, each hop goes the way that was chosen for the first URL by   *)
(* the caller's proxy, no_proxy_pool, NO_PROXY and no_modify_req, and a    *)
(* usable proxy is passed over less often than the list is long, whatever  *)
(* other threads ask for, replace, merge or blacklist.                     *)
THEOREM ProxiesChosen == ClientSpec => []ProxyChoice
<1>1. ClientInit => ChoiceInv
    <2> SUFFICES ASSUME ClientInit PROVE ChoiceInv
        OBVIOUS
    <2>1. exProxy = given /\ phase = "idle" /\ sent = {}
        BY DEF ClientInit, ReqInit
    <2> QED BY <2>1, ClientStarts DEF ChoiceInv, ExchangeInv, Chosen, SentRunning
<1>2. ChoiceInv => ProxyChoice
    BY PoolFair, HopsFollowChoice DEF ChoiceInv, ClientInv, ProxyChoice
<1> QED BY <1>1, <1>2, ChoiceStep, PTL DEF ClientSpec
=============================================================================
