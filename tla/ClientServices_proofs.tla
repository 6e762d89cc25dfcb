------------------------ MODULE ClientServices_proofs ------------------------
(***************************************************************************)
(* Five services of the clients, for every value of their constants: the   *)
(* rate limiter keeps its rate, the pages of a query lose nothing, what    *)
(* the asynchronous client wrote stands, what an invalidation evicted from *)
(* a shared cache stays out of it, and the tables of the cache in the      *)
(* process describe the same entries.                                      *)
(***************************************************************************)
EXTENDS TokenBucket, ResultPages, AsyncClient, SharedCache, SemanticCache, Sublists_proofs

-----------------------------------------------------------------------------
(***************************************************************************)
(* The rate limiter keeps its rate, for any number of callers, any rate,   *)
(* any capacity and any interval.                                          *)
(*                                                                         *)
(* RateBounded is not inductive: it says nothing of the tokens still in    *)
(* the bucket, which may be given out next.  What is inductive counts them *)
(* with those given out, up to the last refill.                            *)
(***************************************************************************)
USE BucketAssumption

(* What was given out since the mark and what is left came from a full     *)
(* bucket and what has flowed in; nothing was given out since the mark if  *)
(* the bucket was not refilled since.                                      *)
Accounted ==
  /\ lastTime < mark.time => granted = mark.granted
  /\ lastTime >= mark.time =>
       (granted - mark.granted) * One + tokens <= Capacity + (lastTime - mark.time) * Rate

BucketInv == BucketTypeOK /\ Accounted

(* A refill keeps to the capacity and to what has flowed in.               *)
LEMMA RefillBounded ==
  ASSUME BucketTypeOK
  PROVE  /\ Refilled \in 0 .. Capacity
         /\ Refilled <= tokens + (now - lastTime) * Rate
         /\ (now - lastTime) * Rate \in Nat
<1>1. /\ tokens \in 0 .. Capacity /\ now \in Nat /\ lastTime \in Nat /\ lastTime <= now
      /\ Rate \in Nat /\ Capacity \in Nat
  BY DEF BucketTypeOK
<1>2. (now - lastTime) * Rate \in Nat
  <2>1. now - lastTime \in Nat
    BY <1>1
  <2> QED  BY <1>1, <2>1
<1> QED  BY <1>1, <1>2 DEF Refilled, Least

(* The account of a refill, before a token is taken from it.               *)
LEMMA RefillAccounted ==
  ASSUME BucketInv
  PROVE  (granted - mark.granted) * One + Refilled <= Capacity + (now - mark.time) * Rate
<1> DEFINE given == (granted - mark.granted) * One
<1>1. /\ tokens \in Int /\ now \in Int /\ lastTime \in Int /\ Rate \in Nat /\ One \in Nat /\ Capacity \in Nat
      /\ mark.time \in Int /\ mark.time <= now /\ granted \in Int /\ mark.granted \in Int
  BY DEF BucketInv, BucketTypeOK
<1>2. /\ Refilled \in 0 .. Capacity
      /\ Refilled <= tokens + (now - lastTime) * Rate
  BY RefillBounded DEF BucketInv
<1>3. CASE lastTime < mark.time
  <2>1. given = 0
    BY <1>1, <1>3 DEF BucketInv, Accounted
  <2>2. (now - mark.time) * Rate >= 0
    <3>1. now - mark.time \in Nat
      BY <1>1
    <3> QED  BY <1>1, <3>1
  <2>3. (now - mark.time) * Rate \in Int
    BY <1>1
  <2> QED  BY <1>1, <1>2, <2>1, <2>2, <2>3
<1>4. CASE lastTime >= mark.time
  <2>1. given + tokens <= Capacity + (lastTime - mark.time) * Rate
    BY <1>4 DEF BucketInv, Accounted
  <2>2. (now - lastTime) * Rate + (lastTime - mark.time) * Rate = (now - mark.time) * Rate
    BY <1>1
  <2>3. given \in Int /\ (now - lastTime) * Rate \in Int /\ (lastTime - mark.time) * Rate \in Int
    BY <1>1
  <2> QED
    <3> HIDE DEF given
    <3> QED  BY <1>1, <1>2, <2>1, <2>2, <2>3 DEF given
<1> QED  BY <1>1, <1>3, <1>4

LEMMA AcquireKeeps ==
  ASSUME BucketInv, NEW c \in Callers, Acquire(c)
  PROVE  BucketInv'
<1>1. waiter' \in [Callers -> [does: {"away", "tries"}, until: Nat]]
  BY DEF Acquire, BucketInv, BucketTypeOK
<1> QED  BY <1>1 DEF Acquire, BucketInv, BucketTypeOK, Accounted

LEMMA GrantKeeps ==
  ASSUME BucketInv, NEW c \in Callers, Grant(c)
  PROVE  BucketInv'
<1>1. Refilled \in 0 .. Capacity
  BY RefillBounded DEF BucketInv
<1>2. waiter' \in [Callers -> [does: {"away", "tries"}, until: Nat]]
  BY DEF Grant, Away, BucketInv, BucketTypeOK
<1>3. /\ tokens \in Int /\ now \in Nat /\ mark.time \in Nat /\ mark.time <= now
      /\ granted \in Nat /\ mark.granted \in Nat
      /\ tokens' = Refilled - One /\ lastTime' = now /\ granted' = granted + 1
      /\ now' = now /\ mark' = mark
  BY DEF Grant, BucketInv, BucketTypeOK
<1>4. BucketTypeOK'
  BY <1>1, <1>2, <1>3 DEF Grant, BucketInv, BucketTypeOK
<1>5. Accounted'
  <2>1. (granted - mark.granted) * One + Refilled <= Capacity + (now - mark.time) * Rate
    BY RefillAccounted
  <2>2. (granted + 1 - mark.granted) * One = (granted - mark.granted) * One + One
    BY <1>3
  <2>3. (granted - mark.granted) * One \in Int /\ (now - mark.time) * Rate \in Int
    BY <1>3
  <2> QED  BY <1>1, <1>3, <2>1, <2>2, <2>3 DEF Accounted
<1> QED  BY <1>4, <1>5 DEF BucketInv

LEMMA SleepKeeps ==
  ASSUME BucketInv, NEW c \in Callers, Sleep(c)
  PROVE  BucketInv'
<1>1. Refilled \in 0 .. Capacity /\ Refilled < One
  BY RefillBounded DEF Sleep, BucketInv
<1>2. WaitFor(Refilled) \in Nat
  <2>1. One - Refilled + Rate - 1 \in Nat
    BY <1>1
  <2> QED  BY <2>1 DEF WaitFor
<1>3. waiter' \in [Callers -> [does: {"away", "tries"}, until: Nat]]
  BY <1>2 DEF Sleep, BucketInv, BucketTypeOK
<1>4. BucketTypeOK'
  BY <1>1, <1>3 DEF Sleep, BucketInv, BucketTypeOK
<1>5. Accounted'
  <2>1. (granted - mark.granted) * One + Refilled <= Capacity + (now - mark.time) * Rate
    BY RefillAccounted
  <2>2. mark.time <= now /\ mark.time \in Nat /\ now \in Nat
    BY DEF BucketInv, BucketTypeOK
  <2> QED  BY <2>1, <2>2 DEF Sleep, Accounted
<1> QED  BY <1>4, <1>5 DEF BucketInv

(* A bucket that is marked holds no more than its capacity.                *)
LEMMA MarkKeeps ==
  ASSUME BucketInv, Mark
  PROVE  BucketInv'
<1>1. BucketTypeOK'
  BY DEF Mark, BucketInv, BucketTypeOK
<1>2. Accounted'
  <2>1. /\ mark'.time = now /\ mark'.granted = granted
        /\ tokens' = tokens /\ lastTime' = lastTime /\ granted' = granted
        /\ tokens \in 0 .. Capacity /\ now \in Nat /\ lastTime \in 0 .. now /\ granted \in Nat
    BY DEF Mark, BucketInv, BucketTypeOK
  <2>2. (granted - granted) * One = 0 /\ (now - now) * Rate = 0
    BY <2>1
  <2> QED  BY <2>1, <2>2 DEF Accounted
<1> QED  BY <1>1, <1>2 DEF BucketInv

LEMMA BucketInvInit == BucketInit => BucketInv
<1>1. ASSUME BucketInit PROVE BucketTypeOK
  BY <1>1 DEF BucketInit, BucketTypeOK, Away
<1>2. ASSUME BucketInit PROVE Accounted
  <2>1. (0 - 0) * One = 0 /\ (0 - 0) * Rate = 0
    OBVIOUS
  <2> QED  BY <1>2, <2>1 DEF BucketInit, Accounted
<1> QED  BY <1>1, <1>2 DEF BucketInv

LEMMA BucketInvNext == BucketInv /\ [BucketNext]_tbvars => BucketInv'
<1> SUFFICES ASSUME BucketInv, [BucketNext]_tbvars PROVE BucketInv'
  OBVIOUS
<1>1. ASSUME NEW c \in Callers, Acquire(c) PROVE BucketInv'
  BY <1>1, AcquireKeeps
<1>2. ASSUME NEW c \in Callers, Grant(c) PROVE BucketInv'
  BY <1>2, GrantKeeps
<1>3. ASSUME NEW c \in Callers, Sleep(c) PROVE BucketInv'
  BY <1>3, SleepKeeps
<1>4. CASE Tick
  BY <1>4 DEF Tick, BucketInv, BucketTypeOK, Accounted
<1>5. CASE Mark
  BY <1>5, MarkKeeps
<1>6. CASE UNCHANGED tbvars
  BY <1>6 DEF tbvars, BucketInv, BucketTypeOK, Accounted
<1> QED  BY <1>1, <1>2, <1>3, <1>4, <1>5, <1>6 DEF BucketNext

(* What is given out since the mark does not exceed a full bucket and what *)
(* has flowed in until now.                                                *)
LEMMA BucketInvBounds == BucketInv => RateBounded
<1> SUFFICES ASSUME BucketInv PROVE RateBounded
  OBVIOUS
<1>1. (granted - mark.granted) * One + Refilled <= Capacity + (now - mark.time) * Rate
  BY RefillAccounted
<1>2. Refilled \in Nat
  BY RefillBounded DEF BucketInv
<1>3. (granted - mark.granted) * One \in Int /\ (now - mark.time) * Rate \in Int
  BY DEF BucketInv, BucketTypeOK
<1> QED  BY <1>1, <1>2, <1>3 DEF RateBounded

(* The bucket never holds more than its capacity, and the callers, the     *)
(* clock and the counts are typed.                                         *)
THEOREM BucketTyped == BucketSpec => []BucketTypeOK
<1>1. BucketInv => BucketTypeOK
  BY DEF BucketInv
<1> QED  BY <1>1, BucketInvInit, BucketInvNext, PTL DEF BucketSpec

(* TokenBucket.acquire gives out, over any interval and however its        *)
(* callers are interleaved, no more than a full bucket and what flowed in. *)
THEOREM RateKept == BucketSpec => []RateBounded
<1> QED  BY BucketInvInit, BucketInvNext, BucketInvBounds, PTL DEF BucketSpec

HIDE BucketAssumption

-----------------------------------------------------------------------------
(***************************************************************************)
(* Result paging: what reaches the caller is the ranking of the service.   *)
(*                                                                         *)
(* PagesExact speaks of what the caller has.  What is inductive places     *)
(* everything on its way there as well: the buffer goes on where           *)
(* query_pages stopped, the results of query and the ids of a hydration    *)
(* where the hits handed out end, and the records read are current.        *)
(***************************************************************************)
(* The matches first + 1, ..., first + n, in order.                        *)
Run(s, first, n) == s \in Seq(Nat) /\ Len(s) = n /\ \A i \in 1 .. n : s[i] = first + i

PagesTyped ==
  /\ stage \in {"idle", "reading", "hydrating", "done", "raised"}
  /\ ask \in [kind: {"search", "stream"}, topK: Nat, size: Nat \cup {NoSize}]
  /\ fetched \in Nat /\ yielded \in Nat /\ over \in BOOLEAN
  /\ text \in [Ids -> Nat] /\ seen \in [Ids -> SUBSET Nat]
  /\ out \in Seq([id: Nat, text: Nat])

(* query_pages: the buffer is what was fetched and not yet yielded.        *)
Buffered ==
  /\ yielded <= fetched /\ fetched <= Limit
  /\ Run(buffer, yielded, fetched - yielded)

(* Above it: what was yielded is with the caller or on its way.            *)
Passed ==
  /\ Len(out) <= yielded
  /\ ask.kind = "search" => Run(found, 0, yielded)
  /\ ask.kind = "stream" => found = << >>
  /\ stage = "idle" => fetched = 0 /\ found = << >> /\ ~over
  /\ stage = "reading" => IF ask.kind = "search" THEN Len(out) = 0 ELSE Len(out) = yielded
  /\ stage = "hydrating" =>
       /\ Run(pending, Len(out), yielded - Len(out))
       /\ ask.kind = "search" => Len(out) = 0

(* A record that was read is one the call may show.                        *)
Current ==
  /\ \A d \in Ids : text[d] \in seen[d]
  /\ stage \in {"idle", "reading"} => DOMAIN got = {}
  /\ \A d \in DOMAIN got : d \in Ids /\ got[d] \in seen[d]
  /\ \A i \in 1 .. Len(out) : out[i].id = i /\ out[i].text \in seen[i]

(* The loop over the pages ends where the matches do, ...                  *)
EndsTold ==
  /\ over => fetched = Limit
  /\ stage = "hydrating" /\ ask.kind = "search" => yielded = Limit
  /\ WholeAnswer

(* ... if the store finds the token of the next page.                      *)
PagesInv ==
  /\ PagesTyped /\ Buffered /\ Passed /\ Current /\ BatchesWhole
  /\ TokenField = "NextToken" => EndsTold

LEMMA SmallestIs ==
  ASSUME NEW S \in SUBSET Int, NEW m \in S, \A y \in S : m <= y
  PROVE  SmallestOf(S) = m
<1>1. \A x \in S : (\A y \in S : x <= y) => x = m
  OBVIOUS
<1> QED  BY <1>1 DEF SmallestOf

LEMMA SmallestOfTwo ==
  ASSUME NEW a \in Int, NEW b \in Int
  PROVE  SmallestOf({a, b}) = IF a <= b THEN a ELSE b
<1>1. {a, b} \in SUBSET Int /\ a \in {a, b} /\ b \in {a, b}
  OBVIOUS
<1>2. CASE a <= b
  <2>1. \A y \in {a, b} : a <= y
    BY <1>2
  <2> QED  BY <1>1, <1>2, <2>1, SmallestIs
<1>3. CASE ~(a <= b)
  <2>1. \A y \in {a, b} : b <= y
    BY <1>3
  <2> QED  BY <1>1, <1>3, <2>1, SmallestIs
<1> QED  BY <1>2, <1>3

(* Cutting a run of matches in two, and going on with one.                 *)
LEMMA RunCut ==
  ASSUME NEW s, NEW f \in Nat, NEW n \in Nat, Run(s, f, n), NEW k \in 0 .. n
  PROVE  Run(SubSeq(s, 1, k), f, k) /\ Run(SubSeq(s, k + 1, n), f + k, n - k)
<1>1. s \in Seq(Nat) /\ Len(s) = n /\ \A i \in 1 .. n : s[i] = f + i
  BY DEF Run
<1>2. \A i \in 1 .. n : s[i] \in Nat
  BY <1>1
<1>3. Run(SubSeq(s, 1, k), f, k)
  <2>1. /\ SubSeq(s, 1, k) \in Seq(Nat)
        /\ Len(SubSeq(s, 1, k)) = IF 1 <= k THEN k - 1 + 1 ELSE 0
        /\ \A i \in 1 .. k - 1 + 1 : SubSeq(s, 1, k)[i] = s[1 + i - 1]
    <3>1. \A i \in 1 .. k : s[i] \in Nat
      BY <1>2
    <3> QED  BY <3>1, SubSeqProperties
  <2> QED  BY <1>1, <2>1 DEF Run
<1>4. Run(SubSeq(s, k + 1, n), f + k, n - k)
  <2>1. /\ SubSeq(s, k + 1, n) \in Seq(Nat)
        /\ Len(SubSeq(s, k + 1, n)) = IF k + 1 <= n THEN n - (k + 1) + 1 ELSE 0
        /\ \A i \in 1 .. n - (k + 1) + 1 : SubSeq(s, k + 1, n)[i] = s[k + 1 + i - 1]
    <3>1. (\A i \in k + 1 .. n : s[i] \in Nat) /\ k + 1 \in Int /\ n \in Int
      BY <1>2
    <3> QED  BY <3>1, SubSeqProperties
  <2> QED  BY <1>1, <2>1 DEF Run
<1> QED  BY <1>3, <1>4

LEMMA RunJoin ==
  ASSUME NEW s, NEW t, NEW f \in Nat, NEW n \in Nat, NEW m \in Nat,
         Run(s, f, n), Run(t, f + n, m)
  PROVE  Run(s \o t, f, n + m)
<1>1. /\ s \in Seq(Nat) /\ Len(s) = n /\ \A i \in 1 .. n : s[i] = f + i
      /\ t \in Seq(Nat) /\ Len(t) = m /\ \A i \in 1 .. m : t[i] = f + n + i
  BY DEF Run
<1>2. /\ s \o t \in Seq(Nat) /\ Len(s \o t) = n + m
      /\ \A i \in 1 .. n + m : (s \o t)[i] = IF i <= n THEN s[i] ELSE t[i - n]
  BY <1>1, ConcatProperties
<1>3. ASSUME NEW i \in 1 .. n + m PROVE (s \o t)[i] = f + i
  <2>1. CASE i <= n
    BY <1>1, <1>2, <2>1
  <2>2. CASE ~(i <= n)
    <3>1. i - n \in 1 .. m
      BY <2>2
    <3> QED  BY <1>1, <1>2, <2>2, <3>1
  <2> QED  BY <2>1, <2>2
<1> QED  BY <1>2, <1>3 DEF Run

LEMMA RunEmpty ==
  ASSUME NEW s, NEW f \in Nat
  PROVE  Run(s, f, 0) <=> s = << >>
<1>1. Run(s, f, 0) => s = << >>
  BY EmptySeq DEF Run
<1>2. Run(<< >>, f, 0)
  BY EmptySeq DEF Run
<1> QED  BY <1>1, <1>2

LEMMA LimitIs ==
  ASSUME PagesTyped
  PROVE  Limit = (IF ask.topK <= Matches THEN ask.topK ELSE Matches) /\ Limit \in Nat
<1>1. ask.topK \in Nat /\ Matches \in Nat
  BY PagesAssumption DEF PagesTyped
<1> QED  BY <1>1, SmallestOfTwo DEF Limit

(* The next chunk of query_pages, and what it leaves in the buffer.        *)
LEMMA ChunkIs ==
  ASSUME PagesTyped, Buffered, Ready
  PROVE  \E k \in 0 .. fetched - yielded :
           /\ Run(Chunk, yielded, k) /\ k <= ask.topK - yielded
           /\ Run(SubSeq(buffer, Len(Chunk) + 1, Len(buffer)), yielded + k, fetched - (yielded + k))
           /\ \/ ask.size # NoSize /\ k = ask.size
              \/ k = ask.topK - yielded
              \/ k = fetched - yielded
           /\ ask.size # NoSize => k <= ask.size
<1> DEFINE L == fetched - yielded
           T == ask.topK - yielded
           R == IF ask.size = NoSize THEN {L, T} ELSE {L, T} \cup {ask.size}
           least == IF L <= T THEN L ELSE T
           k == IF ask.size # NoSize /\ ask.size < least THEN ask.size ELSE least
<1>1. /\ ask.topK \in Nat /\ yielded \in Nat /\ fetched \in Nat /\ yielded <= fetched
      /\ yielded < ask.topK /\ (ask.size # NoSize => ask.size \in Nat)
      /\ Run(buffer, yielded, L) /\ Len(buffer) = L
  BY DEF PagesTyped, Buffered, Ready, Run
<1>2. L \in Nat /\ T \in Nat
  BY <1>1
<1>3. Chunk = SubSeq(buffer, 1, SmallestOf(R))
  BY <1>1 DEF Chunk
<1> HIDE DEF L, T
<1>4. k \in 0 .. L /\ k <= T /\ (ask.size # NoSize => k <= ask.size)
  BY <1>1, <1>2
<1>5. R \in SUBSET Int /\ k \in R /\ \A y \in R : k <= y
  BY <1>1, <1>2
<1>6. (ask.size # NoSize /\ k = ask.size) \/ k = T \/ k = L
  OBVIOUS
<1> HIDE DEF R, k, least
<1>7. SmallestOf(R) = k
  BY <1>5, SmallestIs
<1>8. Run(SubSeq(buffer, 1, k), yielded, k) /\ Run(SubSeq(buffer, k + 1, L), yielded + k, L - k)
  BY <1>1, <1>2, <1>4, RunCut
<1>9. Len(Chunk) = k
  BY <1>3, <1>7, <1>8 DEF Run
<1>10. L - k = fetched - (yielded + k)
  BY <1>1, <1>4 DEF L
<1> QED  BY <1>1, <1>3, <1>4, <1>6, <1>7, <1>8, <1>9, <1>10 DEF L, T

LEMMA PagesInvInit == ResultPagesInit => PagesInv
<1> SUFFICES ASSUME ResultPagesInit PROVE PagesInv
  OBVIOUS
<1> USE DEF ResultPagesInit
<1>1. PagesTyped
  <2>1. text \in [Ids -> Nat] /\ seen \in [Ids -> SUBSET Nat]
    OBVIOUS
  <2>2. ask \in [kind: {"search", "stream"}, topK: Nat, size: Nat \cup {NoSize}]
    OBVIOUS
  <2>3. out \in Seq([id: Nat, text: Nat])
    OBVIOUS
  <2> QED  BY <2>1, <2>2, <2>3 DEF PagesTyped
<1>2. Limit = 0
  BY <1>1, LimitIs, PagesAssumption
<1>3. Buffered
  BY <1>2, RunEmpty DEF Buffered
<1>4. Passed
  BY RunEmpty DEF Passed
<1>5. Current
  BY DEF Current, NoAnswer
<1>6. BatchesWhole /\ EndsTold
  BY DEF BatchesWhole, EndsTold, WholeAnswer
<1> QED  BY <1>1, <1>3, <1>4, <1>5, <1>6 DEF PagesInv

LEMMA AskKeeps ==
  ASSUME PagesInv, NEW kind \in {"search", "stream"}, NEW k \in TopKs, NEW size \in PageSizes,
         Ask(kind, k, size)
  PROVE  PagesInv'
<1>1. /\ PagesTyped /\ Buffered /\ Passed /\ Current /\ stage = "idle"
      /\ UNCHANGED <<fetched, over, buffer, yielded, found, pending, got, out, text>>
      /\ stage' \in {"done", "raised", "reading"} /\ (stage' = "done" => k = 0)
      /\ seen' = [d \in Ids |-> {text[d]}]
      /\ ask' = [kind |-> kind, topK |-> k, size |-> size]
      /\ k \in Nat /\ size \in Nat \cup {NoSize}
  BY PagesAssumption DEF PagesInv, Ask, reading, hydrating
<1>2. fetched = 0 /\ yielded = 0 /\ found = << >> /\ ~over /\ Len(out) = 0
  BY <1>1 DEF Passed, Buffered, PagesTyped
<1>3. PagesTyped'
  BY <1>1 DEF PagesTyped
<1>4. Limit' \in Nat /\ (k = 0 => Limit' = 0)
  BY <1>1, SmallestOfTwo, PagesAssumption DEF Limit
<1>5. Buffered'
  BY <1>1, <1>2, <1>4 DEF Buffered
<1>6. Passed'
  BY <1>1, <1>2, RunEmpty DEF Passed
<1>7. Current'
  BY <1>1, <1>2 DEF Current, PagesTyped
<1>8. BatchesWhole' /\ EndsTold'
  BY <1>1, <1>2, <1>4 DEF BatchesWhole, EndsTold, WholeAnswer
<1> QED  BY <1>3, <1>5, <1>6, <1>7, <1>8 DEF PagesInv

LEMMA FetchKeeps ==
  ASSUME PagesInv, Fetch
  PROVE  PagesInv'
<1>1. /\ PagesTyped /\ Buffered /\ Passed /\ Current /\ stage = "reading"
      /\ UNCHANGED <<stage, ask, yielded, found, pending, got, out, text, seen>>
      /\ TokenField = "NextToken" => EndsTold
  BY DEF PagesInv, Fetch, MayFetch, hydrating
<1>2. Limit \in Nat /\ Limit' = Limit
  BY <1>1, LimitIs DEF Limit
<1>3. ServicePage \in Nat /\ fetched \in Nat /\ yielded \in Nat /\ fetched <= Limit /\ yielded <= fetched
  BY <1>1, PagesAssumption DEF PagesTyped, Buffered
<1>4. PICK n \in 0 .. SmallestOf({ServicePage, Limit - fetched}), token \in BOOLEAN :
        /\ fetched + n < Limit => token
        /\ fetched' = fetched + n
        /\ buffer' = buffer \o [i \in 1 .. n |-> fetched + i]
        /\ over' = ~(token /\ TokenField = "NextToken")
  BY DEF Fetch
<1>5. n \in Nat /\ n <= Limit - fetched
  <2>1. SmallestOf({ServicePage, Limit - fetched}) <= Limit - fetched
        /\ SmallestOf({ServicePage, Limit - fetched}) \in Int
    BY <1>2, <1>3, SmallestOfTwo
  <2> QED  BY <1>2, <1>3, <1>4, <2>1
<1>6. PagesTyped'
  BY <1>1, <1>3, <1>4, <1>5 DEF PagesTyped
<1>7. Buffered'
  <2> DEFINE page == [i \in 1 .. n |-> fetched + i]
  <2>1. Run(page, fetched, n)
    BY <1>3, <1>5 DEF Run
  <2>2. buffer' = buffer \o page
    BY <1>4
  <2> HIDE DEF page
  <2>3. fetched - yielded \in Nat /\ yielded + (fetched - yielded) = fetched
    BY <1>3
  <2>4. Run(buffer, yielded, fetched - yielded)
    BY <1>1 DEF Buffered
  <2>5. Run(buffer', yielded, fetched - yielded + n)
    BY <1>3, <1>5, <2>1, <2>2, <2>3, <2>4, RunJoin
  <2>6. fetched - yielded + n = fetched' - yielded
    BY <1>3, <1>4, <1>5
  <2> QED  BY <1>1, <1>2, <1>3, <1>4, <1>5, <2>5, <2>6 DEF Buffered
<1>8. Passed'
  BY <1>1 DEF Passed
<1>9. Current' /\ BatchesWhole'
  BY <1>1 DEF Current, BatchesWhole
<1>10. ASSUME TokenField = "NextToken" PROVE EndsTold'
  <2>1. fetched + n < Limit => token
    BY <1>4
  <2>2. over' => ~token
    BY <1>4, <1>10, Zenon
  <2>3. ~(fetched + n < Limit) => fetched' = Limit
    BY <1>2, <1>3, <1>4, <1>5
  <2>4. over' => fetched' = Limit
    BY <2>1, <2>2, <2>3, Zenon
  <2> QED  BY <1>1, <1>2, <2>4 DEF EndsTold, WholeAnswer
<1> QED  BY <1>6, <1>7, <1>8, <1>9, <1>10 DEF PagesInv

LEMMA FetchFailsKeeps ==
  ASSUME PagesInv, FetchFails
  PROVE  PagesInv'
<1>1. /\ PagesTyped /\ Buffered /\ Passed /\ Current /\ stage = "reading"
      /\ UNCHANGED <<ask, pending, got, out, text, seen>>
      /\ TokenField = "NextToken" => EndsTold
  BY DEF PagesInv, FetchFails, MayFetch, hydrating
<1>2. Limit \in Nat /\ Limit' = Limit
  BY <1>1, LimitIs DEF Limit
<1>3. CASE /\ ask.kind = "search" /\ UNCHANGED stage
           /\ fetched' = 0 /\ over' = FALSE /\ buffer' = << >> /\ yielded' = 0 /\ found' = << >>
  <2>1. PagesTyped'
    BY <1>1, <1>3 DEF PagesTyped
  <2>2. Buffered'
    BY <1>1, <1>2, <1>3, RunEmpty DEF Buffered
  <2>3. Passed'
    BY <1>1, <1>3, RunEmpty DEF Passed
  <2>4. Current' /\ BatchesWhole' /\ EndsTold'
    BY <1>1, <1>3 DEF Current, BatchesWhole, EndsTold, WholeAnswer
  <2> QED  BY <2>1, <2>2, <2>3, <2>4 DEF PagesInv
<1>4. CASE stage' = "raised" /\ UNCHANGED <<fetched, over, buffer, yielded, found>>
  <2>1. PagesTyped' /\ Buffered'
    BY <1>1, <1>2, <1>4 DEF PagesTyped, Buffered
  <2>2. Passed' /\ Current' /\ BatchesWhole'
    BY <1>1, <1>4 DEF Passed, Current, BatchesWhole
  <2>3. TokenField = "NextToken" => EndsTold'
    BY <1>1, <1>2, <1>4 DEF EndsTold, WholeAnswer
  <2> QED  BY <2>1, <2>2, <2>3 DEF PagesInv
<1> QED  BY <1>3, <1>4 DEF FetchFails, reading

(* query_pages yields a chunk: to query, ...                               *)
LEMMA YieldToQueryKeeps ==
  ASSUME PagesInv, YieldToQuery
  PROVE  PagesInv'
<1>1. /\ PagesTyped /\ Buffered /\ Passed /\ Current /\ Ready /\ stage = "reading" /\ ask.kind = "search"
      /\ UNCHANGED <<stage, ask, fetched, over, pending, got, out, text, seen>>
      /\ TokenField = "NextToken" => EndsTold
  BY DEF PagesInv, YieldToQuery, hydrating
<1>2. Limit' = Limit /\ fetched \in Nat /\ yielded \in Nat /\ yielded <= fetched
  BY <1>1 DEF Limit, PagesTyped, Buffered
<1>3. PICK k \in 0 .. fetched - yielded :
        /\ Run(Chunk, yielded, k)
        /\ Run(SubSeq(buffer, Len(Chunk) + 1, Len(buffer)), yielded + k, fetched - (yielded + k))
  BY <1>1, ChunkIs
<1>4. /\ Run(buffer', yielded', fetched - yielded') /\ yielded' = yielded + k
      /\ found' = found \o Chunk /\ k \in Nat /\ yielded' <= fetched /\ yielded' \in Nat
  <2>1. Len(Chunk) = k /\ k \in Nat
    BY <1>2, <1>3 DEF Run
  <2>2. yielded' = yielded + k /\ buffer' = SubSeq(buffer, Len(Chunk) + 1, Len(buffer))
    BY <2>1 DEF YieldToQuery
  <2>3. Run(buffer', yielded', fetched - yielded')
    BY <1>3, <2>2
  <2> QED  BY <1>2, <1>3, <2>1, <2>2, <2>3 DEF YieldToQuery
<1>5. PagesTyped' /\ Buffered'
  BY <1>1, <1>2, <1>4 DEF PagesTyped, Buffered
<1>6. Run(found', 0, yielded')
  <2>1. Run(found, 0, yielded) /\ Run(Chunk, 0 + yielded, k)
    BY <1>1, <1>2, <1>3 DEF Passed
  <2>2. Run(found \o Chunk, 0, yielded + k)
    BY <1>2, <1>4, <2>1, RunJoin
  <2> QED  BY <1>4, <2>2
<1>7. Passed'
  BY <1>1, <1>4, <1>6 DEF Passed
<1>8. Current' /\ BatchesWhole'
  BY <1>1 DEF Current, BatchesWhole
<1>9. TokenField = "NextToken" => EndsTold'
  BY <1>1, <1>2 DEF EndsTold, WholeAnswer
<1> QED  BY <1>5, <1>7, <1>8, <1>9 DEF PagesInv

(* ... or to a stream.                                                     *)
LEMMA YieldToStreamKeeps ==
  ASSUME PagesInv, YieldToStream
  PROVE  PagesInv'
<1>1. /\ PagesTyped /\ Buffered /\ Passed /\ Current /\ Ready /\ stage = "reading" /\ ask.kind = "stream"
      /\ UNCHANGED <<ask, fetched, over, found, got, out, text, seen>> /\ stage' = "hydrating"
      /\ pending' = Chunk
      /\ TokenField = "NextToken" => EndsTold
  BY DEF PagesInv, YieldToStream
<1>2. /\ Limit' = Limit /\ fetched \in Nat /\ yielded \in Nat /\ yielded <= fetched /\ ask.topK \in Nat
      /\ Len(out) = yielded /\ Len(buffer) = fetched - yielded
  BY <1>1 DEF Limit, PagesTyped, Buffered, Passed, Run
<1>3. PICK k \in 0 .. fetched - yielded :
        /\ Run(Chunk, yielded, k) /\ k <= ask.topK - yielded
        /\ Run(SubSeq(buffer, Len(Chunk) + 1, Len(buffer)), yielded + k, fetched - (yielded + k))
        /\ \/ ask.size # NoSize /\ k = ask.size
           \/ k = ask.topK - yielded
           \/ k = fetched - yielded
        /\ ask.size # NoSize => k <= ask.size
  BY <1>1, ChunkIs
<1>4. /\ Run(buffer', yielded', fetched - yielded') /\ yielded' = yielded + k
      /\ k \in Nat /\ yielded' <= fetched /\ yielded' \in Nat /\ Len(pending') = k
  <2>1. Len(Chunk) = k /\ k \in Nat
    BY <1>2, <1>3 DEF Run
  <2>2. yielded' = yielded + k /\ buffer' = SubSeq(buffer, Len(Chunk) + 1, Len(buffer))
    BY <2>1 DEF YieldToStream
  <2>3. Run(buffer', yielded', fetched - yielded')
    BY <1>3, <2>2
  <2> QED  BY <1>1, <1>2, <1>3, <2>1, <2>2, <2>3 DEF YieldToStream
<1>5. PagesTyped' /\ Buffered'
  BY <1>1, <1>2, <1>4 DEF PagesTyped, Buffered
<1>6. Run(pending', Len(out), yielded' - Len(out))
  BY <1>1, <1>2, <1>3, <1>4
<1>7. Passed'
  BY <1>1, <1>2, <1>4, <1>6 DEF Passed
<1>8. Current'
  BY <1>1 DEF Current
<1>9. BatchesWhole'
  <2>1. CASE ask.size # NoSize /\ k = ask.size
    BY <1>1, <1>4, <2>1 DEF BatchesWhole
  <2>2. CASE k = ask.topK - yielded
    <3>1. yielded' = ask.topK
      BY <1>2, <1>4, <2>2
    <3>2. ask.size # NoSize => Len(pending') = ask.size \/ Len(pending') < ask.size
      BY <1>1, <1>2, <1>3, <1>4 DEF PagesTyped
    <3> QED  BY <1>1, <3>1, <3>2 DEF BatchesWhole
  <2>3. CASE k = fetched - yielded
    <3>1. buffer' = << >>
      <4>1. fetched - yielded' = 0
        BY <1>2, <1>4, <2>3
      <4> QED  BY <1>4, <4>1, RunEmpty
    <3>2. ASSUME ask.size # NoSize PROVE Len(pending') = ask.size \/ (Len(pending') < ask.size /\ over)
      <4>1. ask.size \in Nat
        BY <1>1, <3>2 DEF PagesTyped
      <4> QED  BY <1>1, <1>2, <1>3, <1>4, <2>3, <3>2, <4>1 DEF Ready
    <3> QED  BY <1>1, <3>1, <3>2 DEF BatchesWhole
  <2> QED  BY <1>3, <2>1, <2>2, <2>3
<1>10. TokenField = "NextToken" => EndsTold'
  BY <1>1, <1>2 DEF EndsTold, WholeAnswer
<1> QED  BY <1>5, <1>7, <1>8, <1>9, <1>10 DEF PagesInv

LEMMA DrainedKeeps ==
  ASSUME PagesInv, Drained
  PROVE  PagesInv'
<1>1. /\ PagesTyped /\ Buffered /\ Passed /\ Current /\ stage = "reading"
      /\ UNCHANGED <<ask, fetched, over, buffer, yielded, found, got, out, text, seen>>
      /\ ~Ready /\ (over \/ yielded >= ask.topK)
      /\ stage' = IF ask.kind = "search" /\ found # << >> THEN "hydrating" ELSE "done"
      /\ pending' = SubSeq(found, 1, SmallestOf({ask.topK, Len(found)}))
      /\ TokenField = "NextToken" => EndsTold
  BY DEF PagesInv, Drained, reading
<1>2. /\ Limit' = Limit /\ Limit \in Nat /\ fetched \in Nat /\ yielded \in Nat /\ yielded <= fetched
      /\ fetched <= Limit /\ ask.topK \in Nat /\ Limit <= ask.topK
      /\ ask.kind \in {"search", "stream"} /\ Run(buffer, yielded, fetched - yielded)
  BY <1>1, LimitIs DEF Limit, PagesTyped, Buffered
<1>3. PagesTyped' /\ Buffered'
  BY <1>1, <1>2 DEF PagesTyped, Buffered
<1>4. ASSUME ask.kind = "search"
      PROVE  Run(pending', 0, yielded) /\ Len(out) = 0 /\ (found = << >> => yielded = 0)
  <2>1. Run(found, 0, yielded) /\ Len(out) = 0
    BY <1>1, <1>4 DEF Passed
  <2>2. Len(found) = yielded
    BY <2>1 DEF Run
  <2>3. SmallestOf({ask.topK, Len(found)}) = yielded
    BY <1>2, <2>2, SmallestOfTwo
  <2>4. yielded \in 0 .. yielded
    BY <1>2
  <2>5. Run(SubSeq(found, 1, yielded), 0, yielded)
    <3>1. 0 \in Nat
      OBVIOUS
    <3> QED  BY <1>2, <2>1, <2>4, <3>1, RunCut, Zenon
  <2>6. found = << >> => yielded = 0
    BY <2>2
  <2> QED  BY <1>1, <2>1, <2>3, <2>5, <2>6
<1>5. Passed'
  BY <1>1, <1>2, <1>4 DEF Passed
<1>6. Current' /\ BatchesWhole'
  BY <1>1 DEF Current, BatchesWhole
<1>7. ASSUME TokenField = "NextToken" PROVE EndsTold'
  <2>1. yielded = Limit
    <3>1. CASE yielded >= ask.topK
      BY <1>2, <3>1
    <3>2. CASE over /\ ~(yielded >= ask.topK)
      <4>1. fetched = Limit
        BY <1>1, <1>7, <3>2 DEF EndsTold
      <4>2. buffer = << >>
        BY <1>1, <1>2, <3>2 DEF Ready
      <4>3. fetched - yielded = 0
        BY <1>2, <4>2 DEF Run
      <4> QED  BY <1>2, <4>1, <4>3
    <3> QED  BY <1>1, <3>1, <3>2
  <2>2. stage' = "done" => Len(out) = yielded
    BY <1>1, <1>2, <1>4 DEF Passed
  <2> QED  BY <1>1, <1>2, <1>7, <2>1, <2>2 DEF EndsTold, WholeAnswer
<1> QED  BY <1>3, <1>5, <1>6, <1>7 DEF PagesInv

(* get_many goes on, starts over or raises.                                *)
LEMMA HydrationKeeps ==
  ASSUME PagesInv, stage = "hydrating", stage' \in {"hydrating", "raised"},
         UNCHANGED <<ask, fetched, over, buffer, yielded, found, pending, out, text, seen>>,
         \A d \in DOMAIN got' : d \in Ids /\ got'[d] \in seen[d]
  PROVE  PagesInv'
<1>1. /\ PagesTyped /\ Buffered /\ Passed /\ Current /\ BatchesWhole
      /\ TokenField = "NextToken" => EndsTold
  BY DEF PagesInv
<1>2. PagesTyped' /\ Buffered'
  BY <1>1 DEF PagesTyped, Buffered, Limit
<1>3. Passed'
  BY <1>1 DEF Passed
<1>4. Current'
  BY <1>1 DEF Current
<1>5. BatchesWhole'
  BY <1>1 DEF BatchesWhole
<1>6. TokenField = "NextToken" => EndsTold'
  BY <1>1 DEF EndsTold, WholeAnswer, Limit
<1> QED  BY <1>2, <1>3, <1>4, <1>5, <1>6 DEF PagesInv

(* The ids of a hydration are ids.                                         *)
LEMMA PendingAreIds ==
  ASSUME PagesInv, stage = "hydrating"
  PROVE  /\ Run(pending, Len(out), yielded - Len(out)) /\ Len(out) \in Nat /\ yielded \in Nat
         /\ DOMAIN pending = 1 .. yielded - Len(out) /\ Len(out) <= yielded
         /\ \A i \in DOMAIN pending : pending[i] = Len(out) + i /\ pending[i] \in Ids
<1>1. PagesTyped /\ Buffered /\ Passed
  BY DEF PagesInv
<1>2. /\ Run(pending, Len(out), yielded - Len(out)) /\ Len(out) <= yielded
      /\ yielded \in Nat /\ fetched \in Nat /\ yielded <= Limit /\ Len(out) \in Nat
  BY <1>1, LimitIs DEF Passed, PagesTyped, Buffered
<1>3. yielded <= Matches /\ Matches \in Nat
  BY <1>1, <1>2, LimitIs, PagesAssumption DEF PagesTyped
<1>4. pending \in Seq(Nat) /\ Len(pending) = yielded - Len(out)
      /\ \A i \in 1 .. yielded - Len(out) : pending[i] = Len(out) + i
  BY <1>2 DEF Run
<1>5. DOMAIN pending = 1 .. yielded - Len(out)
  BY <1>4
<1>6. \A i \in 1 .. yielded - Len(out) : Len(out) + i \in Ids
  BY <1>2, <1>3 DEF Ids
<1> QED  BY <1>2, <1>4, <1>5, <1>6

LEMMA HydrateKeeps ==
  ASSUME PagesInv, Hydrate \/ HydrateFails
  PROVE  PagesInv'
<1>1. /\ stage = "hydrating" /\ Current
      /\ UNCHANGED <<ask, fetched, over, buffer, yielded, found, pending, out, text, seen>>
  BY DEF PagesInv, Hydrate, HydrateFails, reading
<1>2. CASE Hydrate
  <2>1. PICK S \in SUBSET Request :
          got' = [d \in DOMAIN got \cup S |-> IF d \in S THEN text[d] ELSE got[d]]
    BY <1>2 DEF Hydrate
  <2>2. Request \subseteq Ids
    BY <1>1, PendingAreIds DEF Request
  <2>3. \A d \in DOMAIN got' : d \in Ids /\ got'[d] \in seen[d]
    BY <1>1, <2>1, <2>2 DEF Current
  <2>4. stage' \in {"hydrating", "raised"}
    BY <1>1, <1>2 DEF Hydrate
  <2> QED  BY <1>1, <2>3, <2>4, HydrationKeeps
<1>3. CASE HydrateFails
  <2>1. stage' \in {"hydrating", "raised"} /\ got' \in {got, NoAnswer}
    BY <1>1, <1>3 DEF HydrateFails
  <2>2. \A d \in DOMAIN got' : d \in Ids /\ got'[d] \in seen[d]
    BY <1>1, <2>1 DEF Current, NoAnswer
  <2> QED  BY <1>1, <2>1, <2>2, HydrationKeeps
<1> QED  BY <1>2, <1>3

(* The hits that hydration has completed follow those handed out.          *)
LEMMA HitsFollow ==
  ASSUME PagesInv, stage = "hydrating", Hydrated
  PROVE  /\ Hits \in Seq([id: Nat, text: Nat]) /\ Len(Hits) = yielded - Len(out)
         /\ \A i \in 1 .. yielded - Len(out) :
              Hits[i].id = Len(out) + i /\ Hits[i].text \in seen[Len(out) + i]
<1>1. /\ DOMAIN pending = 1 .. yielded - Len(out) /\ Len(out) \in Nat /\ yielded \in Nat /\ Len(out) <= yielded
      /\ \A i \in DOMAIN pending : pending[i] = Len(out) + i /\ pending[i] \in Ids
  BY PendingAreIds
<1>2. Current /\ PagesTyped /\ Ids \subseteq Nat
  BY DEF PagesInv, Ids
<1>3. \A i \in DOMAIN pending : got[pending[i]] \in seen[pending[i]] /\ got[pending[i]] \in Nat
  BY <1>1, <1>2 DEF Hydrated, Current, PagesTyped
<1>4. /\ Hits = [i \in 1 .. yielded - Len(out) |-> [id |-> pending[i], text |-> got[pending[i]]]]
      /\ \A i \in 1 .. yielded - Len(out) : [id |-> pending[i], text |-> got[pending[i]]] \in [id: Nat, text: Nat]
  BY <1>1, <1>2, <1>3 DEF Hits
<1>5. yielded - Len(out) \in Nat
  BY <1>1
<1>6. Hits \in Seq([id: Nat, text: Nat]) /\ Len(Hits) = yielded - Len(out)
  <2>1. Hits \in [1 .. yielded - Len(out) -> [id: Nat, text: Nat]]
    BY <1>4
  <2>2. Hits \in Seq([id: Nat, text: Nat])
    <3> DEFINE T == [id: Nat, text: Nat]
               n == yielded - Len(out)
    <3>1. Hits \in [1 .. n -> T] /\ n \in Nat
      BY <1>5, <2>1
    <3> HIDE DEF T, n
    <3>2. Hits \in Seq(T)
      BY <3>1, SeqDef
    <3> QED  BY <3>2 DEF T
  <2>3. DOMAIN Hits = 1 .. yielded - Len(out)
    BY <1>4
  <2> QED  BY <1>5, <2>2, <2>3, LenProperties
<1> QED  BY <1>1, <1>3, <1>4, <1>6

LEMMA HandOverKeeps ==
  ASSUME PagesInv, HandOver \/ Answer
  PROVE  PagesInv'
<1>1. /\ PagesTyped /\ Buffered /\ Passed /\ Current /\ stage = "hydrating" /\ Hydrated
      /\ UNCHANGED <<ask, fetched, over, buffer, yielded, found, text, seen>>
      /\ got' = NoAnswer
      /\ TokenField = "NextToken" => EndsTold
      /\ \/ ask.kind = "stream" /\ stage' = "reading" /\ out' = out \o Hits
         \/ ask.kind = "search" /\ stage' = "done" /\ out' = Hits
  BY DEF PagesInv, HandOver, Answer, reading
<1>2. /\ Hits \in Seq([id: Nat, text: Nat]) /\ Len(Hits) = yielded - Len(out)
      /\ \A i \in 1 .. yielded - Len(out) :
           Hits[i].id = Len(out) + i /\ Hits[i].text \in seen[Len(out) + i]
  BY <1>1, HitsFollow
<1>3. Len(out) \in Nat /\ yielded \in Nat /\ Len(out) <= yielded /\ out \in Seq([id: Nat, text: Nat])
  BY <1>1 DEF PagesTyped, Passed
<1>4. /\ out' \in Seq([id: Nat, text: Nat]) /\ Len(out') = yielded
      /\ \A i \in 1 .. yielded : out'[i].id = i /\ out'[i].text \in seen[i]
  <2>1. CASE ask.kind = "search"
    <3>1. Len(out) = 0 /\ out' = Hits
      BY <1>1, <2>1 DEF Passed
    <3>2. yielded - Len(out) = yielded /\ \A i \in 1 .. yielded : Len(out) + i = i
      BY <1>3, <3>1
    <3> QED  BY <1>2, <3>1, <3>2
  <2>2. CASE ask.kind # "search"
    <3>1. out' = out \o Hits
      BY <1>1, <2>2
    <3>2. /\ out' \in Seq([id: Nat, text: Nat]) /\ Len(out') = Len(out) + (yielded - Len(out))
          /\ \A i \in 1 .. Len(out) + (yielded - Len(out)) :
               out'[i] = IF i <= Len(out) THEN out[i] ELSE Hits[i - Len(out)]
      BY <1>2, <1>3, <3>1, ConcatProperties
    <3>3. Len(out) + (yielded - Len(out)) = yielded
      BY <1>3
    <3>4. ASSUME NEW i \in 1 .. yielded PROVE out'[i].id = i /\ out'[i].text \in seen[i]
      <4>1. CASE i <= Len(out)
        <5>1. i \in 1 .. Len(out)
          BY <1>3, <4>1
        <5> QED  BY <1>1, <3>2, <3>3, <4>1, <5>1 DEF Current
      <4>2. CASE ~(i <= Len(out))
        <5>1. i - Len(out) \in 1 .. yielded - Len(out) /\ Len(out) + (i - Len(out)) = i
          BY <1>3, <4>2
        <5> QED  BY <1>2, <3>2, <3>3, <4>2, <5>1
      <4> QED  BY <4>1, <4>2
    <3> QED  BY <3>2, <3>3, <3>4
  <2> QED  BY <2>1, <2>2
<1>5. PagesTyped'
  BY <1>1, <1>4 DEF PagesTyped
<1>6. Buffered'
  BY <1>1 DEF Buffered, Limit
<1>7. Passed'
  BY <1>1, <1>3, <1>4 DEF Passed
<1>8. Current'
  BY <1>1, <1>4 DEF Current, NoAnswer
<1>9. BatchesWhole'
  BY <1>1 DEF BatchesWhole
<1>10. TokenField = "NextToken" => EndsTold'
  BY <1>1, <1>4 DEF EndsTold, WholeAnswer, Limit
<1> QED  BY <1>5, <1>6, <1>7, <1>8, <1>9, <1>10 DEF PagesInv

LEMMA RewriteKeeps ==
  ASSUME PagesInv, NEW d \in Ids, Rewrite(d)
  PROVE  PagesInv'
<1>1. /\ PagesTyped /\ Buffered /\ Passed /\ Current /\ BatchesWhole
      /\ UNCHANGED <<stage, ask, fetched, over, buffer, yielded, found, pending, got, out>>
      /\ TokenField = "NextToken" => EndsTold
  BY DEF PagesInv, Rewrite, reading, hydrating
<1>2. PICK t \in {0, LastText} : text' = [text EXCEPT ![d] = t] /\ seen' = [seen EXCEPT ![d] = @ \cup {t}]
  BY DEF Rewrite
<1>3. t \in Nat
  BY PagesAssumption
<1>4. PagesTyped'
  BY <1>1, <1>2, <1>3 DEF PagesTyped
<1>5. \A e \in Ids : seen[e] \subseteq seen'[e] /\ text'[e] \in seen'[e]
  BY <1>1, <1>2 DEF PagesTyped, Current
<1>6. Buffered' /\ Passed'
  BY <1>1 DEF Buffered, Passed, Limit
<1>7. Current'
  <2>1. Len(out) \in Nat /\ \A i \in 1 .. Len(out) : i \in Ids
    <3>1. Len(out) \in Nat /\ Len(out) <= Matches /\ Matches \in Nat
      BY <1>1, LimitIs, PagesAssumption DEF PagesTyped, Buffered, Passed
    <3> QED  BY <3>1 DEF Ids
  <2> QED  BY <1>1, <1>5, <2>1 DEF Current
<1>8. BatchesWhole'
  BY <1>1 DEF BatchesWhole
<1>9. TokenField = "NextToken" => EndsTold'
  BY <1>1 DEF EndsTold, WholeAnswer, Limit
<1> QED  BY <1>4, <1>6, <1>7, <1>8, <1>9 DEF PagesInv

LEMMA PagesInvNext == PagesInv /\ [ResultPagesNext]_rpvars => PagesInv'
<1> SUFFICES ASSUME PagesInv, [ResultPagesNext]_rpvars PROVE PagesInv'
  OBVIOUS
<1>1. CASE UNCHANGED rpvars
  BY <1>1 DEF rpvars, PagesInv, PagesTyped, Buffered, Passed, Current, BatchesWhole, EndsTold,
     WholeAnswer, Limit
<1>2. ASSUME NEW kind \in {"search", "stream"}, NEW k \in TopKs, NEW size \in PageSizes, Ask(kind, k, size)
      PROVE  PagesInv'
  BY <1>2, AskKeeps
<1>3. CASE Fetch \/ FetchFails \/ YieldToQuery \/ YieldToStream \/ Drained
  BY <1>3, FetchKeeps, FetchFailsKeeps, YieldToQueryKeeps, YieldToStreamKeeps, DrainedKeeps
<1>4. CASE Hydrate \/ HydrateFails \/ HandOver \/ Answer
  BY <1>4, HydrateKeeps, HandOverKeeps
<1>5. ASSUME NEW d \in Ids, Rewrite(d) PROVE PagesInv'
  BY <1>5, RewriteKeeps
<1> QED  BY <1>1, <1>2, <1>3, <1>4, <1>5 DEF ResultPagesNext

LEMMA PagesInvInOrder == PagesInv => HitsInOrder /\ TextsCurrent /\ BatchesWhole
<1> SUFFICES ASSUME PagesInv PROVE HitsInOrder /\ TextsCurrent /\ BatchesWhole
  OBVIOUS
<1>1. PagesTyped /\ Buffered /\ Passed /\ Current /\ BatchesWhole
  BY DEF PagesInv
<1>2. DOMAIN out = 1 .. Len(out) /\ Len(out) \in Nat
  BY <1>1 DEF PagesTyped
<1>3. Len(out) <= ask.topK
  <2>1. Limit <= ask.topK /\ Limit \in Nat /\ ask.topK \in Nat
    <3>1. ask.topK \in Nat
      BY <1>1 DEF PagesTyped
    <3> QED  BY <1>1, <3>1, LimitIs, PagesAssumption
  <2>2. Len(out) <= yielded /\ yielded <= fetched /\ fetched <= Limit /\ yielded \in Nat /\ fetched \in Nat
    BY <1>1 DEF PagesTyped, Buffered, Passed
  <2> QED  BY <1>2, <2>1, <2>2
<1> QED  BY <1>1, <1>2, <1>3 DEF Current, HitsInOrder, TextsCurrent

(* What a search or a stream has given its caller is the beginning of the  *)
(* service's ranking, each hit with a text its record had meanwhile, in    *)
(* whole batches, whatever was retried and however the pages were cut.     *)
THEOREM HitsStayInOrder ==
  ResultPagesInit /\ [][ResultPagesNext]_rpvars => [](HitsInOrder /\ TextsCurrent /\ BatchesWhole)
<1> QED  BY PagesInvInit, PagesInvNext, PagesInvInOrder, PTL

(* And it is all of it, if the call ends without an error and the service  *)
(* names the next page where query_pages looks for it.                     *)
THEOREM PagesLoseNothing ==
  ASSUME TokenField = "NextToken"
  PROVE  ResultPagesInit /\ [][ResultPagesNext]_rpvars => []PagesExact
<1>1. PagesInv => PagesExact
  BY PagesInvInOrder DEF PagesInv, PagesExact, EndsTold
<1> QED  BY <1>1, PagesInvInit, PagesInvNext, PTL

-----------------------------------------------------------------------------
(***************************************************************************)
(* The asynchronous client: a call that returned stands in both stores.    *)
(*                                                                         *)
(* AsyncWritesSettle says nothing of calls under way.  What is inductive   *)
(* says of each of them what it has written so far, that it still stands   *)
(* or was overwritten by an earlier call's coroutine, and that the         *)
(* documents of such a coroutine were noted when the call began.           *)
(***************************************************************************)
Coroutine == {"none", "running", "returned", "raised"}

AsyncTyped ==
  /\ outcome \in [Writes -> Coroutine]
  /\ upload \in [Writes -> Coroutine] /\ saving \in [Writes -> Coroutine]
  /\ names \in [Writes -> SUBSET AsyncDocs] /\ unsent \in [Writes -> SUBSET AsyncDocs]
  /\ chunk \in [Writes -> [AsyncDocs -> {"none", "waiting", "sent", "done"}]]
  /\ tried \in [Writes -> [AsyncDocs -> Nat]]
  /\ late \in [Writes -> [vec: SUBSET AsyncDocs, rec: SUBSET AsyncDocs]]
  /\ vecs \in [AsyncDocs -> Nat] /\ recs \in [AsyncDocs -> Nat]
  /\ finding \in [Searchers -> [at: {"idle", "found", "hydrated"}, vec: [AsyncDocs -> Nat],
                                rec: [AsyncDocs -> Nat], crossed: BOOLEAN]]

(* A call and its coroutines, in step.                                     *)
InStep ==
  \A n \in Writes :
    /\ outcome[n] = "none" =>
         upload[n] = "none" /\ saving[n] = "none" /\ names[n] = {}
    /\ outcome[n] = "returned" => upload[n] = "returned" /\ saving[n] = "returned"
    /\ outcome[n] = "raised" => ~(upload[n] = "running" /\ saving[n] = "running")
    /\ upload[n] = "returned" => \A d \in names[n] : chunk[n][d] = "done"
    /\ \A d \in AsyncDocs :
         /\ chunk[n][d] \in {"waiting", "sent"} => upload[n] = "running"
         /\ chunk[n][d] # "none" => d \in names[n]
    /\ unsent[n] # {} => saving[n] = "running"
    /\ unsent[n] \subseteq names[n]

(* Calls begin in order, and note the documents of those still writing.    *)
Noted ==
  \A m, n \in Writes : m < n =>
    /\ outcome[n] # "none" => outcome[m] # "none"
    /\ names[n] # {} /\ upload[m] = "running" => names[m] \subseteq late[n].vec
    /\ names[n] # {} /\ saving[m] = "running" => names[m] \subseteq late[n].rec

(* What a call has written stands.                                         *)
Stands ==
  \A n \in Writes, d \in AsyncDocs : LastWrite(d, n) =>
    /\ chunk[n][d] = "done" => vecs[d] = n \/ d \in late[n].vec
    /\ saving[n] \in {"running", "returned"} /\ d \notin unsent[n] =>
         recs[d] = n \/ d \in late[n].rec

(* While no call is running or has raised, what a search has read is what  *)
(* the stores hold, unless an invalidation came since it began, and so is  *)
(* what a search has put.                                                  *)
Quiet == \A n \in Writes : outcome[n] \in {"none", "returned"}

FoundFresh(s) ==
  \/ finding[s].at = "idle" \/ finding[s].crossed
  \/ finding[s].at = "found" /\ finding[s].vec = vecs
  \/ finding[s].at = "hydrated" /\ Shown(finding[s].vec, finding[s].rec)

CacheFresh == answers = NoAnswers \/ answers.crossed \/ Shown(answers.vec, answers.rec)

SearchesFresh == Quiet => CacheFresh /\ \A s \in Searchers : FoundFresh(s)

AsyncInv == AsyncTyped /\ InStep /\ Noted /\ Stands /\ SearchesFresh

LEMMA WritesNumbered ==
  /\ Writes \subseteq Nat /\ \A n \in Writes : 1 .. n \subseteq Writes
  /\ \A n \in Writes : Batches[n] \in SUBSET AsyncDocs
BY AsyncAssumption DEF Writes

(* A store that a call writes some of its documents into.                  *)
LEMMA WrittenIs ==
  ASSUME NEW store \in [AsyncDocs -> Nat], NEW n \in Writes, NEW D
  PROVE  /\ Written(store, n, D) \in [AsyncDocs -> Nat]
         /\ \A d \in AsyncDocs : Written(store, n, D)[d] = IF d \in D THEN n ELSE store[d]
BY WritesNumbered DEF Written

(* put_vectors of a call goes on: its state becomes u, those of its chunks *)
(* c, and it writes the documents D.                                       *)
VectorsStep(n, u, c, D) ==
  /\ upload[n] = "running" /\ u \in {"running", "returned", "raised"}
  /\ upload' = [upload EXCEPT ![n] = u] /\ chunk' = [chunk EXCEPT ![n] = c]
  /\ vecs' \in [AsyncDocs -> Nat]
  /\ \A d \in AsyncDocs : vecs'[d] = IF d \in D THEN n ELSE vecs[d]
  /\ D \subseteq names[n]
  /\ c \in [AsyncDocs -> {"none", "waiting", "sent", "done"}]
  /\ tried' \in [Writes -> [AsyncDocs -> Nat]]
  /\ UNCHANGED <<outcome, names, recording, finding, answers, late>>
  /\ \A d \in AsyncDocs :
       /\ c[d] \in {"waiting", "sent"} => u = "running"
       /\ c[d] # "none" => d \in names[n]
       /\ c[d] = "done" => chunk[n][d] = "done" \/ d \in D
  /\ u = "returned" => \A d \in names[n] : c[d] = "done"

LEMMA VectorsGoOn ==
  ASSUME AsyncInv, NEW n \in Writes, NEW u, NEW c, NEW D, VectorsStep(n, u, c, D)
  PROVE  AsyncInv'
<1> USE DEF VectorsStep
<1>1. UNCHANGED <<outcome, names, saving, unsent, recs, finding, answers, late>>
  BY DEF recording
<1>2. /\ AsyncTyped /\ InStep /\ Noted /\ Stands /\ SearchesFresh
      /\ \A m \in Writes : /\ upload'[m] = IF m = n THEN u ELSE upload[m]
                           /\ chunk'[m] = IF m = n THEN c ELSE chunk[m]
  BY DEF AsyncInv, AsyncTyped
<1>3. AsyncTyped'
  BY <1>1, <1>2 DEF AsyncTyped, Coroutine
<1>4. InStep'
  <2>1. ASSUME NEW m \in Writes, m # n PROVE upload'[m] = upload[m] /\ chunk'[m] = chunk[m]
    BY <1>2, <2>1
  <2>2. upload'[n] = u /\ chunk'[n] = c
    BY <1>2
  <2>3. /\ outcome[n] \notin {"none", "returned"}
        /\ outcome[n] = "raised" => saving[n] # "running"
        /\ unsent[n] # {} => saving[n] = "running"
        /\ unsent[n] \subseteq names[n]
    BY <1>2 DEF InStep
  <2> QED  BY <1>1, <1>2, <2>1, <2>2, <2>3 DEF InStep
<1>5. Noted'
  <2>1. \A m \in Writes : upload'[m] = "running" => upload[m] = "running"
    BY <1>2
  <2> QED  BY <1>1, <1>2, <2>1 DEF Noted
<1>6. Stands'
  <2>1. ASSUME NEW m \in Writes, NEW d \in AsyncDocs, LastWrite(d, m), chunk'[m][d] = "done"
        PROVE  vecs'[d] = m \/ d \in late[m].vec
    <3>1. CASE d \in D
      <4>1. n <= m /\ n \in Nat /\ m \in Nat
        BY <2>1, <3>1, WritesNumbered DEF LastWrite
      <4>2. CASE m = n
        BY <3>1, <4>2
      <4>3. CASE n < m
        BY <1>2, <2>1, <3>1, <4>3 DEF Noted, LastWrite
      <4> QED  BY <4>1, <4>2, <4>3
    <3>2. CASE d \notin D
      <4>1. chunk[m][d] = "done"
        BY <1>2, <2>1, <3>2
      <4> QED  BY <1>2, <2>1, <3>2, <4>1 DEF Stands
    <3> QED  BY <3>1, <3>2
  <2>2. \A m \in Writes, d \in AsyncDocs : LastWrite(d, m)' <=> LastWrite(d, m)
    BY <1>1 DEF LastWrite
  <2> QED  BY <1>1, <1>2, <2>1, <2>2 DEF Stands
<1>7. SearchesFresh'
  <2>1. outcome[n] \notin {"none", "returned"}
    BY <1>2 DEF InStep
  <2> QED  BY <1>1, <2>1 DEF SearchesFresh, Quiet
<1> QED  BY <1>3, <1>4, <1>5, <1>6, <1>7 DEF AsyncInv

(* put_many of a call goes on, and writes the documents D.                 *)
LEMMA RecordsGoOn ==
  ASSUME AsyncInv, NEW n \in Writes, NEW s \in Coroutine, NEW U \in SUBSET unsent[n],
         NEW D \in SUBSET unsent[n],
         saving[n] = "running", s # "none",
         saving' = [saving EXCEPT ![n] = s], unsent' = [unsent EXCEPT ![n] = U],
         recs' \in [AsyncDocs -> Nat],
         \A d \in AsyncDocs : recs'[d] = IF d \in D THEN n ELSE recs[d],
         UNCHANGED <<outcome, names, uploading, finding, answers, late>>,
         U # {} => s = "running",
         s \in {"running", "returned"} => unsent[n] \ U \subseteq D
  PROVE  AsyncInv'
<1>1. UNCHANGED <<outcome, names, chunk, tried, upload, vecs, finding, answers, late>>
  BY DEF uploading
<1>2. /\ AsyncTyped /\ InStep /\ Noted /\ Stands /\ SearchesFresh
      /\ \A m \in Writes : /\ saving'[m] = IF m = n THEN s ELSE saving[m]
                           /\ unsent'[m] = IF m = n THEN U ELSE unsent[m]
  BY DEF AsyncInv, AsyncTyped
<1>3. D \subseteq names[n] /\ U \subseteq names[n] /\ U \subseteq AsyncDocs
  BY <1>2 DEF InStep, AsyncTyped
<1>4. AsyncTyped'
  BY <1>1, <1>2, <1>3 DEF AsyncTyped
<1>5. InStep'
  <2>1. ASSUME NEW m \in Writes, m # n PROVE saving'[m] = saving[m] /\ unsent'[m] = unsent[m]
    BY <1>2, <2>1
  <2>2. saving'[n] = s /\ unsent'[n] = U
    BY <1>2
  <2>3. /\ outcome[n] \notin {"none", "returned"}
        /\ outcome[n] = "raised" => upload[n] # "running"
    BY <1>2 DEF InStep
  <2> QED  BY <1>1, <1>2, <1>3, <2>1, <2>2, <2>3 DEF InStep
<1>6. Noted'
  <2>1. \A m \in Writes : saving'[m] = "running" => saving[m] = "running"
    BY <1>2
  <2> QED  BY <1>1, <1>2, <2>1 DEF Noted
<1>7. Stands'
  <2>1. ASSUME NEW m \in Writes, NEW d \in AsyncDocs, LastWrite(d, m),
               saving'[m] \in {"running", "returned"}, d \notin unsent'[m]
        PROVE  recs'[d] = m \/ d \in late[m].rec
    <3>1. CASE d \in D
      <4>1. n <= m /\ n \in Nat /\ m \in Nat
        BY <1>3, <2>1, <3>1, WritesNumbered DEF LastWrite
      <4>2. CASE m = n
        BY <3>1, <4>2
      <4>3. CASE n < m
        BY <1>2, <1>3, <2>1, <3>1, <4>3 DEF Noted, LastWrite
      <4> QED  BY <4>1, <4>2, <4>3
    <3>2. CASE d \notin D
      <4>1. saving[m] \in {"running", "returned"} /\ d \notin unsent[m]
        BY <1>2, <2>1, <3>2
      <4> QED  BY <1>2, <2>1, <3>2, <4>1 DEF Stands
    <3> QED  BY <3>1, <3>2
  <2>2. \A m \in Writes, d \in AsyncDocs : LastWrite(d, m)' <=> LastWrite(d, m)
    BY <1>1 DEF LastWrite
  <2> QED  BY <1>1, <1>2, <2>1, <2>2 DEF Stands
<1>8. SearchesFresh'
  <2>1. outcome[n] \notin {"none", "returned"}
    BY <1>2 DEF InStep
  <2> QED  BY <1>1, <2>1 DEF SearchesFresh, Quiet
<1> QED  BY <1>4, <1>5, <1>6, <1>7, <1>8 DEF AsyncInv

LEMMA SendChunkKeeps ==
  ASSUME AsyncInv, NEW n \in Writes, NEW d \in AsyncDocs, SendChunk(n, d)
  PROVE  AsyncInv'
<1> DEFINE c == [chunk[n] EXCEPT ![d] = "sent"]
<1>1. AsyncTyped /\ InStep
  BY DEF AsyncInv
<1>2. /\ chunk' = [chunk EXCEPT ![n] = c] /\ vecs' = vecs /\ upload' = upload /\ chunk[n][d] = "waiting"
      /\ tried' = [tried EXCEPT ![n][d] = 1]
      /\ UNCHANGED <<outcome, names, recording, finding, answers, late>>
  BY DEF SendChunk
<1>3. upload[n] = "running" /\ d \in names[n] /\ upload' = [upload EXCEPT ![n] = "running"]
  BY <1>1, <1>2 DEF InStep, AsyncTyped
<1>4. /\ c \in [AsyncDocs -> {"none", "waiting", "sent", "done"}] /\ vecs' \in [AsyncDocs -> Nat]
      /\ tried' \in [Writes -> [AsyncDocs -> Nat]] /\ "running" \in Coroutine
      /\ \A e \in AsyncDocs : c[e] = IF e = d THEN "sent" ELSE chunk[n][e]
      /\ \A e \in AsyncDocs : chunk[n][e] # "none" => e \in names[n]
  BY <1>1, <1>2 DEF AsyncTyped, Coroutine, InStep
<1> HIDE DEF c
<1>5. \A e \in AsyncDocs : vecs'[e] = IF e \in {} THEN n ELSE vecs[e]
  BY <1>2
<1>6. VectorsStep(n, "running", c, {})
  BY <1>2, <1>3, <1>4, <1>5 DEF VectorsStep
<1> QED  BY <1>6, VectorsGoOn, Zenon

LEMMA ChunkStoredKeeps ==
  ASSUME AsyncInv, NEW n \in Writes, NEW d \in AsyncDocs, ChunkStored(n, d)
  PROVE  AsyncInv'
<1> DEFINE c == [chunk[n] EXCEPT ![d] = "done"]
<1>1. AsyncTyped /\ InStep
  BY DEF AsyncInv
<1>2. /\ chunk' = [chunk EXCEPT ![n] = c] /\ upload' = upload /\ chunk[n][d] = "sent"
      /\ tried' = [tried EXCEPT ![n][d] = 0] /\ vecs' = Written(vecs, n, {d})
      /\ UNCHANGED <<outcome, names, recording, finding, answers, late>>
  BY DEF ChunkStored
<1>3. upload[n] = "running" /\ d \in names[n] /\ upload' = [upload EXCEPT ![n] = "running"]
  BY <1>1, <1>2 DEF InStep, AsyncTyped
<1>4. /\ c \in [AsyncDocs -> {"none", "waiting", "sent", "done"}]
      /\ tried' \in [Writes -> [AsyncDocs -> Nat]] /\ "running" \in Coroutine
      /\ \A e \in AsyncDocs : c[e] = IF e = d THEN "done" ELSE chunk[n][e]
      /\ \A e \in AsyncDocs : chunk[n][e] # "none" => e \in names[n]
  BY <1>1, <1>2 DEF AsyncTyped, Coroutine, InStep
<1>5. /\ vecs' \in [AsyncDocs -> Nat]
      /\ \A e \in AsyncDocs : vecs'[e] = IF e \in {d} THEN n ELSE vecs[e]
  <2>1. vecs \in [AsyncDocs -> Nat]
    BY <1>1 DEF AsyncTyped
  <2> QED  BY <1>2, <2>1, WrittenIs
<1> HIDE DEF c
<1>6. VectorsStep(n, "running", c, {d})
  BY <1>2, <1>3, <1>4, <1>5 DEF VectorsStep
<1> QED  BY <1>6, VectorsGoOn, Zenon

LEMMA ChunkRetriedKeeps ==
  ASSUME AsyncInv, NEW n \in Writes, NEW d \in AsyncDocs, ChunkRetried(n, d)
  PROVE  AsyncInv'
<1>1. AsyncTyped /\ InStep
  BY DEF AsyncInv
<1>2. /\ chunk' = chunk /\ upload' = upload /\ chunk[n][d] = "sent"
      /\ tried' = [tried EXCEPT ![n][d] = @ + 1] /\ vecs' \in {vecs, Written(vecs, n, {d})}
      /\ UNCHANGED <<outcome, names, recording, finding, answers, late>>
  BY DEF ChunkRetried
<1>3. /\ upload[n] = "running" /\ d \in names[n] /\ upload' = [upload EXCEPT ![n] = "running"]
      /\ chunk' = [chunk EXCEPT ![n] = chunk[n]]
  BY <1>1, <1>2 DEF InStep, AsyncTyped
<1>4. /\ chunk[n] \in [AsyncDocs -> {"none", "waiting", "sent", "done"}]
      /\ tried' \in [Writes -> [AsyncDocs -> Nat]] /\ "running" \in Coroutine
      /\ \A e \in AsyncDocs : chunk[n][e] # "none" => e \in names[n]
  BY <1>1, <1>2 DEF AsyncTyped, Coroutine, InStep
<1>5. PICK D \in SUBSET names[n] :
        /\ vecs' \in [AsyncDocs -> Nat]
        /\ \A e \in AsyncDocs : vecs'[e] = IF e \in D THEN n ELSE vecs[e]
  <2>1. vecs \in [AsyncDocs -> Nat] /\ {} \in SUBSET names[n] /\ {d} \in SUBSET names[n]
    BY <1>1, <1>3 DEF AsyncTyped
  <2>2. CASE vecs' = vecs
    BY <2>1, <2>2
  <2>3. CASE vecs' = Written(vecs, n, {d})
    BY <2>1, <2>3, WrittenIs
  <2> QED  BY <1>2, <2>2, <2>3
<1>6. VectorsStep(n, "running", chunk[n], D)
  BY <1>2, <1>3, <1>4, <1>5 DEF VectorsStep
<1> QED  BY <1>6, VectorsGoOn, Zenon

LEMMA UploadFailsKeeps ==
  ASSUME AsyncInv, NEW n \in Writes, UploadFails(n)
  PROVE  AsyncInv'
<1> DEFINE c == [d \in AsyncDocs |-> IF chunk[n][d] = "done" THEN "done" ELSE "none"]
<1>1. AsyncTyped /\ InStep
  BY DEF AsyncInv
<1>2. /\ chunk' = [chunk EXCEPT ![n] = c] /\ upload[n] = "running"
      /\ upload' = [upload EXCEPT ![n] = "raised"] /\ tried' = [tried EXCEPT ![n] = NoItem]
      /\ UNCHANGED <<outcome, names, recording, finding, answers, late>>
  BY DEF UploadFails
<1>3. PICK D \in SUBSET Chunks(n, "sent") : vecs' = Written(vecs, n, D)
  BY DEF UploadFails
<1>4. D \subseteq names[n]
  BY <1>1, <1>3 DEF Chunks, InStep
<1>5. /\ c \in [AsyncDocs -> {"none", "waiting", "sent", "done"}]
      /\ tried' \in [Writes -> [AsyncDocs -> Nat]] /\ "raised" \in Coroutine
      /\ \A e \in AsyncDocs : c[e] = IF chunk[n][e] = "done" THEN "done" ELSE "none"
      /\ \A e \in AsyncDocs : chunk[n][e] # "none" => e \in names[n]
  BY <1>1, <1>2 DEF AsyncTyped, Coroutine, InStep, NoItem
<1>6. /\ vecs' \in [AsyncDocs -> Nat]
      /\ \A e \in AsyncDocs : vecs'[e] = IF e \in D THEN n ELSE vecs[e]
  <2>1. vecs \in [AsyncDocs -> Nat]
    BY <1>1 DEF AsyncTyped
  <2> QED  BY <1>3, <2>1, WrittenIs
<1> HIDE DEF c
<1>7. VectorsStep(n, "raised", c, D)
  BY <1>2, <1>4, <1>5, <1>6 DEF VectorsStep
<1> QED  BY <1>7, VectorsGoOn, Zenon

LEMMA UploadReturnsKeeps ==
  ASSUME AsyncInv, NEW n \in Writes, UploadReturns(n)
  PROVE  AsyncInv'
<1>1. AsyncTyped /\ InStep
  BY DEF AsyncInv
<1>2. /\ chunk' = chunk /\ upload[n] = "running" /\ upload' = [upload EXCEPT ![n] = "returned"]
      /\ UNCHANGED <<tried, vecs, outcome, names, recording, finding, answers, late>>
      /\ Chunks(n, "done") = names[n]
  BY DEF UploadReturns
<1>3. /\ chunk' = [chunk EXCEPT ![n] = chunk[n]] /\ vecs' \in [AsyncDocs -> Nat]
      /\ chunk[n] \in [AsyncDocs -> {"none", "waiting", "sent", "done"}]
      /\ tried' \in [Writes -> [AsyncDocs -> Nat]] /\ "returned" \in Coroutine
      /\ \A e \in AsyncDocs : chunk[n][e] # "none" => e \in names[n]
      /\ \A e \in AsyncDocs : vecs'[e] = IF e \in {} THEN n ELSE vecs[e]
  BY <1>1, <1>2 DEF AsyncTyped, Coroutine, InStep
<1>4. \A d \in names[n] : chunk[n][d] = "done"
  BY <1>2 DEF Chunks
<1>5. \A d \in AsyncDocs : chunk[n][d] # "none" => chunk[n][d] = "done"
  BY <1>3, <1>4
<1>6. VectorsStep(n, "returned", chunk[n], {})
  BY <1>2, <1>3, <1>4, <1>5 DEF VectorsStep
<1> QED  BY <1>6, VectorsGoOn, Zenon

LEMMA SaveKeeps ==
  ASSUME AsyncInv, NEW n \in Writes, SaveSome(n) \/ SaveFails(n) \/ SaveReturns(n)
  PROVE  AsyncInv'
<1>1. AsyncTyped /\ InStep /\ {"running", "raised", "returned"} \subseteq Coroutine
  BY DEF AsyncInv, Coroutine
<1>2. /\ saving[n] = "running" /\ UNCHANGED <<outcome, names, uploading, finding, answers, late>>
      /\ recs \in [AsyncDocs -> Nat]
  BY <1>1 DEF SaveSome, SaveFails, SaveReturns, AsyncTyped
<1>3. CASE SaveSome(n)
  <2>1. PICK D \in SUBSET unsent[n] \ {{}} :
          recs' = Written(recs, n, D) /\ unsent' = [unsent EXCEPT ![n] = @ \ D]
    BY <1>3 DEF SaveSome
  <2>2. /\ saving' = [saving EXCEPT ![n] = "running"] /\ unsent' = [unsent EXCEPT ![n] = unsent[n] \ D]
    BY <1>1, <1>2, <1>3, <2>1 DEF SaveSome, AsyncTyped
  <2>3. /\ recs' \in [AsyncDocs -> Nat]
        /\ \A e \in AsyncDocs : recs'[e] = IF e \in D THEN n ELSE recs[e]
    BY <1>2, <2>1, WrittenIs
  <2>4. unsent[n] \ D \in SUBSET unsent[n] /\ unsent[n] \ (unsent[n] \ D) \subseteq D
    OBVIOUS
  <2> QED  BY <1>1, <1>2, <2>2, <2>3, <2>4, RecordsGoOn
<1>4. CASE SaveFails(n)
  <2>1. PICK D \in SUBSET unsent[n] : recs' = Written(recs, n, D)
    BY <1>4 DEF SaveFails
  <2>2. saving' = [saving EXCEPT ![n] = "raised"] /\ unsent' = [unsent EXCEPT ![n] = {}]
    BY <1>4 DEF SaveFails
  <2>3. /\ recs' \in [AsyncDocs -> Nat]
        /\ \A e \in AsyncDocs : recs'[e] = IF e \in D THEN n ELSE recs[e]
    BY <1>2, <2>1, WrittenIs
  <2> QED  BY <1>1, <1>2, <2>2, <2>3, RecordsGoOn
<1>5. CASE SaveReturns(n)
  <2>1. /\ saving' = [saving EXCEPT ![n] = "returned"] /\ unsent[n] = {}
        /\ unsent' = [unsent EXCEPT ![n] = {}] /\ recs' = recs
    BY <1>1, <1>5 DEF SaveReturns, AsyncTyped
  <2>2. \A e \in AsyncDocs : recs'[e] = IF e \in {} THEN n ELSE recs[e]
    BY <2>1
  <2>3. {} \in SUBSET unsent[n] /\ unsent[n] \ {} \subseteq {}
    BY <2>1
  <2> QED  BY <1>1, <1>2, <2>1, <2>2, <2>3, RecordsGoOn
<1> QED  BY <1>3, <1>4, <1>5

(* A call begins.                                                          *)
LEMMA AupsertKeeps ==
  ASSUME AsyncInv, NEW n \in Writes, Aupsert(n)
  PROVE  AsyncInv'
<1>1. /\ AsyncTyped /\ InStep /\ Noted /\ Stands /\ outcome[n] = "none"
      /\ \A m \in 1 .. (n - 1) : outcome[m] # "none"
      /\ UNCHANGED <<tried, vecs, recs, finding, answers>> /\ "raised" \in Coroutine /\ "running" \in Coroutine
  BY DEF AsyncInv, Aupsert, Coroutine
<1>2. /\ upload[n] = "none" /\ saving[n] = "none" /\ names[n] = {} /\ unsent[n] = {}
      /\ \A d \in AsyncDocs : chunk[n][d] = "none"
      /\ n \in Nat
  BY <1>1, WritesNumbered DEF InStep, AsyncTyped
<1>3. \A m \in Writes : m < n => outcome[m] # "none"
  <2>1. \A m \in Writes : m < n => m \in 1 .. (n - 1)
    BY <1>2, WritesNumbered, AsyncAssumption DEF Writes
  <2> QED  BY <1>1, <2>1
<1>4. CASE /\ outcome' = [outcome EXCEPT ![n] = "raised"]
           /\ UNCHANGED <<names, chunk, upload, saving, unsent, late>>
  <2>1. \A m \in Writes : outcome'[m] = IF m = n THEN "raised" ELSE outcome[m]
    BY <1>1, <1>4 DEF AsyncTyped
  <2>2. AsyncTyped'
    BY <1>1, <1>4 DEF AsyncTyped
  <2>3. InStep'
    BY <1>1, <1>2, <1>4, <2>1 DEF InStep
  <2>4. Noted'
    BY <1>1, <1>3, <1>4, <2>1 DEF Noted
  <2>5. Stands'
    BY <1>1, <1>4 DEF Stands, LastWrite
  <2>6. SearchesFresh'
    BY <2>1 DEF SearchesFresh, Quiet
  <2> QED  BY <2>2, <2>3, <2>4, <2>5, <2>6 DEF AsyncInv
<1>5. ASSUME outcome' = [outcome EXCEPT ![n] = "running"],
             names' = [names EXCEPT ![n] = Batches[n]],
             chunk' = [chunk EXCEPT ![n] =
                         [d \in AsyncDocs |-> IF d \in Batches[n] THEN "waiting" ELSE "none"]],
             upload' = [upload EXCEPT ![n] = "running"],
             saving' = [saving EXCEPT ![n] = "running"],
             unsent' = [unsent EXCEPT ![n] = Batches[n]],
             late' = [late EXCEPT ![n] =
                        [vec |-> UNION {names[m] : m \in {i \in Writes : upload[i] = "running"}},
                         rec |-> UNION {names[m] : m \in {i \in Writes : saving[i] = "running"}}]]
      PROVE  AsyncInv'
  <2> DEFINE B == Batches[n]
             vs == UNION {names[m] : m \in {i \in Writes : upload[i] = "running"}}
             rs == UNION {names[m] : m \in {i \in Writes : saving[i] = "running"}}
  <2>1. /\ B \subseteq AsyncDocs /\ vs \subseteq AsyncDocs /\ rs \subseteq AsyncDocs
    BY <1>1, WritesNumbered DEF AsyncTyped
  <2>2. \A m \in Writes : upload[m] = "running" => names[m] \subseteq vs
    OBVIOUS
  <2>3. \A m \in Writes : saving[m] = "running" => names[m] \subseteq rs
    OBVIOUS
  <2> HIDE DEF vs, rs, B
  <2>4. /\ outcome'[n] = "running" /\ names'[n] = B /\ upload'[n] = "running" /\ saving'[n] = "running"
        /\ unsent'[n] = B /\ late'[n].vec = vs /\ late'[n].rec = rs
        /\ \A d \in AsyncDocs : chunk'[n][d] = IF d \in B THEN "waiting" ELSE "none"
    BY <1>1, <1>5 DEF AsyncTyped, B, vs, rs
  <2>5. \A m \in Writes : m # n =>
          /\ outcome'[m] = outcome[m] /\ names'[m] = names[m] /\ upload'[m] = upload[m]
          /\ saving'[m] = saving[m] /\ unsent'[m] = unsent[m] /\ late'[m] = late[m]
          /\ chunk'[m] = chunk[m]
    BY <1>1, <1>5 DEF AsyncTyped
  <2>6. AsyncTyped'
    <3>1. /\ [vec |-> vs, rec |-> rs] \in [vec: SUBSET AsyncDocs, rec: SUBSET AsyncDocs]
          /\ [d \in AsyncDocs |-> IF d \in B THEN "waiting" ELSE "none"]
               \in [AsyncDocs -> {"none", "waiting", "sent", "done"}]
      BY <2>1
    <3>2. late' = [late EXCEPT ![n] = [vec |-> vs, rec |-> rs]]
      BY <1>5 DEF vs, rs
    <3>3. late' \in [Writes -> [vec: SUBSET AsyncDocs, rec: SUBSET AsyncDocs]]
      BY <1>1, <3>1, <3>2 DEF AsyncTyped
    <3>4. chunk' \in [Writes -> [AsyncDocs -> {"none", "waiting", "sent", "done"}]]
      BY <1>1, <1>5, <3>1 DEF AsyncTyped, B
    <3>5. names' \in [Writes -> SUBSET AsyncDocs] /\ unsent' \in [Writes -> SUBSET AsyncDocs]
      BY <1>1, <1>5, <2>1 DEF AsyncTyped, B
    <3>6. /\ outcome' \in [Writes -> Coroutine] /\ upload' \in [Writes -> Coroutine]
          /\ saving' \in [Writes -> Coroutine]
      BY <1>1, <1>5 DEF AsyncTyped
    <3> QED  BY <1>1, <3>3, <3>4, <3>5, <3>6 DEF AsyncTyped
  <2>7. InStep'
    <3>1. \A m \in Writes : m # n =>
            /\ outcome'[m] = "none" => upload'[m] = "none" /\ saving'[m] = "none" /\ names'[m] = {}
            /\ outcome'[m] = "returned" => upload'[m] = "returned" /\ saving'[m] = "returned"
            /\ outcome'[m] = "raised" => ~(upload'[m] = "running" /\ saving'[m] = "running")
            /\ upload'[m] = "returned" => \A d \in names'[m] : chunk'[m][d] = "done"
            /\ \A d \in AsyncDocs :
                 /\ chunk'[m][d] \in {"waiting", "sent"} => upload'[m] = "running"
                 /\ chunk'[m][d] # "none" => d \in names'[m]
            /\ unsent'[m] # {} => saving'[m] = "running"
            /\ unsent'[m] \subseteq names'[m]
      BY <1>1, <2>5 DEF InStep
    <3> QED  BY <2>4, <3>1 DEF InStep
  <2>8. Noted'
    <3>1. ASSUME NEW m \in Writes, NEW k \in Writes, m < k
          PROVE  /\ outcome'[k] # "none" => outcome'[m] # "none"
                 /\ names'[k] # {} /\ upload'[m] = "running" => names'[m] \subseteq late'[k].vec
                 /\ names'[k] # {} /\ saving'[m] = "running" => names'[m] \subseteq late'[k].rec
      <4>1. CASE k = n
        <5>1. m # n
          BY <1>2, <3>1, <4>1
        <5> QED  BY <1>3, <2>2, <2>3, <2>4, <2>5, <3>1, <4>1, <5>1
      <4>2. CASE k # n /\ m = n
        <5>1. outcome[k] = "none" /\ names[k] = {}
          BY <1>1, <3>1, <4>2 DEF Noted, InStep
        <5> QED  BY <2>4, <2>5, <4>2, <5>1
      <4>3. CASE k # n /\ m # n
        BY <1>1, <2>5, <3>1, <4>3 DEF Noted
      <4> QED  BY <4>1, <4>2, <4>3
    <3> QED  BY <3>1 DEF Noted
  <2>9. Stands'
    <3>1. ASSUME NEW m \in Writes, NEW d \in AsyncDocs, LastWrite(d, m)'
          PROVE  /\ chunk'[m][d] = "done" => vecs'[d] = m \/ d \in late'[m].vec
                 /\ saving'[m] \in {"running", "returned"} /\ d \notin unsent'[m] =>
                      recs'[d] = m \/ d \in late'[m].rec
      <4>1. CASE m = n
        <5>1. d \in B
          BY <2>4, <3>1, <4>1 DEF LastWrite
        <5> QED  BY <2>4, <4>1, <5>1
      <4>2. CASE m # n
        <5>1. LastWrite(d, m)
          <6>1. d \in names'[m] /\ \A k \in Writes : d \in names'[k] => k <= m
            BY <3>1 DEF LastWrite
          <6>2. \A k \in Writes : d \in names[k] => d \in names'[k]
            BY <1>2, <2>5
          <6> QED  BY <2>5, <4>2, <6>1, <6>2 DEF LastWrite
        <5>2. /\ chunk[m][d] = "done" => vecs[d] = m \/ d \in late[m].vec
              /\ saving[m] \in {"running", "returned"} /\ d \notin unsent[m] =>
                   recs[d] = m \/ d \in late[m].rec
          BY <1>1, <5>1 DEF Stands
        <5> QED  BY <1>1, <2>5, <4>2, <5>2
      <4> QED  BY <4>1, <4>2
    <3> QED  BY <3>1 DEF Stands
  <2>10. SearchesFresh'
    BY <2>4 DEF SearchesFresh, Quiet
  <2> QED  BY <2>6, <2>7, <2>8, <2>9, <2>10 DEF AsyncInv
<1> QED  BY <1>4, <1>5 DEF Aupsert

(* A call is cancelled, with all that runs under it.                       *)
LEMMA CancelledKeeps ==
  ASSUME AsyncInv, NEW n \in Writes, Cancelled(n)
  PROVE  AsyncInv'
<1>1. /\ AsyncTyped /\ InStep /\ Noted /\ Stands /\ "raised" \in Coroutine
      /\ UNCHANGED <<names, finding, answers, late>>
      /\ outcome[n] = "running"
      /\ outcome' = [outcome EXCEPT ![n] = "raised"]
      /\ chunk' = [chunk EXCEPT ![n] = [d \in AsyncDocs |-> "none"]]
      /\ tried' = [tried EXCEPT ![n] = NoItem]
      /\ upload' = [upload EXCEPT ![n] = "raised"] /\ saving' = [saving EXCEPT ![n] = "raised"]
      /\ unsent' = [unsent EXCEPT ![n] = {}]
  BY DEF AsyncInv, Cancelled, Coroutine
<1>2. PICK D \in SUBSET Chunks(n, "sent") : vecs' = Written(vecs, n, D)
  BY DEF Cancelled
<1>3. PICK E \in SUBSET unsent[n] : recs' = Written(recs, n, E)
  BY DEF Cancelled
<1>4. /\ D # {} => upload[n] = "running"
      /\ E # {} => saving[n] = "running"
      /\ D \subseteq names[n] /\ E \subseteq names[n]
  BY <1>1, <1>2, <1>3 DEF Chunks, InStep
<1>5. /\ vecs' \in [AsyncDocs -> Nat] /\ recs' \in [AsyncDocs -> Nat]
      /\ \A d \in AsyncDocs : /\ vecs'[d] = IF d \in D THEN n ELSE vecs[d]
                              /\ recs'[d] = IF d \in E THEN n ELSE recs[d]
  <2>1. vecs \in [AsyncDocs -> Nat] /\ recs \in [AsyncDocs -> Nat]
    BY <1>1 DEF AsyncTyped
  <2>2. /\ Written(vecs, n, D) \in [AsyncDocs -> Nat]
        /\ \A d \in AsyncDocs : Written(vecs, n, D)[d] = IF d \in D THEN n ELSE vecs[d]
    BY <2>1, WrittenIs
  <2>3. /\ Written(recs, n, E) \in [AsyncDocs -> Nat]
        /\ \A d \in AsyncDocs : Written(recs, n, E)[d] = IF d \in E THEN n ELSE recs[d]
    BY <2>1, WrittenIs
  <2> QED  BY <1>2, <1>3, <2>2, <2>3
<1>6. /\ outcome'[n] = "raised" /\ upload'[n] = "raised" /\ saving'[n] = "raised" /\ unsent'[n] = {}
      /\ \A d \in AsyncDocs : chunk'[n][d] = "none"
      /\ \A m \in Writes : m # n =>
           /\ outcome'[m] = outcome[m] /\ upload'[m] = upload[m] /\ saving'[m] = saving[m]
           /\ unsent'[m] = unsent[m] /\ chunk'[m] = chunk[m]
  BY <1>1 DEF AsyncTyped
<1>7. AsyncTyped'
  BY <1>1, <1>5 DEF AsyncTyped, NoItem
<1>8. InStep'
  BY <1>1, <1>6 DEF InStep
<1>9. Noted'
  BY <1>1, <1>6 DEF Noted
<1>10. Stands'
  <2>1. ASSUME NEW m \in Writes, NEW d \in AsyncDocs, LastWrite(d, m), m # n
        PROVE  /\ chunk[m][d] = "done" => vecs'[d] = m \/ d \in late[m].vec
               /\ saving[m] \in {"running", "returned"} /\ d \notin unsent[m] =>
                    recs'[d] = m \/ d \in late[m].rec
    <3>1. d \in names[n] => n < m
      BY <2>1, WritesNumbered DEF LastWrite
    <3>2. d \in D => d \in late[m].vec
      BY <1>1, <1>4, <2>1, <3>1 DEF Noted, LastWrite
    <3>3. d \in E => d \in late[m].rec
      BY <1>1, <1>4, <2>1, <3>1 DEF Noted, LastWrite
    <3> QED  BY <1>1, <1>5, <2>1, <3>2, <3>3 DEF Stands
  <2>2. \A m \in Writes, d \in AsyncDocs : LastWrite(d, m)' <=> LastWrite(d, m)
    BY <1>1 DEF LastWrite
  <2> QED  BY <1>1, <1>6, <2>1, <2>2 DEF Stands
<1>11. SearchesFresh'
  BY <1>6 DEF SearchesFresh, Quiet
<1> QED  BY <1>7, <1>8, <1>9, <1>10, <1>11 DEF AsyncInv

(* gather ends, well or not: of the searches under way none is current     *)
(* any more.                                                               *)
LEMMA EndKeeps ==
  ASSUME AsyncInv, NEW n \in Writes, Gathered(n) \/ GatherRaises(n)
  PROVE  AsyncInv'
<1> DEFINE o == IF Gathered(n) THEN "returned" ELSE "raised"
           f(s) == IF finding[s].at = "idle" THEN finding[s] ELSE [finding[s] EXCEPT !.crossed = TRUE]
<1>1. /\ AsyncTyped /\ InStep /\ Noted /\ Stands /\ o \in Coroutine
      /\ outcome[n] = "running" /\ outcome' = [outcome EXCEPT ![n] = o]
      /\ UNCHANGED <<names, uploading, recording, late>>
      /\ o = "returned" => /\ upload[n] = "returned" /\ saving[n] = "returned" /\ answers' = NoAnswers
                           /\ finding' = [s \in Searchers |-> f(s)]
      /\ o = "raised" => /\ upload[n] = "raised" \/ saving[n] = "raised"
                         /\ UNCHANGED finding
      /\ o \in {"returned", "raised"}
  BY DEF AsyncInv, Gathered, GatherRaises, Coroutine
<1> HIDE DEF o
<1>2. UNCHANGED <<names, chunk, tried, upload, vecs, saving, unsent, recs, late>>
  BY <1>1 DEF uploading, recording
<1>3. \A m \in Writes : outcome'[m] = IF m = n THEN o ELSE outcome[m]
  BY <1>1 DEF AsyncTyped
<1>4. AsyncTyped'
  <2>1. ASSUME NEW s \in Searchers
        PROVE  f(s) \in [at: {"idle", "found", "hydrated"}, vec: [AsyncDocs -> Nat],
                         rec: [AsyncDocs -> Nat], crossed: BOOLEAN]
    <3>1. finding[s] \in [at: {"idle", "found", "hydrated"}, vec: [AsyncDocs -> Nat],
                          rec: [AsyncDocs -> Nat], crossed: BOOLEAN]
      BY <1>1 DEF AsyncTyped
    <3>2. [finding[s] EXCEPT !.crossed = TRUE] \in
            [at: {"idle", "found", "hydrated"}, vec: [AsyncDocs -> Nat],
             rec: [AsyncDocs -> Nat], crossed: BOOLEAN]
      BY <3>1
    <3> QED  BY <3>1, <3>2
  <2> HIDE DEF f
  <2> QED  BY <1>1, <1>2, <2>1 DEF AsyncTyped
<1>5. InStep'
  BY <1>1, <1>2, <1>3 DEF InStep
<1>6. Noted'
  BY <1>1, <1>2, <1>3 DEF Noted
<1>7. Stands'
  BY <1>1, <1>2 DEF Stands, LastWrite
<1>8. SearchesFresh'
  <2>1. CASE o = "raised"
    BY <1>3, <2>1 DEF SearchesFresh, Quiet
  <2>2. CASE o = "returned"
    <3>1. ASSUME NEW s \in Searchers PROVE finding'[s].at = "idle" \/ finding'[s].crossed
      <4>1. finding'[s] = f(s) /\ finding[s] \in [at: {"idle", "found", "hydrated"},
              vec: [AsyncDocs -> Nat], rec: [AsyncDocs -> Nat], crossed: BOOLEAN]
        BY <1>1, <2>2 DEF AsyncTyped
      <4> QED  BY <4>1
    <3> QED  BY <1>1, <2>2, <3>1 DEF SearchesFresh, CacheFresh, FoundFresh
  <2> QED  BY <1>1, <2>1, <2>2
<1> QED  BY <1>4, <1>5, <1>6, <1>7, <1>8 DEF AsyncInv

(* The searches go on, or the client is entered or left: the calls and the *)
(* stores are as they were.                                                *)
LEMMA AsideKeeps ==
  ASSUME AsyncInv, UNCHANGED <<outcome, names, uploading, recording, late>>,
         AsyncTyped', SearchesFresh'
  PROVE  AsyncInv'
<1>1. UNCHANGED <<outcome, names, chunk, tried, upload, vecs, saving, unsent, recs, late>>
  BY DEF uploading, recording
<1>3. InStep'
  BY <1>1 DEF AsyncInv, InStep
<1>4. Noted'
  BY <1>1 DEF AsyncInv, Noted
<1>5. Stands'
  <2>1. \A m \in Writes, d \in AsyncDocs : LastWrite(d, m)' <=> LastWrite(d, m)
    BY <1>1 DEF LastWrite
  <2> QED  BY <1>1, <2>1 DEF AsyncInv, Stands
<1> QED  BY <1>3, <1>4, <1>5 DEF AsyncInv

LEMMA DoorKeeps ==
  ASSUME AsyncInv, UNCHANGED <<outcome, names, uploading, recording, finding, answers, late>>
  PROVE  AsyncInv'
<1>1. UNCHANGED <<outcome, names, chunk, tried, upload, vecs, saving, unsent, recs, late, finding, answers>>
  BY DEF uploading, recording
<1>2. AsyncTyped'
  BY <1>1 DEF AsyncInv, AsyncTyped
<1>3. SearchesFresh'
  BY <1>1 DEF AsyncInv, SearchesFresh, Quiet, CacheFresh, FoundFresh, Shown
<1> QED  BY <1>2, <1>3, AsideKeeps

(* A search reads what the stores hold, and what it puts was current when  *)
(* it was read and has stayed so, or an invalidation has crossed it.       *)
LEMMA SearchKeeps ==
  ASSUME AsyncInv, NEW s \in Searchers,
         SearchFinds(s) \/ SearchHydrates(s) \/ SearchPuts(s) \/ SearchFails(s)
  PROVE  AsyncInv'
<1>1. /\ UNCHANGED <<outcome, names, uploading, recording, late>>
      /\ UNCHANGED <<outcome, names, chunk, tried, upload, vecs, saving, unsent, recs, late>>
  BY DEF SearchFinds, SearchHydrates, SearchPuts, SearchFails, uploading, recording
<1>2. AsyncTyped /\ SearchesFresh
  BY DEF AsyncInv
<1> DEFINE g == finding'[s]
           Found == [at: {"idle", "found", "hydrated"}, vec: [AsyncDocs -> Nat],
                     rec: [AsyncDocs -> Nat], crossed: BOOLEAN]
<1>3. finding[s] \in Found /\ NoFinding \in Found
  BY <1>2 DEF AsyncTyped, NoFinding, NoItem
<1>4. PICK h : finding' = [finding EXCEPT ![s] = h] /\ h \in Found
  <2>1. CASE SearchFinds(s)
    <3>1. [NoFinding EXCEPT !.at = "found", !.vec = vecs] \in Found
      BY <1>2, <1>3 DEF AsyncTyped
    <3> QED  BY <2>1, <3>1 DEF SearchFinds
  <2>2. CASE SearchHydrates(s)
    <3> DEFINE r == [d \in AsyncDocs |-> IF finding[s].vec[d] = 0 THEN 0 ELSE recs[d]]
    <3>1. r \in [AsyncDocs -> Nat]
      BY <1>2 DEF AsyncTyped
    <3>2. finding' = [finding EXCEPT ![s] = [finding[s] EXCEPT !.at = "hydrated", !.rec = r]]
      BY <1>2, <2>2 DEF SearchHydrates, AsyncTyped
    <3> HIDE DEF r
    <3>3. [finding[s] EXCEPT !.at = "hydrated", !.rec = r] \in Found
      BY <1>3, <3>1
    <3> QED  BY <3>2, <3>3
  <2>3. CASE SearchPuts(s) \/ SearchFails(s)
    BY <1>3, <2>3 DEF SearchPuts, SearchFails
  <2> QED  BY <2>1, <2>2, <2>3
<1>5. g = h /\ \A t \in Searchers : t # s => finding'[t] = finding[t]
  BY <1>2, <1>4 DEF AsyncTyped
<1>6. AsyncTyped'
  <2>1. finding' \in [Searchers -> Found]
    BY <1>2, <1>4 DEF AsyncTyped
  <2> QED  BY <1>1, <1>2, <2>1 DEF AsyncTyped
<1>7. ASSUME Quiet PROVE FoundFresh(s)' /\ CacheFresh'
  <2>1. CacheFresh /\ FoundFresh(s)
    BY <1>2, <1>7 DEF SearchesFresh
  <2>2. CASE SearchFinds(s)
    <3>1. g = [NoFinding EXCEPT !.at = "found", !.vec = vecs] /\ answers' = answers
      BY <1>2, <2>2 DEF SearchFinds, AsyncTyped
    <3>2. g.at = "found" /\ g.vec = vecs
      BY <1>3, <3>1
    <3> HIDE DEF g
    <3>3. FoundFresh(s)'
      BY <1>1, <3>2 DEF FoundFresh, g
    <3> QED  BY <1>1, <2>1, <3>1, <3>3 DEF CacheFresh, Shown
  <2>3. CASE SearchHydrates(s)
    <3> DEFINE r == [d \in AsyncDocs |-> IF finding[s].vec[d] = 0 THEN 0 ELSE recs[d]]
    <3>1. /\ g = [finding[s] EXCEPT !.at = "hydrated", !.rec = r]
          /\ answers' = answers /\ finding[s].at = "found"
      BY <1>2, <2>3 DEF SearchHydrates, AsyncTyped
    <3>2. g.at = "hydrated" /\ g.vec = finding[s].vec /\ g.rec = r /\ g.crossed = finding[s].crossed
      BY <1>3, <3>1
    <3>3. \A d \in AsyncDocs : finding[s].vec[d] # 0 => r[d] = recs[d]
      OBVIOUS
    <3> HIDE DEF g, r
    <3>4. finding[s].crossed \/ finding[s].vec = vecs
      BY <2>1, <3>1 DEF FoundFresh
    <3>5. finding[s].vec = vecs => g.vec = vecs' /\ \A d \in AsyncDocs : g.vec[d] # 0 => g.rec[d] = recs'[d]
      BY <1>1, <3>2, <3>3
    <3>6. FoundFresh(s)'
      BY <3>2, <3>4, <3>5 DEF FoundFresh, Shown, g
    <3> QED  BY <1>1, <2>1, <3>1, <3>6 DEF CacheFresh, Shown
  <2>4. CASE SearchPuts(s) \/ SearchFails(s)
    <3>1. g.at = "idle"
      BY <1>2, <2>4 DEF SearchPuts, SearchFails, AsyncTyped, NoFinding
    <3>2. \/ answers' = answers
          \/ /\ SearchPuts(s)
             /\ answers' = [vec |-> finding[s].vec, rec |-> finding[s].rec, crossed |-> finding[s].crossed]
      BY <2>4 DEF SearchPuts, SearchFails
    <3>3. CASE answers' = answers
      BY <1>1, <2>1, <3>1, <3>3 DEF CacheFresh, FoundFresh, Shown
    <3>4. CASE /\ SearchPuts(s)
               /\ answers' = [vec |-> finding[s].vec, rec |-> finding[s].rec, crossed |-> finding[s].crossed]
      <4>1. finding[s].crossed \/ Shown(finding[s].vec, finding[s].rec)
        BY <2>1, <3>4 DEF SearchPuts, FoundFresh
      <4>2. /\ answers'.vec = finding[s].vec /\ answers'.rec = finding[s].rec
            /\ answers'.crossed = finding[s].crossed
        BY <3>4
      <4>3. CacheFresh'
        BY <1>1, <4>1, <4>2 DEF CacheFresh, Shown
      <4> QED  BY <3>1, <4>3 DEF FoundFresh
    <3> QED  BY <3>2, <3>3, <3>4
  <2> QED  BY <2>2, <2>3, <2>4
<1>8. SearchesFresh'
  <2>1. Quiet' => Quiet
    BY <1>1 DEF Quiet
  <2>2. ASSUME Quiet, NEW t \in Searchers, t # s PROVE FoundFresh(t)'
    BY <1>1, <1>2, <1>5, <2>2 DEF SearchesFresh, FoundFresh, Shown
  <2> QED  BY <1>7, <2>1, <2>2 DEF SearchesFresh
<1> QED  BY <1>1, <1>6, <1>8, AsideKeeps

LEMMA AsyncInvInit == AsyncInit => AsyncInv
<1> SUFFICES ASSUME AsyncInit PROVE AsyncInv
  OBVIOUS
<1>1. AsyncTyped
  BY DEF AsyncInit, AsyncTyped, Coroutine, NoItem, NoFinding
<1>2. InStep /\ Noted /\ Stands
  BY DEF AsyncInit, InStep, Noted, Stands, LastWrite
<1>3. SearchesFresh
  BY DEF AsyncInit, SearchesFresh, CacheFresh, FoundFresh, NoFinding
<1> QED  BY <1>1, <1>2, <1>3 DEF AsyncInv

LEMMA AsyncInvNext == AsyncInv /\ [AsyncNext]_acvars => AsyncInv'
<1> SUFFICES ASSUME AsyncInv, [AsyncNext]_acvars PROVE AsyncInv'
  OBVIOUS
<1>1. CASE UNCHANGED acvars
  BY <1>1, DoorKeeps DEF acvars, uploading, recording
<1>2. CASE EnterVectors \/ EnterRecords \/ EnterFails \/ LeaveRecords \/ LeaveVectors
  BY <1>2, DoorKeeps DEF EnterVectors, EnterRecords, EnterFails, LeaveRecords, LeaveVectors, Become
<1>4. ASSUME NEW s \in Searchers,
             SearchFinds(s) \/ SearchHydrates(s) \/ SearchPuts(s) \/ SearchFails(s)
      PROVE  AsyncInv'
  BY <1>4, SearchKeeps
<1>3. ASSUME NEW n \in Writes,
             \/ Aupsert(n)
             \/ \E d \in AsyncDocs : SendChunk(n, d) \/ ChunkStored(n, d) \/ ChunkRetried(n, d)
             \/ UploadFails(n) \/ UploadReturns(n)
             \/ SaveSome(n) \/ SaveFails(n) \/ SaveReturns(n)
             \/ Gathered(n) \/ GatherRaises(n) \/ Cancelled(n)
      PROVE  AsyncInv'
  BY <1>3, AupsertKeeps, SendChunkKeeps, ChunkStoredKeeps, ChunkRetriedKeeps, UploadFailsKeeps,
     UploadReturnsKeeps, SaveKeeps, EndKeeps, CancelledKeeps
<1> QED  BY <1>1, <1>2, <1>3, <1>4 DEF AsyncNext
LEMMA AsyncInvImplies == AsyncInv => AsyncWritesSettle
<1> SUFFICES ASSUME AsyncInv PROVE AsyncWritesSettle
  OBVIOUS
<1>1. AsyncTyped /\ InStep /\ Stands /\ AnswersFresh
  BY DEF AsyncInv, SearchesFresh, Quiet, CacheFresh, AnswersFresh
<1>2. ASSUME NEW n \in Writes, NEW d \in AsyncDocs, LastWrite(d, n), outcome[n] = "returned"
      PROVE  (vecs[d] = n \/ d \in late[n].vec) /\ (recs[d] = n \/ d \in late[n].rec)
  <2>1. upload[n] = "returned" /\ saving[n] = "returned" /\ d \in names[n]
    BY <1>1, <1>2 DEF InStep, LastWrite
  <2>2. chunk[n][d] = "done" /\ d \notin unsent[n]
    BY <1>1, <2>1 DEF InStep
  <2> QED  BY <1>1, <1>2, <2>1, <2>2 DEF Stands
<1>3. NothingElseRuns
  BY <1>1 DEF InStep, NothingElseRuns, Chunks
<1> QED  BY <1>1, <1>2, <1>3 DEF AsyncWritesSettle, ReturnedWritesStand

(* What aupsert wrote and returned stands in both stores, but for a        *)
(* document that the one coroutine an earlier failed gather left running   *)
(* was writing too; nothing else of a failed or cancelled call runs on;    *)
(* and when every call has returned, the cached answer is what the stores  *)
(* hold, unless an invalidation came between the reads of its search and   *)
(* its put.                                                                *)
THEOREM AsyncUpsertsSettle == AsyncInit /\ [][AsyncNext]_acvars => []AsyncWritesSettle
<1> QED  BY AsyncInvInit, AsyncInvNext, AsyncInvImplies, PTL

-----------------------------------------------------------------------------
(***************************************************************************)
(* What an invalidation evicted from a shared cache stays out of it once   *)
(* the invalidation has reached every copy, for any number of clients,     *)
(* keys, namespaces, puts and invalidations, in either backend.            *)
(*                                                                         *)
(* In DynamoDB the argument is that a generation is written to a namespace *)
(* at most once: one that an invalidation has taken and not yet written is *)
(* nobody's, so that an item put before an invalidation differs from the   *)
(* generation written then and from all later ones (Gone); a read answers  *)
(* with none of the generations before the one every copy has.  In Redis   *)
(* it is that whatever had been put when an invalidation began, and is     *)
(* still there, is among the keys it deletes.                              *)
(***************************************************************************)

USE SharedCacheAssumption

StoredItem == [gen: Nat, serial: Nat]
Generation == [gen: Nat, evicts: SUBSET Nat]
Pcs == {"idle", "generation", "entry", "stamp", "delete"}
Serials == {f[1] : f \in finished}

Typed ==
  /\ backend \in Backends
  /\ entries \in [CacheKeys -> StoredItem \cup {Nil}]
  /\ older \in [CacheKeys -> SUBSET StoredItem]
  /\ gens \in [Spaces -> Seq(Generation)] /\ reached \in [Spaces -> Nat]
  /\ puts \in Nat /\ invalidations \in Nat
  /\ DOMAIN request = Clients /\ request = [c \in Clients |-> request[c]]
  /\ finished \subseteq (1 .. puts) \X CacheKeys
  /\ banned \subseteq Serials

(* An invalidation evicts puts that had returned in its namespace.         *)
LogOK ==
  \A n \in Spaces :
    /\ reached[n] \in 1 .. Len(gens[n])
    /\ backend = "redis" => Len(gens[n]) = 1
    /\ \A j \in 1 .. Len(gens[n]) :
         gens[n][j].gen <= invalidations /\ gens[n][j].evicts \subseteq Returned(n)

(* From the invalidation that evicts it on, no generation is the item's.   *)
Gone(k, it) ==
  \A j \in 1 .. Len(gens[SpaceOf[k]]) : \A i \in j .. Len(gens[SpaceOf[k]]) :
    it.serial \in gens[SpaceOf[k]][j].evicts => gens[SpaceOf[k]][i].gen # it.gen

(* An item a read may return is a put that has returned.                   *)
ItemOK(k, it) ==
  /\ it \in StoredItem /\ it.gen <= invalidations
  /\ <<it.serial, k>> \in finished
  /\ backend = "dynamodb" => Gone(k, it)

ItemsOK == \A k \in CacheKeys : \A it \in ReadableItems(k) : ItemOK(k, it)

(* Redis: what has returned and is there is among the keys to delete.      *)
Listed(r) ==
  \A k \in CacheKeys : entries[k] # Nil /\ entries[k].serial \in r.evicts => k \in r.keys

RequestOK(r) ==
  /\ r.at \in Pcs
  /\ r.at = "generation" =>
       /\ backend = "dynamodb" /\ r.key \in CacheKeys /\ ItemOK(r.key, r.item)
       /\ r.bans \subseteq banned
  /\ r.at = "entry" =>
       /\ backend = "dynamodb" /\ r.key \in CacheKeys
       /\ r.gen \in Nat /\ r.gen <= invalidations
       /\ r.serial \in 1 .. puts /\ r.serial \notin Serials
  /\ r.at = "stamp" =>
       /\ backend = "dynamodb" /\ r.space \in Spaces
       /\ r.gen \in Nat /\ r.gen <= invalidations
       /\ r.evicts \subseteq Returned(r.space)
  /\ r.at = "delete" =>
       /\ backend = "redis" /\ r.space \in Spaces
       /\ r.evicts \subseteq Returned(r.space) /\ Listed(r)

RequestsOK == \A c \in Clients : RequestOK(request[c])

(* A generation taken and not yet written is nobody's.                     *)
Unwritten(g) ==
  /\ \A n \in Spaces : \A j \in 1 .. Len(gens[n]) : gens[n][j].gen # g
  /\ \A k \in CacheKeys : \A it \in ReadableItems(k) : it.gen # g
  /\ \A c \in Clients :
       /\ request[c].at = "entry" => request[c].gen # g
       /\ request[c].at = "generation" => request[c].item.gen # g

(* Every put has its key and its number, every invalidation its own time.  *)
OwnMarks ==
  /\ \A f, g \in finished : f[1] = g[1] => f[2] = g[2]
  /\ \A c, d \in Clients :
       /\ c # d /\ request[c].at = "entry" /\ request[d].at = "entry" =>
            request[c].serial # request[d].serial
       /\ c # d /\ request[c].at = "stamp" /\ request[d].at = "stamp" =>
            request[c].gen # request[d].gen
  /\ \A c \in Clients : request[c].at = "stamp" => Unwritten(request[c].gen)

(* Who is banned was evicted by a generation that every copy has, or has   *)
(* been deleted from Redis.                                                *)
BannedOut ==
  /\ backend = "dynamodb" =>
       \A x \in banned : \E n \in Spaces : \E j \in 1 .. reached[n] : x \in gens[n][j].evicts
  /\ backend = "redis" =>
       \A k \in CacheKeys : entries[k] # Nil => entries[k].serial \notin banned

CacheInv == Typed /\ LogOK /\ ItemsOK /\ RequestsOK /\ OwnMarks /\ BannedOut /\ EvictedStayOut

LEMMA InitInv == SharedCacheInit => CacheInv
<1> SUFFICES ASSUME SharedCacheInit PROVE CacheInv
  OBVIOUS
<1>1. \A n \in Spaces : /\ gens[n] = << [gen |-> 0, evicts |-> {}] >>
                        /\ Len(gens[n]) = 1 /\ gens[n][1] = [gen |-> 0, evicts |-> {}]
                        /\ reached[n] = 1
  BY DEF SharedCacheInit
<1>2. \A k \in CacheKeys : ReadableItems(k) = {}
  BY DEF SharedCacheInit, ReadableItems
<1>3. \A c \in Clients : request[c].at = "idle"
  BY DEF SharedCacheInit, NoRequest
<1>4. gens \in [Spaces -> Seq(Generation)]
  <2>1. [gen |-> 0, evicts |-> {}] \in Generation
    BY DEF Generation
  <2> QED  BY <2>1 DEF SharedCacheInit
<1>5. Typed
  BY <1>4 DEF SharedCacheInit, Typed, Serials
<1>6. LogOK
  BY <1>1 DEF SharedCacheInit, LogOK
<1>7. ItemsOK /\ RequestsOK /\ OwnMarks
  BY <1>2, <1>3 DEF SharedCacheInit, ItemsOK, RequestsOK, RequestOK, OwnMarks, Pcs
<1>8. BannedOut /\ EvictedStayOut
  BY DEF SharedCacheInit, BannedOut, EvictedStayOut
<1> QED  BY <1>5, <1>6, <1>7, <1>8 DEF CacheInv

(* A call's next request leaves the calls of the others alone.             *)
LEMMA OthersKept ==
  ASSUME Typed, NEW c \in Clients, NEW r, request' = [request EXCEPT ![c] = r]
  PROVE  /\ DOMAIN request' = Clients /\ request' = [d \in Clients |-> request'[d]]
         /\ request'[c] = r
         /\ \A d \in Clients : d # c => request'[d] = request[d]
BY DEF Typed

LEMMA Stored ==
  ASSUME CacheInv
  PROVE  /\ \A k \in CacheKeys : SpaceOf[k] \in Spaces
         /\ Serials \subseteq 1 .. puts /\ banned \subseteq Serials
         /\ \A n : Returned(n) \subseteq Serials
         /\ \A n \in Spaces : gens[n] \in Seq(Generation) /\ Len(gens[n]) \in Nat
         /\ \A n \in Spaces : \A j \in 1 .. Len(gens[n]) : gens[n][j] \in Generation
         /\ puts \in Nat /\ invalidations \in Nat
<1>1. /\ \A n \in Spaces : gens[n] \in Seq(Generation) /\ Len(gens[n]) \in Nat
      /\ \A n \in Spaces : \A j \in 1 .. Len(gens[n]) : gens[n][j] \in Generation
  BY DEF CacheInv, Typed
<1> QED  BY <1>1 DEF CacheInv, Typed, Serials, Spaces, Returned

(* What an idle call leaves behind.                                        *)
LEMMA IdleRequest == NoRequest.at = "idle"
BY DEF NoRequest

(* An item stays what it was while the log of its namespace does.          *)
LEMMA ItemKept ==
  ASSUME NEW k, NEW it, ItemOK(k, it), UNCHANGED <<backend, gens>>,
         finished \subseteq finished', invalidations' >= invalidations,
         invalidations \in Nat, invalidations' \in Nat
  PROVE  ItemOK(k, it)'
BY DEF ItemOK, Gone, StoredItem

(* So does a request, while the entries of Redis only go.                  *)
LEMMA RequestKept ==
  ASSUME NEW d \in Clients, RequestOK(request[d]), request'[d] = request[d],
         UNCHANGED <<backend, gens>>,
         finished \subseteq finished', banned \subseteq banned',
         invalidations' >= invalidations, puts' >= puts,
         invalidations \in Nat, invalidations' \in Nat, puts \in Nat, puts' \in Nat,
         request[d].at = "entry" => request[d].serial \notin Serials',
         request[d].at = "delete" => Listed(request[d])'
  PROVE  RequestOK(request[d])'
<1> DEFINE r == request[d]
<1>1. \A n : Returned(n) \subseteq Returned(n)'
  BY DEF Returned
<1>2. CASE r.at = "generation"
  <2>1. /\ r.item \in StoredItem /\ r.item.gen <= invalidations /\ r.item.gen \in Nat
        /\ <<r.item.serial, r.key>> \in finished
        /\ Gone(r.key, r.item) /\ backend = "dynamodb" /\ r.key \in CacheKeys /\ r.bans \subseteq banned
    BY <1>2 DEF RequestOK, ItemOK, StoredItem
  <2>2. Gone(request[d].key, request[d].item)'
    BY <2>1 DEF Gone
  <2>3. ItemOK(request[d].key, request[d].item)'
    BY <2>1, <2>2 DEF ItemOK, StoredItem
  <2> QED  BY <1>2, <2>1, <2>3 DEF RequestOK, Pcs
<1>3. CASE r.at = "entry"
  BY <1>3 DEF RequestOK, Pcs
<1>4. CASE r.at = "stamp"
  BY <1>1, <1>4 DEF RequestOK, Pcs
<1>5. CASE r.at = "delete"
  BY <1>1, <1>5 DEF RequestOK, Pcs
<1>6. CASE r.at = "idle"
  BY <1>6 DEF RequestOK, Pcs
<1> QED  BY <1>2, <1>3, <1>4, <1>5, <1>6 DEF RequestOK, Pcs

(* Steps that leave the log and the calls alone, or end a call.            *)
LEMMA Fewer ==
  ASSUME CacheInv, UNCHANGED <<backend, gens, reached, puts, finished>>,
         invalidations' = invalidations,
         DOMAIN request' = Clients, request' = [d \in Clients |-> request'[d]],
         \A d \in Clients : request'[d] \in {request[d], NoRequest},
         entries' \in [CacheKeys -> StoredItem \cup {Nil}],
         \A k \in CacheKeys : entries'[k] # Nil => entries'[k] = entries[k],
         older' \in [CacheKeys -> SUBSET StoredItem],
         \A k \in CacheKeys : older'[k] \subseteq older[k],
         banned \subseteq banned', banned' \subseteq Serials
  PROVE  Typed' /\ LogOK' /\ ItemsOK' /\ RequestsOK' /\ OwnMarks'
<1>1. Serials' = Serials /\ \A n : Returned(n)' = Returned(n)
  BY DEF Serials, Returned
<1>2. \A k \in CacheKeys : ReadableItems(k)' \subseteq ReadableItems(k)
  BY DEF ReadableItems
<1>3. Typed'
  BY <1>1 DEF CacheInv, Typed
<1>4. LogOK'
  BY <1>1 DEF CacheInv, LogOK
<1>5. ItemsOK'
  <2>1. ASSUME NEW k \in CacheKeys, NEW it \in ReadableItems(k)' PROVE ItemOK(k, it)'
    <3>1. ItemOK(k, it)
      BY <1>2, <2>1 DEF CacheInv, ItemsOK
    <3> QED  BY <3>1, ItemKept, Stored
  <2> QED  BY <2>1 DEF ItemsOK
<1>6. RequestsOK'
  <2>1. ASSUME NEW d \in Clients PROVE RequestOK(request[d])'
    <3>1. CASE request'[d] = NoRequest
      BY <3>1, IdleRequest DEF RequestOK, Pcs
    <3>2. CASE request'[d] = request[d]
      <4>1. RequestOK(request[d])
        BY DEF CacheInv, RequestsOK
      <4>2. request[d].at = "delete" => Listed(request[d])'
        BY <3>2, <4>1 DEF RequestOK, Listed
      <4>3. request[d].at = "entry" => request[d].serial \notin Serials'
        BY <4>1, <1>1 DEF RequestOK
      <4> QED  BY <3>2, <4>1, <4>2, <4>3, RequestKept, Stored
    <3> QED  BY <3>1, <3>2
  <2> QED  BY <2>1 DEF RequestsOK
<1>7. OwnMarks'
  BY <1>2, IdleRequest DEF CacheInv, OwnMarks, Unwritten
<1> QED  BY <1>3, <1>4, <1>5, <1>6, <1>7

LEMMA GetItemKeeps ==
  ASSUME CacheInv, NEW c \in Clients, NEW k \in CacheKeys, GetItem(c, k)
  PROVE  CacheInv'
<1>0. PICK it \in ReadableItems(k) :
        request' = [request EXCEPT ![c] =
          [NoRequest EXCEPT !.at = "generation", !.key = k, !.item = it,
                            !.bans = banned]]
  BY DEF GetItem
<1> DEFINE r == [NoRequest EXCEPT !.at = "generation", !.key = k, !.item = it,
                                  !.bans = banned]
<1>1. r.at = "generation" /\ r.key = k /\ r.item = it /\ r.bans = banned
  BY DEF NoRequest
<1>2. request' = [request EXCEPT ![c] = r]
  BY <1>0
<1> HIDE DEF r
<1>3. /\ DOMAIN request' = Clients /\ request' = [d \in Clients |-> request'[d]]
      /\ request'[c] = r
      /\ \A d \in Clients : d # c => request'[d] = request[d]
  BY <1>2, OthersKept DEF CacheInv
<1>4. /\ backend = "dynamodb"
      /\ UNCHANGED <<backend, entries, older, gens, reached, puts, invalidations, finished,
                     banned, answer>>
  BY DEF GetItem
<1>5. Serials' = Serials /\ \A n : Returned(n)' = Returned(n)
  BY <1>4 DEF Serials, Returned
<1>6. \A j \in CacheKeys : ReadableItems(j)' = ReadableItems(j)
  BY <1>4 DEF ReadableItems
<1>7. Typed' /\ LogOK'
  BY <1>3, <1>4, <1>5 DEF CacheInv, Typed, LogOK
<1>8. ItemOK(k, it)
  BY DEF CacheInv, ItemsOK
<1>9. ItemsOK'
  <2>1. ASSUME NEW j \in CacheKeys, NEW x \in ReadableItems(j)' PROVE ItemOK(j, x)'
    <3>1. ItemOK(j, x)
      BY <1>6, <2>1 DEF CacheInv, ItemsOK
    <3> QED  BY <1>4, <3>1, ItemKept, Stored
  <2> QED  BY <2>1 DEF ItemsOK
<1>10. RequestsOK'
  <2>1. ASSUME NEW d \in Clients PROVE RequestOK(request[d])'
    <3>1. CASE d = c
      <4>1. ItemOK(k, it)'
        BY <1>4, <1>8, ItemKept, Stored
      <4>2. ItemOK(request[d].key, request[d].item)'
        BY <1>1, <1>3, <3>1, <4>1 DEF ItemOK, Gone
      <4> QED  BY <1>1, <1>3, <1>4, <3>1, <4>2 DEF RequestOK, Pcs
    <3>2. CASE d # c
      <4>1. RequestOK(request[d]) /\ request'[d] = request[d]
        BY <1>3, <3>2 DEF CacheInv, RequestsOK
      <4>2. request[d].at = "delete" => Listed(request[d])'
        BY <1>4, <4>1 DEF RequestOK
      <4>3. request[d].at = "entry" => request[d].serial \notin Serials'
        BY <4>1, <1>5 DEF RequestOK
      <4> QED  BY <1>4, <4>1, <4>2, <4>3, RequestKept, Stored
    <3> QED  BY <3>1, <3>2
  <2> QED  BY <2>1 DEF RequestsOK
<1>11. OwnMarks'
  BY <1>1, <1>3, <1>4, <1>6 DEF CacheInv, OwnMarks, Unwritten
<1>12. BannedOut' /\ EvictedStayOut'
  BY <1>4 DEF CacheInv, BannedOut, EvictedStayOut
<1> QED  BY <1>7, <1>9, <1>10, <1>11, <1>12 DEF CacheInv

(* A read answers with a generation no older than the one every copy has.  *)
LEMMA GetGenerationKeeps ==
  ASSUME CacheInv, NEW c \in Clients, GetGeneration(c)
  PROVE  CacheInv'
<1> DEFINE r == request[c]
           n == SpaceOf[r.key]
<1>1. /\ DOMAIN request' = Clients /\ request' = [d \in Clients |-> request'[d]]
      /\ request'[c] = NoRequest
      /\ \A d \in Clients : d # c => request'[d] = request[d]
  BY OthersKept DEF GetGeneration, CacheInv
<1>2. /\ r.at = "generation"
      /\ UNCHANGED <<backend, entries, older, gens, reached, puts, invalidations, finished,
                     banned>>
  BY DEF GetGeneration
<1>3. Typed' /\ LogOK' /\ ItemsOK' /\ RequestsOK' /\ OwnMarks'
  BY <1>1, <1>2, Fewer, Stored DEF CacheInv, Typed
<1>4. BannedOut'
  BY <1>2 DEF CacheInv, BannedOut
<1>5. EvictedStayOut'
  <2>1. PICK gen \in Readable(n) :
          answer' = IF r.item.gen = gen
                    THEN [put |-> r.item.serial, banned |-> r.bans] ELSE answer
    BY DEF GetGeneration
  <2>2. CASE r.item.gen # gen
    BY <2>1, <2>2 DEF CacheInv, EvictedStayOut
  <2>3. CASE r.item.gen = gen
    <3>1. /\ backend = "dynamodb" /\ r.key \in CacheKeys /\ n \in Spaces /\ r.bans \subseteq banned
          /\ <<r.item.serial, r.key>> \in finished /\ Gone(r.key, r.item)
      BY <1>2, Stored DEF CacheInv, RequestsOK, RequestOK, ItemOK
    <3>2. PICK i \in reached[n] .. Len(gens[n]) : gen = gens[n][i].gen
      BY DEF Readable
    <3>3. ASSUME r.item.serial \in banned PROVE FALSE
      <4>1. PICK m \in Spaces : \E j \in 1 .. reached[m] : r.item.serial \in gens[m][j].evicts
        BY <3>1, <3>3 DEF CacheInv, BannedOut
      <4>2. PICK j \in 1 .. reached[m] : r.item.serial \in gens[m][j].evicts
        BY <4>1
      <4>3. reached[m] \in 1 .. Len(gens[m]) /\ reached[n] \in 1 .. Len(gens[n])
        BY <3>1 DEF CacheInv, LogOK
      <4>4. j \in 1 .. Len(gens[m])
        BY <4>3, Stored
      <4>5. r.item.serial \in Returned(m)
        BY <4>2, <4>4 DEF CacheInv, LogOK
      <4>6. m = n
        BY <3>1, <4>5 DEF CacheInv, OwnMarks, Returned
      <4>7. i \in j .. Len(gens[n]) /\ j \in 1 .. Len(gens[n])
        BY <3>1, <4>3, <4>4, <4>6, Stored
      <4> QED  BY <2>3, <3>1, <3>2, <4>2, <4>6, <4>7 DEF Gone
    <3> QED  BY <2>1, <2>3, <3>1, <3>3 DEF EvictedStayOut
  <2> QED  BY <2>2, <2>3
<1> QED  BY <1>3, <1>4, <1>5 DEF CacheInv

LEMMA RedisGetKeeps ==
  ASSUME CacheInv, NEW c \in Clients, NEW k \in CacheKeys, RedisGet(c, k)
  PROVE  CacheInv'
<1>1. /\ backend = "redis" /\ entries[k] # Nil
      /\ answer' = [put |-> entries[k].serial, banned |-> banned]
      /\ UNCHANGED <<backend, entries, older, gens, reached, request, puts, invalidations,
                     finished, banned>>
  BY DEF RedisGet
<1>2. Typed' /\ LogOK' /\ ItemsOK' /\ RequestsOK' /\ OwnMarks'
  BY <1>1, Fewer, Stored DEF CacheInv, Typed
<1>3. BannedOut' /\ EvictedStayOut'
  BY <1>1 DEF CacheInv, BannedOut, EvictedStayOut
<1> QED  BY <1>2, <1>3 DEF CacheInv

LEMMA PutGenerationKeeps ==
  ASSUME CacheInv, NEW c \in Clients, NEW k \in CacheKeys, PutGeneration(c, k)
  PROVE  CacheInv'
<1>0. PICK gen \in Readable(SpaceOf[k]) :
        request' = [request EXCEPT ![c] =
          [NoRequest EXCEPT !.at = "entry", !.key = k, !.gen = gen, !.serial = puts + 1]]
  BY DEF PutGeneration
<1> DEFINE r == [NoRequest EXCEPT !.at = "entry", !.key = k, !.gen = gen, !.serial = puts + 1]
<1>1. r.at = "entry" /\ r.key = k /\ r.gen = gen /\ r.serial = puts + 1
  BY DEF NoRequest
<1>2. request' = [request EXCEPT ![c] = r]
  BY <1>0
<1> HIDE DEF r
<1>3. /\ DOMAIN request' = Clients /\ request' = [d \in Clients |-> request'[d]]
      /\ request'[c] = r
      /\ \A d \in Clients : d # c => request'[d] = request[d]
  BY <1>2, OthersKept DEF CacheInv
<1>4. /\ backend = "dynamodb" /\ puts' = puts + 1 /\ puts \in Nat
      /\ UNCHANGED <<backend, entries, older, gens, reached, invalidations, finished,
                     banned, answer>>
  BY Stored DEF PutGeneration
<1>5. Serials' = Serials /\ \A n : Returned(n)' = Returned(n)
  BY <1>4 DEF Serials, Returned
<1>6. \A j \in CacheKeys : ReadableItems(j)' = ReadableItems(j)
  BY <1>4 DEF ReadableItems
<1>7. /\ gen \in Nat /\ gen <= invalidations
      /\ \E i \in 1 .. Len(gens[SpaceOf[k]]) : gen = gens[SpaceOf[k]][i].gen
  <2>1. PICK i \in reached[SpaceOf[k]] .. Len(gens[SpaceOf[k]]) : gen = gens[SpaceOf[k]][i].gen
    BY DEF Readable
  <2>2. i \in 1 .. Len(gens[SpaceOf[k]])
    BY Stored DEF CacheInv, LogOK
  <2> QED  BY <2>1, <2>2, Stored DEF CacheInv, LogOK, Generation
<1>8. Typed' /\ LogOK'
  <2>1. finished' \subseteq (1 .. puts') \X CacheKeys
    BY <1>4 DEF CacheInv, Typed
  <2> QED  BY <1>3, <1>4, <1>5, <2>1 DEF CacheInv, Typed, LogOK
<1>9. ItemsOK'
  <2>1. ASSUME NEW j \in CacheKeys, NEW x \in ReadableItems(j)' PROVE ItemOK(j, x)'
    <3>1. ItemOK(j, x)
      BY <1>6, <2>1 DEF CacheInv, ItemsOK
    <3> QED  BY <1>4, <3>1, ItemKept, Stored
  <2> QED  BY <2>1 DEF ItemsOK
<1>10. RequestsOK'
  <2>1. ASSUME NEW d \in Clients PROVE RequestOK(request[d])'
    <3>1. CASE d = c
      <4>1. puts + 1 \notin Serials
        BY <1>4, Stored
      <4> QED  BY <1>1, <1>3, <1>4, <1>5, <1>7, <3>1, <4>1 DEF RequestOK, Pcs
    <3>2. CASE d # c
      <4>1. RequestOK(request[d]) /\ request'[d] = request[d]
        BY <1>3, <3>2 DEF CacheInv, RequestsOK
      <4>2. request[d].at = "delete" => Listed(request[d])'
        BY <1>4, <4>1 DEF RequestOK
      <4>3. request[d].at = "entry" => request[d].serial \notin Serials'
        BY <4>1, <1>5 DEF RequestOK
      <4> QED  BY <1>4, <4>1, <4>2, <4>3, RequestKept, Stored
    <3> QED  BY <3>1, <3>2
  <2> QED  BY <2>1 DEF RequestsOK
<1>11. OwnMarks'
  <2>1. \A f, g \in finished' : f[1] = g[1] => f[2] = g[2]
    BY <1>4 DEF CacheInv, OwnMarks
  <2>2. \A d \in Clients : request[d].at = "entry" => request[d].serial \in 1 .. puts
    BY DEF CacheInv, RequestsOK, RequestOK
  <2>3. \A d, e \in Clients :
          /\ d # e /\ request'[d].at = "entry" /\ request'[e].at = "entry" =>
               request'[d].serial # request'[e].serial
          /\ d # e /\ request'[d].at = "stamp" /\ request'[e].at = "stamp" =>
               request'[d].gen # request'[e].gen
    BY <1>1, <1>3, <1>4, <2>2 DEF CacheInv, OwnMarks
  <2>4. ASSUME NEW d \in Clients, request'[d].at = "stamp" PROVE Unwritten(request[d].gen)'
    <3>1. request'[d] = request[d] /\ Unwritten(request[d].gen)
      BY <1>1, <1>3, <2>4 DEF CacheInv, OwnMarks
    <3>2. gen # request[d].gen
      BY <1>7, <3>1, Stored DEF Unwritten
    <3> QED  BY <1>1, <1>3, <1>4, <1>6, <3>1, <3>2 DEF Unwritten
  <2> QED  BY <2>1, <2>3, <2>4 DEF OwnMarks
<1>12. BannedOut' /\ EvictedStayOut'
  BY <1>4 DEF CacheInv, BannedOut, EvictedStayOut
<1> QED  BY <1>8, <1>9, <1>10, <1>11, <1>12 DEF CacheInv

(* A put that returns adds its number to those that have.                  *)
LEMMA Returning ==
  ASSUME CacheInv, NEW s, NEW k, finished' = finished \cup {<<s, k>>}
  PROVE  /\ Serials' = Serials \cup {s}
         /\ \A n : Returned(n) \subseteq Returned(n)'
<1>1. <<s, k>>[1] = s
  OBVIOUS
<1>2. Serials' = Serials \cup {s}
  <2>1. \A x : x \in Serials' <=> \E f \in finished' : x = f[1]
    BY DEF Serials
  <2>2. \A x : x \in Serials <=> \E f \in finished : x = f[1]
    BY DEF Serials
  <2> QED  BY <1>1, <2>1, <2>2
<1>3. \A n : Returned(n) \subseteq Returned(n)'
  BY DEF Returned
<1> QED  BY <1>2, <1>3

LEMMA PutEntryKeeps ==
  ASSUME CacheInv, NEW c \in Clients, PutEntry(c)
  PROVE  CacheInv'
<1> DEFINE r == request[c]
           new == [gen |-> r.gen, serial |-> r.serial]
<1>1. /\ DOMAIN request' = Clients /\ request' = [d \in Clients |-> request'[d]]
      /\ request'[c] = NoRequest
      /\ \A d \in Clients : d # c => request'[d] = request[d]
  BY OthersKept DEF PutEntry, CacheInv
<1>2. /\ r.at = "entry" /\ r.key \in CacheKeys /\ backend = "dynamodb" /\ r.gen \in Nat
      /\ r.serial \in 1 .. puts /\ r.serial \notin Serials /\ r.gen <= invalidations
      /\ UNCHANGED <<backend, gens, reached, puts, invalidations, banned, answer>>
  BY DEF PutEntry, CacheInv, RequestsOK, RequestOK
<1>3. /\ entries' = [entries EXCEPT ![r.key] = new]
      /\ older' = [older EXCEPT ![r.key] = ReadableItems(r.key)]
      /\ finished' = finished \cup {<<r.serial, r.key>>}
  BY DEF PutEntry
<1>4. \A k \in CacheKeys : \A it \in ReadableItems(k)' :
        it \in ReadableItems(k) \/ (k = r.key /\ it = new)
  BY <1>2, <1>3 DEF CacheInv, Typed, ReadableItems
<1>5. Serials' = Serials \cup {r.serial} /\ \A n : Returned(n) \subseteq Returned(n)'
  BY <1>3, Returning
<1>6. new \in StoredItem /\ new.gen = r.gen /\ new.serial = r.serial
  BY <1>2 DEF StoredItem
<1>7. Typed'
  <2>1. finished' \subseteq (1 .. puts') \X CacheKeys
    BY <1>2, <1>3 DEF CacheInv, Typed
  <2>2. ReadableItems(r.key) \subseteq StoredItem
    BY <1>2 DEF CacheInv, Typed, ReadableItems
  <2>3. /\ entries' \in [CacheKeys -> StoredItem \cup {Nil}]
        /\ older' \in [CacheKeys -> SUBSET StoredItem]
    BY <1>3, <1>6, <2>2 DEF CacheInv, Typed
  <2> QED  BY <1>1, <1>2, <1>5, <2>1, <2>3 DEF CacheInv, Typed
<1>8. LogOK'
  <2>1. \A n \in Spaces : \A j \in 1 .. Len(gens[n]) : gens[n][j].evicts \subseteq Returned(n)'
    BY <1>5 DEF CacheInv, LogOK
  <2> QED  BY <1>2, <2>1 DEF CacheInv, LogOK
<1>9. ItemsOK'
  <2>1. ASSUME NEW k \in CacheKeys, NEW it \in ReadableItems(k)' PROVE ItemOK(k, it)'
    <3>1. CASE it \in ReadableItems(k)
      <4>1. ItemOK(k, it)
        BY <3>1 DEF CacheInv, ItemsOK
      <4> QED  BY <1>2, <1>3, <4>1, ItemKept, Stored
    <3>2. CASE k = r.key /\ it = new
      <4>1. \A j \in 1 .. Len(gens[SpaceOf[k]]) : it.serial \notin gens[SpaceOf[k]][j].evicts
        BY <1>2, <1>6, <3>2, Stored DEF CacheInv, LogOK
      <4>2. Gone(k, it)'
        BY <1>2, <4>1 DEF Gone
      <4> QED  BY <1>2, <1>3, <1>6, <3>2, <4>2 DEF ItemOK
    <3> QED  BY <1>4, <3>1, <3>2
  <2> QED  BY <2>1 DEF ItemsOK
<1>10. RequestsOK'
  <2>1. ASSUME NEW d \in Clients PROVE RequestOK(request[d])'
    <3>1. CASE d = c
      BY <1>1, <3>1, IdleRequest DEF RequestOK, Pcs
    <3>2. CASE d # c
      <4>1. RequestOK(request[d]) /\ request'[d] = request[d]
        BY <1>1, <3>2 DEF CacheInv, RequestsOK
      <4>2. request[d].at # "delete"
        BY <1>2, <4>1 DEF RequestOK
      <4>3. request[d].at = "entry" => request[d].serial \notin Serials'
        BY <1>2, <1>5, <3>2, <4>1 DEF RequestOK, CacheInv, OwnMarks
      <4> QED  BY <1>2, <1>3, <4>1, <4>2, <4>3, RequestKept, Stored
    <3> QED  BY <3>1, <3>2
  <2> QED  BY <2>1 DEF RequestsOK
<1>11. OwnMarks'
  <2>1. \A f, g \in finished' : f[1] = g[1] => f[2] = g[2]
    BY <1>2, <1>3 DEF CacheInv, OwnMarks, Serials
  <2>2. ASSUME NEW d \in Clients, request'[d].at = "stamp" PROVE Unwritten(request[d].gen)'
    <3>1. request'[d] = request[d] /\ Unwritten(request[d].gen) /\ request[d].gen # r.gen
      BY <1>1, <1>2, <2>2, IdleRequest DEF CacheInv, OwnMarks, Unwritten
    <3>2. \A k \in CacheKeys : \A it \in ReadableItems(k)' : it.gen # request[d].gen
      BY <1>4, <1>6, <3>1 DEF Unwritten
    <3> QED  BY <1>1, <1>2, <3>1, <3>2, IdleRequest DEF Unwritten
  <2>3. \A d, e \in Clients :
          /\ d # e /\ request'[d].at = "entry" /\ request'[e].at = "entry" =>
               request'[d].serial # request'[e].serial
          /\ d # e /\ request'[d].at = "stamp" /\ request'[e].at = "stamp" =>
               request'[d].gen # request'[e].gen
    BY <1>1, IdleRequest DEF CacheInv, OwnMarks
  <2> QED  BY <2>1, <2>2, <2>3 DEF OwnMarks
<1>12. BannedOut' /\ EvictedStayOut'
  BY <1>2 DEF CacheInv, BannedOut, EvictedStayOut
<1> QED  BY <1>7, <1>8, <1>9, <1>10, <1>11, <1>12 DEF CacheInv

LEMMA RedisPutKeeps ==
  ASSUME CacheInv, NEW c \in Clients, NEW k \in CacheKeys, RedisPut(c, k)
  PROVE  CacheInv'
<1> DEFINE new == [gen |-> 0, serial |-> puts + 1]
<1>1. /\ backend = "redis" /\ puts' = puts + 1 /\ puts \in Nat /\ invalidations \in Nat
      /\ UNCHANGED <<backend, older, gens, reached, request, invalidations, banned, answer>>
  BY Stored DEF RedisPut
<1>2. /\ entries' = [entries EXCEPT ![k] = new]
      /\ finished' = finished \cup {<<puts + 1, k>>}
  BY DEF RedisPut
<1>3. /\ new \in StoredItem /\ new.gen = 0 /\ new.serial = puts + 1
      /\ entries'[k] = new /\ \A j \in CacheKeys : j # k => entries'[j] = entries[j]
      /\ entries' \in [CacheKeys -> StoredItem \cup {Nil}]
  BY <1>1, <1>2 DEF CacheInv, Typed, StoredItem
<1>4. /\ Serials' = Serials \cup {puts + 1} /\ \A n : Returned(n) \subseteq Returned(n)'
      /\ puts + 1 \notin Serials
  <2>1. puts + 1 \notin Serials
    BY <1>1, Stored
  <2> QED  BY <1>2, <2>1, Returning
<1>5. \A d \in Clients : request[d].at \in {"idle", "delete"}
  BY <1>1 DEF CacheInv, RequestsOK, RequestOK, Pcs
<1>6. \A j \in CacheKeys : \A it \in ReadableItems(j)' :
        it \in ReadableItems(j) \/ (j = k /\ it = new)
  BY <1>1, <1>3 DEF ReadableItems
<1>7. Typed' /\ LogOK'
  <2>1. finished' \subseteq (1 .. puts') \X CacheKeys
    BY <1>1, <1>2 DEF CacheInv, Typed
  <2>2. Typed'
    BY <1>1, <1>3, <1>4, <2>1 DEF CacheInv, Typed
  <2>3. \A n \in Spaces : \A j \in 1 .. Len(gens[n]) : gens[n][j].evicts \subseteq Returned(n)'
    BY <1>4 DEF CacheInv, LogOK
  <2>4. LogOK'
    BY <1>1, <2>3 DEF CacheInv, LogOK
  <2> QED  BY <2>2, <2>4
<1>8. ItemsOK'
  <2>1. ASSUME NEW j \in CacheKeys, NEW it \in ReadableItems(j)' PROVE ItemOK(j, it)'
    <3>1. CASE it \in ReadableItems(j)
      <4>1. ItemOK(j, it)
        BY <3>1 DEF CacheInv, ItemsOK
      <4> QED  BY <1>1, <1>2, <4>1, ItemKept, Stored
    <3>2. CASE j = k /\ it = new
      BY <1>1, <1>2, <1>3, <3>2 DEF ItemOK
    <3> QED  BY <1>6, <3>1, <3>2
  <2> QED  BY <2>1 DEF ItemsOK
<1>9. RequestsOK'
  <2>1. ASSUME NEW d \in Clients PROVE RequestOK(request[d])'
    <3>1. RequestOK(request[d]) /\ request'[d] = request[d]
      BY <1>1 DEF CacheInv, RequestsOK
    <3>2. request[d].at = "delete" => Listed(request[d])'
      <4>1. request[d].at = "delete" => puts + 1 \notin request[d].evicts
        BY <1>4, <3>1, Stored DEF RequestOK
      <4> QED  BY <1>3, <3>1, <4>1 DEF RequestOK, Listed
    <3>3. request[d].at # "entry"
      BY <1>5
    <3> QED  BY <1>1, <1>2, <3>1, <3>2, <3>3, RequestKept, Stored
  <2> QED  BY <2>1 DEF RequestsOK
<1>10. OwnMarks'
  <2>1. \A f, g \in finished' : f[1] = g[1] => f[2] = g[2]
    BY <1>2, <1>4 DEF CacheInv, OwnMarks, Serials
  <2> QED  BY <1>1, <1>5, <2>1 DEF OwnMarks
<1>11. BannedOut'
  <2>1. puts + 1 \notin banned
    BY <1>4, Stored
  <2> QED  BY <1>1, <1>3, <2>1 DEF CacheInv, BannedOut
<1>12. EvictedStayOut'
  BY <1>1 DEF CacheInv, EvictedStayOut
<1> QED  BY <1>7, <1>8, <1>9, <1>10, <1>11, <1>12 DEF CacheInv

(* The generation an invalidation takes is none of those in use.           *)
LEMMA StampKeeps ==
  ASSUME CacheInv, NEW c \in Clients, NEW n \in Spaces, Stamp(c, n)
  PROVE  CacheInv'
<1> DEFINE g == invalidations + 1
           r == [NoRequest EXCEPT !.at = "stamp", !.space = n, !.gen = g, !.evicts = Returned(n)]
<1>1. r.at = "stamp" /\ r.space = n /\ r.gen = g /\ r.evicts = Returned(n)
  BY DEF NoRequest
<1>2. request' = [request EXCEPT ![c] = r]
  BY DEF Stamp, NextGeneration
<1> HIDE DEF r
<1>3. /\ DOMAIN request' = Clients /\ request' = [d \in Clients |-> request'[d]]
      /\ request'[c] = r
      /\ \A d \in Clients : d # c => request'[d] = request[d]
  BY <1>2, OthersKept DEF CacheInv
<1>4. /\ backend = "dynamodb" /\ invalidations' = g /\ invalidations \in Nat /\ g \in Nat
      /\ UNCHANGED <<backend, entries, older, gens, reached, puts, finished, banned, answer>>
  BY Stored DEF Stamp
<1>5. Serials' = Serials /\ \A m : Returned(m)' = Returned(m)
  BY <1>4 DEF Serials, Returned
<1>6. \A j \in CacheKeys : ReadableItems(j)' = ReadableItems(j)
  BY <1>4 DEF ReadableItems
<1>7. /\ \A m \in Spaces : \A j \in 1 .. Len(gens[m]) : gens[m][j].gen \in Nat /\ gens[m][j].gen < g
      /\ \A k \in CacheKeys : \A it \in ReadableItems(k) : it.gen \in Nat /\ it.gen < g
      /\ \A d \in Clients :
           /\ request[d].at \in {"entry", "stamp"} => request[d].gen \in Nat /\ request[d].gen < g
           /\ request[d].at = "generation" => request[d].item.gen \in Nat /\ request[d].item.gen < g
  <2>1. \A m \in Spaces : \A j \in 1 .. Len(gens[m]) : gens[m][j].gen \in Nat /\ gens[m][j].gen < g
    BY <1>4, Stored DEF CacheInv, LogOK, Generation
  <2>2. \A k \in CacheKeys : \A it \in ReadableItems(k) : it.gen \in Nat /\ it.gen < g
    <3>1. ASSUME NEW k \in CacheKeys, NEW it \in ReadableItems(k)
          PROVE  it.gen \in Nat /\ it.gen < g
      <4>1. it \in StoredItem /\ it.gen <= invalidations
        BY DEF CacheInv, ItemsOK, ItemOK
      <4>2. it.gen \in Nat
        BY <4>1 DEF StoredItem
      <4> QED  BY <1>4, <4>1, <4>2
    <3> QED  BY <3>1
  <2>3. \A d \in Clients :
          /\ request[d].at \in {"entry", "stamp"} => request[d].gen \in Nat /\ request[d].gen < g
          /\ request[d].at = "generation" => request[d].item.gen \in Nat /\ request[d].item.gen < g
    <3>1. ASSUME NEW d \in Clients, request[d].at \in {"entry", "stamp"}
          PROVE  request[d].gen \in Nat /\ request[d].gen < g
      <4>1. request[d].gen \in Nat /\ request[d].gen <= invalidations
        BY <3>1 DEF CacheInv, RequestsOK, RequestOK
      <4> QED  BY <1>4, <4>1
    <3>2. ASSUME NEW d \in Clients, request[d].at = "generation"
          PROVE  request[d].item.gen \in Nat /\ request[d].item.gen < g
      <4>1. request[d].item \in StoredItem /\ request[d].item.gen <= invalidations
        BY <3>2 DEF CacheInv, RequestsOK, RequestOK, ItemOK
      <4>2. request[d].item.gen \in Nat
        BY <4>1 DEF StoredItem
      <4> QED  BY <1>4, <4>1, <4>2
    <3> QED  BY <3>1, <3>2
  <2> QED  BY <2>1, <2>2, <2>3
<1>8. Typed'
  BY <1>3, <1>4, <1>5 DEF CacheInv, Typed
<1>9. LogOK'
  BY <1>4, <1>5, <1>7 DEF CacheInv, LogOK
<1>10. ItemsOK'
  <2>1. ASSUME NEW j \in CacheKeys, NEW x \in ReadableItems(j)' PROVE ItemOK(j, x)'
    <3>1. ItemOK(j, x)
      BY <1>6, <2>1 DEF CacheInv, ItemsOK
    <3> QED  BY <1>4, <3>1, ItemKept, Stored
  <2> QED  BY <2>1 DEF ItemsOK
<1>11. RequestsOK'
  <2>1. ASSUME NEW d \in Clients PROVE RequestOK(request[d])'
    <3>1. CASE d = c
      BY <1>1, <1>3, <1>4, <1>5, <3>1 DEF RequestOK, Pcs
    <3>2. CASE d # c
      <4>1. RequestOK(request[d]) /\ request'[d] = request[d]
        BY <1>3, <3>2 DEF CacheInv, RequestsOK
      <4>2. request[d].at = "delete" => Listed(request[d])'
        BY <1>4, <4>1 DEF RequestOK
      <4>3. request[d].at = "entry" => request[d].serial \notin Serials'
        BY <4>1, <1>5 DEF RequestOK
      <4> QED  BY <1>4, <4>1, <4>2, <4>3, RequestKept, Stored
    <3> QED  BY <3>1, <3>2
  <2> QED  BY <2>1 DEF RequestsOK
<1>12. OwnMarks'
  <2>1. ASSUME NEW d \in Clients, request'[d].at = "stamp" PROVE Unwritten(request[d].gen)'
    <3>1. CASE d = c
      BY <1>1, <1>3, <1>4, <1>6, <1>7, <3>1 DEF Unwritten
    <3>2. CASE d # c
      BY <1>1, <1>3, <1>4, <1>6, <2>1, <3>2 DEF CacheInv, OwnMarks, Unwritten
    <3> QED  BY <3>1, <3>2
  <2>2. \A d, e \in Clients :
          /\ d # e /\ request'[d].at = "entry" /\ request'[e].at = "entry" =>
               request'[d].serial # request'[e].serial
          /\ d # e /\ request'[d].at = "stamp" /\ request'[e].at = "stamp" =>
               request'[d].gen # request'[e].gen
    BY <1>1, <1>3, <1>4, <1>7 DEF CacheInv, OwnMarks
  <2>3. \A f, h \in finished' : f[1] = h[1] => f[2] = h[2]
    BY <1>4 DEF CacheInv, OwnMarks
  <2> QED  BY <2>1, <2>2, <2>3 DEF OwnMarks
<1>13. BannedOut' /\ EvictedStayOut'
  BY <1>4 DEF CacheInv, BannedOut, EvictedStayOut
<1> QED  BY <1>8, <1>9, <1>10, <1>11, <1>12, <1>13 DEF CacheInv

(* The log grows at its end.                                               *)
LEMMA LogGrows ==
  ASSUME CacheInv, NEW c \in Clients, WriteGeneration(c)
  PROVE  LET n == request[c].space
             L == Len(gens[n])
         IN /\ gens' \in [Spaces -> Seq(Generation)]
            /\ \A m \in Spaces : m # n => gens'[m] = gens[m]
            /\ L \in Nat /\ Len(gens'[n]) = L + 1
            /\ \A j \in 1 .. L : gens'[n][j] = gens[n][j]
            /\ gens'[n][L + 1].gen = request[c].gen
            /\ gens'[n][L + 1].evicts = request[c].evicts
<1> DEFINE n == request[c].space
           L == Len(gens[n])
           entry == [gen |-> request[c].gen, evicts |-> request[c].evicts]
<1>1. n \in Spaces /\ request[c].gen \in Nat /\ request[c].evicts \subseteq Serials
  BY Stored DEF WriteGeneration, CacheInv, RequestsOK, RequestOK
<1>2. entry \in Generation
  BY <1>1, Stored DEF Generation
<1>3. gens' = [gens EXCEPT ![n] = Append(gens[n], entry)]
  BY DEF WriteGeneration
<1>4. gens[n] \in Seq(Generation) /\ L \in Nat
  BY <1>1, Stored
<1>5. /\ Append(gens[n], entry) \in Seq(Generation) /\ Len(Append(gens[n], entry)) = L + 1
      /\ \A j \in 1 .. L : Append(gens[n], entry)[j] = gens[n][j]
      /\ Append(gens[n], entry)[L + 1] = entry
  BY <1>2, <1>4
<1>6. /\ gens' \in [Spaces -> Seq(Generation)] /\ gens'[n] = Append(gens[n], entry)
      /\ \A m \in Spaces : m # n => gens'[m] = gens[m]
  BY <1>1, <1>3, <1>5 DEF CacheInv, Typed
<1> QED  BY <1>4, <1>5, <1>6

LEMMA WriteGenerationKeeps ==
  ASSUME CacheInv, NEW c \in Clients, WriteGeneration(c)
  PROVE  CacheInv'
<1> DEFINE r == request[c]
           n == r.space
           L == Len(gens[n])
<1>1. /\ DOMAIN request' = Clients /\ request' = [d \in Clients |-> request'[d]]
      /\ request'[c] = NoRequest
      /\ \A d \in Clients : d # c => request'[d] = request[d]
  BY OthersKept DEF WriteGeneration, CacheInv
<1>2. /\ r.at = "stamp" /\ n \in Spaces /\ r.gen \in Nat /\ r.gen <= invalidations
      /\ backend = "dynamodb" /\ Unwritten(r.gen) /\ r.evicts \subseteq Returned(n)
      /\ UNCHANGED <<backend, entries, older, reached, puts, invalidations, finished, banned, answer>>
  BY DEF WriteGeneration, CacheInv, RequestsOK, RequestOK, OwnMarks
<1>3. /\ gens' \in [Spaces -> Seq(Generation)]
      /\ \A m \in Spaces : m # n => gens'[m] = gens[m]
      /\ L \in Nat /\ Len(gens'[n]) = L + 1
      /\ \A j \in 1 .. L : gens'[n][j] = gens[n][j]
      /\ gens'[n][L + 1].gen = r.gen /\ gens'[n][L + 1].evicts = r.evicts
  BY LogGrows
<1>4. Serials' = Serials /\ \A m : Returned(m)' = Returned(m)
  BY <1>2 DEF Serials, Returned
<1>5. \A k \in CacheKeys : ReadableItems(k)' = ReadableItems(k)
  BY <1>2 DEF ReadableItems
<1>6. Typed'
  BY <1>1, <1>2, <1>3, <1>4 DEF CacheInv, Typed
<1>7. LogOK'
  <2>1. ASSUME NEW m \in Spaces
        PROVE  /\ reached[m] \in 1 .. Len(gens'[m])
               /\ \A j \in 1 .. Len(gens'[m]) :
                    gens'[m][j].gen <= invalidations /\ gens'[m][j].evicts \subseteq Returned(m)
    <3>0. /\ reached[m] \in 1 .. Len(gens[m])
          /\ \A j \in 1 .. Len(gens[m]) :
               gens[m][j].gen <= invalidations /\ gens[m][j].evicts \subseteq Returned(m)
      BY DEF CacheInv, LogOK
    <3>1. CASE m # n
      BY <1>3, <3>0, <3>1
    <3>2. CASE m = n
      <4>1. reached[m] \in 1 .. L + 1
        BY <1>3, <3>0, <3>2
      <4>2. ASSUME NEW j \in 1 .. L + 1
            PROVE  gens'[n][j].gen <= invalidations /\ gens'[n][j].evicts \subseteq Returned(n)
        <5>1. CASE j = L + 1
          BY <1>2, <1>3, <5>1
        <5>2. CASE j # L + 1
          <6>1. j \in 1 .. L
            BY <1>3, <5>2
          <6>2. gens'[n][j] = gens[n][j]
            BY <1>3, <6>1
          <6> QED  BY <3>0, <3>2, <6>1, <6>2
        <5> QED  BY <5>1, <5>2
      <4> QED  BY <1>3, <3>2, <4>1, <4>2
    <3> QED  BY <3>1, <3>2
  <2> QED  BY <1>2, <1>4, <2>1 DEF LogOK
<1>8. ASSUME NEW k, SpaceOf[k] \in Spaces, NEW it, it.gen # r.gen, Gone(k, it)
      PROVE  Gone(k, it)'
  <2>1. CASE SpaceOf[k] # n
    BY <1>3, <1>8, <2>1 DEF Gone
  <2>2. CASE SpaceOf[k] = n
    <3>1. ASSUME NEW j \in 1 .. Len(gens'[n]), NEW i \in j .. Len(gens'[n]),
                 it.serial \in gens'[n][j].evicts
          PROVE  gens'[n][i].gen # it.gen
      <4>1. CASE i = L + 1
        BY <1>3, <1>8, <4>1
      <4>2. CASE i # L + 1
        <5>1. j \in 1 .. L /\ i \in j .. L /\ i \in 1 .. L
          BY <1>3, <4>2
        <5>2. gens'[n][i] = gens[n][i] /\ gens'[n][j] = gens[n][j]
          BY <1>3, <5>1
        <5>3. it.serial \in gens[n][j].evicts => gens[n][i].gen # it.gen
          BY <1>8, <2>2, <5>1 DEF Gone
        <5> QED  BY <3>1, <5>2, <5>3
      <4> QED  BY <4>1, <4>2
    <3> QED  BY <2>2, <3>1 DEF Gone
  <2> QED  BY <2>1, <2>2
<1>9. ItemsOK'
  <2>1. ASSUME NEW k \in CacheKeys, NEW it \in ReadableItems(k)' PROVE ItemOK(k, it)'
    <3>1. ItemOK(k, it) /\ it.gen # r.gen
      BY <1>2, <1>5, <2>1 DEF CacheInv, ItemsOK, Unwritten
    <3>2. Gone(k, it)'
      BY <1>2, <1>8, <3>1, Stored DEF ItemOK
    <3> QED  BY <1>2, <3>1, <3>2 DEF ItemOK
  <2> QED  BY <2>1 DEF ItemsOK
<1>10. RequestsOK'
  <2>1. ASSUME NEW d \in Clients PROVE RequestOK(request[d])'
    <3>1. CASE d = c
      BY <1>1, <3>1, IdleRequest DEF RequestOK, Pcs
    <3>2. CASE d # c
      <4>1. RequestOK(request[d]) /\ request'[d] = request[d]
        BY <1>1, <3>2 DEF CacheInv, RequestsOK
      <4>2. CASE request[d].at = "generation"
        <5> DEFINE k == request[d].key
                   it == request[d].item
        <5>1. /\ k \in CacheKeys /\ it \in StoredItem /\ it.gen <= invalidations
              /\ <<it.serial, k>> \in finished /\ Gone(k, it) /\ request[d].bans \subseteq banned
              /\ it.gen # r.gen /\ SpaceOf[k] \in Spaces
          BY <1>2, <4>1, <4>2, Stored DEF RequestOK, ItemOK, Unwritten
        <5>2. Gone(request[d].key, request[d].item)'
          <6>1. PICK x, y : x = k /\ y = it
            OBVIOUS
          <6>2. Gone(x, y)'
            BY <1>8, <5>1, <6>1
          <6> QED  BY <4>1, <6>1, <6>2 DEF Gone
        <5>3. ItemOK(request[d].key, request[d].item)'
          BY <1>2, <4>1, <5>1, <5>2 DEF ItemOK
        <5> QED  BY <1>2, <4>1, <4>2, <5>1, <5>3 DEF RequestOK, Pcs
      <4>3. CASE request[d].at # "generation"
        BY <1>2, <1>4, <4>1, <4>3 DEF RequestOK
      <4> QED  BY <4>2, <4>3
    <3> QED  BY <3>1, <3>2
  <2> QED  BY <2>1 DEF RequestsOK
<1>11. OwnMarks'
  <2>1. ASSUME NEW d \in Clients, request'[d].at = "stamp" PROVE Unwritten(request[d].gen)'
    <3>1. d # c /\ request'[d] = request[d] /\ Unwritten(request[d].gen) /\ request[d].gen # r.gen
      BY <1>1, <1>2, <2>1, IdleRequest DEF CacheInv, OwnMarks
    <3>2. \A m \in Spaces : \A j \in 1 .. Len(gens'[m]) : gens'[m][j].gen # request[d].gen
      <4>1. \A j \in 1 .. L + 1 : j \in 1 .. L \/ j = L + 1
        BY <1>3
      <4> QED  BY <1>2, <1>3, <3>1, <4>1 DEF Unwritten
    <3> QED  BY <1>1, <1>5, <3>1, <3>2, IdleRequest DEF Unwritten
  <2>2. \A d, e \in Clients :
          /\ d # e /\ request'[d].at = "entry" /\ request'[e].at = "entry" =>
               request'[d].serial # request'[e].serial
          /\ d # e /\ request'[d].at = "stamp" /\ request'[e].at = "stamp" =>
               request'[d].gen # request'[e].gen
    BY <1>1, IdleRequest DEF CacheInv, OwnMarks
  <2>3. \A f, g \in finished' : f[1] = g[1] => f[2] = g[2]
    BY <1>2 DEF CacheInv, OwnMarks
  <2> QED  BY <2>1, <2>2, <2>3 DEF OwnMarks
<1>12. BannedOut'
  <2>1. ASSUME NEW x \in banned
        PROVE  \E m \in Spaces : \E j \in 1 .. reached[m] : x \in gens'[m][j].evicts
    <3>0. PICK m \in Spaces : \E j \in 1 .. reached[m] : x \in gens[m][j].evicts
      BY <1>2 DEF CacheInv, BannedOut
    <3>1. PICK j \in 1 .. reached[m] : x \in gens[m][j].evicts
      BY <3>0
    <3>2. reached[m] \in 1 .. Len(gens[m]) /\ Len(gens[m]) \in Nat
      BY Stored DEF CacheInv, LogOK
    <3>3. gens'[m][j] = gens[m][j]
      BY <1>3, <3>2
    <3> QED  BY <3>1, <3>3
  <2> QED  BY <1>2, <2>1 DEF BannedOut
<1>13. EvictedStayOut'
  BY <1>2 DEF CacheInv, EvictedStayOut
<1> QED  BY <1>6, <1>7, <1>9, <1>10, <1>11, <1>12, <1>13 DEF CacheInv

LEMMA GenerationReachesKeeps ==
  ASSUME CacheInv, NEW n \in Spaces, GenerationReaches(n)
  PROVE  CacheInv'
<1> DEFINE R == reached[n] + 1
<1>1. /\ reached[n] < Len(gens[n]) /\ reached' = [reached EXCEPT ![n] = R]
      /\ banned' = banned \cup EvictedBy(n, R)
      /\ UNCHANGED <<backend, entries, older, gens, request, puts, invalidations, finished,
                     answer>>
  BY DEF GenerationReaches
<1>2. /\ reached \in [Spaces -> Nat] /\ reached[n] \in 1 .. Len(gens[n]) /\ Len(gens[n]) \in Nat
      /\ R \in 1 .. Len(gens[n])
  BY <1>1, Stored DEF CacheInv, Typed, LogOK
<1>3. Serials' = Serials /\ \A m : Returned(m)' = Returned(m)
  BY <1>1 DEF Serials, Returned
<1>4. \A x \in EvictedBy(n, R) : \E j \in 1 .. R : x \in gens[n][j].evicts
  BY DEF EvictedBy
<1>5. EvictedBy(n, R) \subseteq Serials
  BY <1>2, <1>4, Stored DEF CacheInv, LogOK
<1>6. Typed' /\ LogOK'
  <2>1. Typed'
    BY <1>1, <1>2, <1>3, <1>5 DEF CacheInv, Typed
  <2>2. LogOK'
    BY <1>1, <1>2, <1>3 DEF CacheInv, LogOK
  <2> QED  BY <2>1, <2>2
<1>7. ItemsOK' /\ OwnMarks'
  BY <1>1 DEF CacheInv, ItemsOK, ItemOK, Gone, ReadableItems, OwnMarks, Unwritten
<1>8. RequestsOK'
  <2> SUFFICES ASSUME NEW c \in Clients  PROVE RequestOK(request[c])'
    BY DEF RequestsOK
  <2>1. RequestOK(request[c])
    BY DEF CacheInv, RequestsOK
  <2>2. banned \subseteq banned' /\ request'[c] = request[c]
    BY <1>1
  <2>3. UNCHANGED <<backend, entries, gens, puts, invalidations, finished>>
    BY <1>1
  <2> QED  BY <1>3, <2>1, <2>2, <2>3 DEF RequestOK, ItemOK, Gone, Listed
<1>9. BannedOut'
  <2>1. CASE backend = "dynamodb"
    <3>1. ASSUME NEW x \in banned'
          PROVE  \E m \in Spaces : \E j \in 1 .. reached'[m] : x \in gens[m][j].evicts
      <4>1. CASE x \in EvictedBy(n, R)
        BY <1>1, <1>2, <1>4, <4>1
      <4>2. CASE x \in banned
        <5>0. PICK m \in Spaces : \E j \in 1 .. reached[m] : x \in gens[m][j].evicts
          BY <2>1, <4>2 DEF CacheInv, BannedOut
        <5>1. PICK j \in 1 .. reached[m] : x \in gens[m][j].evicts
          BY <5>0
        <5>2. j \in 1 .. reached'[m]
          BY <1>1, <1>2
        <5> QED  BY <5>1, <5>2
      <4> QED  BY <1>1, <3>1, <4>1, <4>2
    <3> QED  BY <1>1, <2>1, <3>1 DEF BannedOut
  <2>2. CASE backend # "dynamodb"
    BY <1>1, <1>2, <2>2 DEF CacheInv, Typed, LogOK
  <2> QED  BY <2>1, <2>2
<1>10. EvictedStayOut'
  BY <1>1 DEF CacheInv, EvictedStayOut
<1> QED  BY <1>6, <1>7, <1>8, <1>9, <1>10 DEF CacheInv

LEMMA EntryReachesKeeps ==
  ASSUME CacheInv, NEW k \in CacheKeys, EntryReaches(k)
  PROVE  CacheInv'
<1>1. /\ older' = [older EXCEPT ![k] = {}]
      /\ UNCHANGED <<backend, entries, gens, reached, request, puts, invalidations, finished,
                     banned, answer>>
  BY DEF EntryReaches
<1>2. /\ older' \in [CacheKeys -> SUBSET StoredItem]
      /\ \A j \in CacheKeys : older'[j] \subseteq older[j]
  BY <1>1 DEF CacheInv, Typed
<1>3. Typed' /\ LogOK' /\ ItemsOK' /\ RequestsOK' /\ OwnMarks'
  BY <1>1, <1>2, Fewer, Stored DEF CacheInv, Typed
<1>4. BannedOut' /\ EvictedStayOut'
  BY <1>1 DEF CacheInv, BannedOut, EvictedStayOut
<1> QED  BY <1>3, <1>4 DEF CacheInv

(* What has returned in a namespace and is there is listed by the scan.    *)
LEMMA RedisScanKeeps ==
  ASSUME CacheInv, NEW c \in Clients, NEW n \in Spaces, RedisScan(c, n)
  PROVE  CacheInv'
<1> DEFINE there == {k \in KeysOf(n) : entries[k] # Nil}
           r == [NoRequest EXCEPT !.at = "delete", !.space = n, !.evicts = Returned(n), !.keys = there]
<1>1. r.at = "delete" /\ r.space = n /\ r.evicts = Returned(n) /\ r.keys = there
  BY DEF NoRequest
<1>2. request' = [request EXCEPT ![c] = r]
  BY DEF RedisScan
<1> HIDE DEF r
<1>3. /\ DOMAIN request' = Clients /\ request' = [d \in Clients |-> request'[d]]
      /\ request'[c] = r
      /\ \A d \in Clients : d # c => request'[d] = request[d]
  BY <1>2, OthersKept DEF CacheInv
<1>4. /\ backend = "redis" /\ invalidations' = invalidations + 1 /\ invalidations \in Nat
      /\ UNCHANGED <<backend, entries, older, gens, reached, puts, finished, banned, answer>>
  BY Stored DEF RedisScan
<1>5. Serials' = Serials /\ \A m : Returned(m)' = Returned(m)
  BY <1>4 DEF Serials, Returned
<1>6. \A j \in CacheKeys : ReadableItems(j)' = ReadableItems(j)
  BY <1>4 DEF ReadableItems
<1>7. Typed' /\ LogOK'
  <2>1. \A m \in Spaces : \A j \in 1 .. Len(gens[m]) : gens[m][j].gen <= invalidations + 1
    BY <1>4, Stored DEF CacheInv, LogOK, Generation
  <2> QED  BY <1>3, <1>4, <1>5, <2>1 DEF CacheInv, Typed, LogOK
<1>8. ItemsOK'
  <2>1. ASSUME NEW j \in CacheKeys, NEW x \in ReadableItems(j)' PROVE ItemOK(j, x)'
    <3>1. ItemOK(j, x)
      BY <1>6, <2>1 DEF CacheInv, ItemsOK
    <3> QED  BY <1>4, <3>1, ItemKept, Stored
  <2> QED  BY <2>1 DEF ItemsOK
<1>9. RequestsOK'
  <2>1. ASSUME NEW d \in Clients PROVE RequestOK(request[d])'
    <3>1. CASE d = c
      <4>1. ASSUME NEW k \in CacheKeys, entries[k] # Nil, entries[k].serial \in Returned(n)
            PROVE  k \in there
        <5>1. PICK f \in finished : f[1] = entries[k].serial /\ SpaceOf[f[2]] = n
          BY <4>1 DEF Returned
        <5>2. <<entries[k].serial, k>> \in finished
          BY <4>1 DEF CacheInv, ItemsOK, ItemOK, ReadableItems
        <5>3. f[2] = k
          BY <5>1, <5>2 DEF CacheInv, OwnMarks
        <5> QED  BY <4>1, <5>1, <5>3 DEF KeysOf
      <4>2. Listed(request[d])'
        BY <1>1, <1>3, <1>4, <3>1, <4>1 DEF Listed
      <4> QED  BY <1>1, <1>3, <1>4, <1>5, <3>1, <4>2 DEF RequestOK, Pcs
    <3>2. CASE d # c
      <4>1. RequestOK(request[d]) /\ request'[d] = request[d]
        BY <1>3, <3>2 DEF CacheInv, RequestsOK
      <4>2. request[d].at = "delete" => Listed(request[d])'
        BY <1>4, <4>1 DEF RequestOK, Listed
      <4>3. request[d].at = "entry" => request[d].serial \notin Serials'
        BY <4>1, <1>5 DEF RequestOK
      <4> QED  BY <1>4, <4>1, <4>2, <4>3, RequestKept, Stored
    <3> QED  BY <3>1, <3>2
  <2> QED  BY <2>1 DEF RequestsOK
<1>10. OwnMarks'
  BY <1>1, <1>3, <1>4, <1>6 DEF CacheInv, OwnMarks, Unwritten
<1>11. BannedOut' /\ EvictedStayOut'
  BY <1>4 DEF CacheInv, BannedOut, EvictedStayOut
<1> QED  BY <1>7, <1>8, <1>9, <1>10, <1>11 DEF CacheInv

LEMMA RedisDeleteKeeps ==
  ASSUME CacheInv, NEW c \in Clients, NEW behind \in SUBSET CacheKeys, RedisDelete(c, behind)
  PROVE  CacheInv'
<1> DEFINE r == request[c]
<1>1. /\ DOMAIN request' = Clients /\ request' = [d \in Clients |-> request'[d]]
      /\ request'[c] = NoRequest
      /\ \A d \in Clients : d # c => request'[d] = request[d]
  BY OthersKept DEF RedisDelete, CacheInv
<1>2. /\ r.at = "delete" /\ backend = "redis" /\ r.evicts \subseteq Serials /\ Listed(r)
      /\ banned' = banned \cup r.evicts
      /\ UNCHANGED <<backend, older, gens, reached, puts, invalidations, finished, answer>>
  BY Stored DEF RedisDelete, CacheInv, RequestsOK, RequestOK
<1>3. /\ entries' \in [CacheKeys -> StoredItem \cup {Nil}]
      /\ \A k \in CacheKeys : entries'[k] # Nil => entries'[k] = entries[k] /\ k \notin r.keys
  BY DEF RedisDelete, CacheInv, Typed
<1>4. Typed' /\ LogOK' /\ ItemsOK' /\ RequestsOK' /\ OwnMarks'
  BY <1>1, <1>2, <1>3, Fewer, Stored DEF CacheInv, Typed
<1>5. BannedOut'
  BY <1>2, <1>3 DEF CacheInv, BannedOut, Listed
<1>6. EvictedStayOut'
  BY <1>2 DEF CacheInv, EvictedStayOut
<1> QED  BY <1>4, <1>5, <1>6 DEF CacheInv

LEMMA EntryExpiresKeeps ==
  ASSUME CacheInv, NEW k \in CacheKeys, EntryExpires(k)
  PROVE  CacheInv'
<1>1. UNCHANGED <<backend, older, gens, reached, request, puts, invalidations, finished,
                  banned, answer>>
  BY DEF EntryExpires
<1>2. /\ entries' \in [CacheKeys -> StoredItem \cup {Nil}]
      /\ \A j \in CacheKeys : entries'[j] # Nil => entries'[j] = entries[j]
  BY DEF EntryExpires, CacheInv, Typed
<1>3. Typed' /\ LogOK' /\ ItemsOK' /\ RequestsOK' /\ OwnMarks'
  BY <1>1, <1>2, Fewer, Stored DEF CacheInv, Typed
<1>4. BannedOut' /\ EvictedStayOut'
  BY <1>1, <1>2 DEF CacheInv, BannedOut, EvictedStayOut
<1> QED  BY <1>3, <1>4 DEF CacheInv

LEMMA StutterKeeps ==
  ASSUME CacheInv, UNCHANGED shvars
  PROVE  CacheInv'
<1>1. Typed' /\ LogOK' /\ ItemsOK' /\ RequestsOK' /\ OwnMarks'
  BY Fewer, Stored DEF CacheInv, Typed, shvars
<1> QED  BY <1>1 DEF shvars, CacheInv, BannedOut, EvictedStayOut

LEMMA CacheInductive == CacheInv /\ [SharedCacheNext]_shvars => CacheInv'
<1> SUFFICES ASSUME CacheInv, [SharedCacheNext]_shvars PROVE CacheInv'
  OBVIOUS
<1>1. ASSUME NEW c \in Clients, NEW k \in CacheKeys,
             GetItem(c, k) \/ RedisGet(c, k) \/ PutGeneration(c, k) \/ RedisPut(c, k)
      PROVE  CacheInv'
  BY <1>1, GetItemKeeps, RedisGetKeeps, PutGenerationKeeps, RedisPutKeeps
<1>2. ASSUME NEW c \in Clients, NEW n \in Spaces, Stamp(c, n) \/ RedisScan(c, n)
      PROVE  CacheInv'
  BY <1>2, StampKeeps, RedisScanKeeps
<1>3. ASSUME NEW c \in Clients, GetGeneration(c) \/ PutEntry(c) \/ WriteGeneration(c)
      PROVE  CacheInv'
  BY <1>3, GetGenerationKeeps, PutEntryKeeps, WriteGenerationKeeps
<1>4. ASSUME NEW c \in Clients, NEW behind \in SUBSET CacheKeys, RedisDelete(c, behind)
      PROVE  CacheInv'
  BY <1>4, RedisDeleteKeeps
<1>5. ASSUME NEW k \in CacheKeys, EntryReaches(k) \/ EntryExpires(k)
      PROVE  CacheInv'
  BY <1>5, EntryReachesKeeps, EntryExpiresKeeps
<1>6. ASSUME NEW n \in Spaces, GenerationReaches(n)
      PROVE  CacheInv'
  BY <1>6, GenerationReachesKeeps
<1>7. CASE UNCHANGED shvars  BY <1>7, StutterKeeps
<1> QED  BY <1>1, <1>2, <1>3, <1>4, <1>5, <1>6, <1>7 DEF SharedCacheNext

(* Once an invalidation has returned and has reached every copy of the     *)
(* table, no get that begins later is answered with a result whose put had *)
(* returned before the invalidation began (DynamoDBCache and RedisCache of *)
(* src/dynavec/cache.py), for any callers, keys, puts and invalidations.   *)
THEOREM EvictionsAreFinal == SharedCacheSpec => []EvictedStayOut
<1>1. CacheInv => EvictedStayOut
  BY DEF CacheInv
<1> QED  BY <1>1, InitInv, CacheInductive, PTL DEF SharedCacheSpec

HIDE SharedCacheAssumption
-----------------------------------------------------------------------------
(***************************************************************************)
(* The tables of the semantic cache describe the same entries, for any     *)
(* signatures, vectors, sizes and limits.                                  *)
(*                                                                         *)
(* CacheAccounting is inductive once what it says by positions and counts  *)
(* is said of the lists themselves: each repeats nothing, the order of use *)
(* lists the keys of the entries, and what precedes another in its bucket  *)
(* precedes it there.  Every call takes entries out of these lists and     *)
(* puts at most one at the end, and bytes go with the entries.             *)
(***************************************************************************)
(***************************************************************************)
(* Lists that repeat nothing, and which of their elements come first.      *)
(***************************************************************************)
Distinct(s) == \A i, j \in DOMAIN s : s[i] = s[j] => i = j
Precedes(s, x, y) == \E i, j \in DOMAIN s : i < j /\ s[i] = x /\ s[j] = y

LEMMA IncreasingRises ==
  ASSUME NEW X, NEW seq \in Seq(X), NEW I \in SUBSET DOMAIN seq,
         NEW k \in 1 .. Cardinality(I), NEW l \in 1 .. Cardinality(I), k < l
  PROVE  Increasing(I)[k] \in I /\ Increasing(I)[l] \in I /\ Increasing(I)[k] < Increasing(I)[l]
<1> DEFINE at == Increasing(I)
           n == Cardinality(I)
           Upto(x) == {y \in I : y <= x}
<1>1. n \in Nat /\ IsFiniteSet(I) /\ I \subseteq Nat
  BY Positions, FS_Subset, FS_CardinalityType
<1>2. /\ \A j \in 1 .. n : at[j] \in I
      /\ \A i, j \in 1 .. n : at[i] = at[j] => i = j
  BY PickedFrom DEF Numbers
<1>3. \A x \in I : Cardinality(Upto(x)) \in 1 .. n /\ at[Cardinality(Upto(x))] = x
  BY IncreasingPlace
<1> HIDE DEF at, n
<1>4. \A j \in 1 .. n : Cardinality(Upto(at[j])) = j
  <2> HIDE DEF Upto
  <2> QED  BY <1>2, <1>3
<1>5. ASSUME at[l] <= at[k]  PROVE FALSE
  <2>1. Upto(at[l]) \in SUBSET Upto(at[k])
    BY <1>1, <1>2, <1>5 DEF n
  <2>2. IsFiniteSet(Upto(at[k]))
    <3>1. Upto(at[k]) \in SUBSET I
      OBVIOUS
    <3> QED  BY <1>1, <3>1, FS_Subset
  <2>3. Cardinality(Upto(at[l])) <= Cardinality(Upto(at[k]))
    <3> HIDE DEF Upto
    <3> QED  BY <2>1, <2>2, FS_Subset
  <2>4. l <= k
    BY <1>4, <2>3 DEF n
  <2> QED  BY <1>1, <2>4
<1>6. at[k] \in Nat /\ at[l] \in Nat /\ at[k] \in I /\ at[l] \in I
  BY <1>1, <1>2 DEF n
<1> QED  BY <1>5, <1>6 DEF at

(* Leaving elements out. *)
Lacks(t, s, D) ==
  /\ Distinct(t) /\ ToSet(t) = ToSet(s) \ D
  /\ \A x, y : Precedes(t, x, y) <=> Precedes(s, x, y) /\ x \notin D /\ y \notin D

LEMMA PickedLacks ==
  ASSUME NEW X, NEW s \in Seq(X), Distinct(s), NEW D
  PROVE  LET t == Picked(s, {i \in DOMAIN s : s[i] \notin D}) IN t \in Seq(X) /\ Lacks(t, s, D)
<1> DEFINE I == {i \in DOMAIN s : s[i] \notin D}
           t == Picked(s, I)
           at == Increasing(I)
           n == Cardinality(I)
<1>1. I \in SUBSET DOMAIN s /\ DOMAIN s \subseteq Nat
  BY Positions
<1>2. \A i \in I : s[i] \notin D
  OBVIOUS
<1>2a. \A i \in DOMAIN s : s[i] \notin D => i \in I
  OBVIOUS
<1> HIDE DEF I
<1>3. /\ Numbers(at, n, I) /\ t \in Seq(X) /\ Len(t) = n
      /\ \A k \in 1 .. n : t[k] = s[at[k]]
  BY <1>1, PickedFrom
<1>4. /\ \A k \in 1 .. n : at[k] \in I
      /\ \A x \in I : \E k \in 1 .. n : at[k] = x
      /\ \A j, k \in 1 .. n : at[j] = at[k] => j = k
  BY <1>3 DEF Numbers
<1>5. \A k, l \in 1 .. n : k < l => at[k] < at[l]
  BY <1>1, IncreasingRises
<1>6. DOMAIN t = 1 .. n /\ n \in Nat
  BY <1>3, Positions
<1> HIDE DEF t, at, n
<1>7. Distinct(t)
  BY <1>1, <1>3, <1>4, <1>6 DEF Distinct
<1>8. ToSet(t) = ToSet(s) \ D
  <2>1. \A k \in 1 .. n : t[k] \in ToSet(s) \ D
    BY <1>1, <1>2, <1>3, <1>4 DEF ToSet
  <2>2. ASSUME NEW i \in DOMAIN s, s[i] \notin D  PROVE s[i] \in ToSet(t)
    <3>1. PICK k \in 1 .. n : at[k] = i
      BY <1>2a, <1>4, <2>2
    <3> QED  BY <1>3, <1>6, <3>1 DEF ToSet
  <2> QED  BY <1>6, <2>1, <2>2 DEF ToSet
<1>9. ASSUME NEW x, NEW y, Precedes(t, x, y)  PROVE Precedes(s, x, y) /\ x \notin D /\ y \notin D
  <2>1. PICK k, l \in 1 .. n : k < l /\ t[k] = x /\ t[l] = y
    BY <1>6, <1>9 DEF Precedes
  <2>2. at[k] \in I /\ at[l] \in I /\ at[k] < at[l] /\ s[at[k]] = x /\ s[at[l]] = y
    BY <1>3, <1>4, <1>5, <2>1
  <2> QED  BY <1>1, <1>2, <2>2 DEF Precedes
<1>10. ASSUME NEW x, NEW y, Precedes(s, x, y), x \notin D, y \notin D  PROVE Precedes(t, x, y)
  <2>1. PICK i, j \in DOMAIN s : i < j /\ s[i] = x /\ s[j] = y
    BY <1>10 DEF Precedes
  <2>2. i \in I /\ j \in I
    BY <1>2a, <1>10, <2>1
  <2>3. PICK k \in 1 .. n, l \in 1 .. n : at[k] = i /\ at[l] = j
    BY <1>4, <2>2
  <2>4. k < l
    <3>1. ~(l < k)
      BY <1>1, <1>5, <2>1, <2>3
    <3>2. k # l
      BY <1>1, <2>1, <2>3
    <3> QED  BY <1>6, <3>1, <3>2
  <2> QED  BY <1>3, <1>6, <2>1, <2>3, <2>4 DEF Precedes
<1> QED  BY <1>3, <1>7, <1>8, <1>9, <1>10 DEF Lacks, t, I

(* One more element at the end. *)
LEMMA AppendAfter ==
  ASSUME NEW X, NEW s \in Seq(X), Distinct(s), NEW e \in X, e \notin ToSet(s)
  PROVE  LET t == Append(s, e)
         IN /\ t \in Seq(X) /\ Distinct(t) /\ ToSet(t) = ToSet(s) \cup {e} /\ Len(t) = Len(s) + 1
            /\ \A x, y : Precedes(t, x, y) <=> Precedes(s, x, y) \/ (x \in ToSet(s) /\ y = e)
<1> DEFINE t == Append(s, e)
           n == Len(s)
<1>1. n \in Nat /\ DOMAIN s = 1 .. n
  BY Positions
<1>2. t \in Seq(X) /\ Len(t) = n + 1 /\ t[n + 1] = e /\ \A i \in 1 .. n : t[i] = s[i]
  BY AppendProperties
<1>3. DOMAIN t = 1 .. n + 1
  BY <1>2, Positions
<1> HIDE DEF t, n
<1>4. 1 .. n + 1 = (1 .. n) \cup {n + 1} /\ \A i \in 1 .. n : i # n + 1 /\ i < n + 1
  BY <1>1
<1>5. \A i \in 1 .. n : s[i] \in ToSet(s) /\ s[i] # e
  BY <1>1 DEF ToSet
<1>6. Distinct(t)
  <2> SUFFICES ASSUME NEW i \in DOMAIN t, NEW j \in DOMAIN t, t[i] = t[j]  PROVE i = j
    BY DEF Distinct
  <2>1. CASE i \in 1 .. n /\ j \in 1 .. n
    BY <1>1, <1>2, <2>1 DEF Distinct
  <2>2. CASE i \notin 1 .. n \/ j \notin 1 .. n
    BY <1>2, <1>3, <1>4, <1>5, <2>2
  <2> QED  BY <2>1, <2>2
<1>7. ToSet(t) = ToSet(s) \cup {e}
  BY <1>1, <1>2, <1>3, <1>4 DEF ToSet
<1>8. ASSUME NEW x, NEW y, Precedes(t, x, y)  PROVE Precedes(s, x, y) \/ (x \in ToSet(s) /\ y = e)
  <2>1. PICK i, j \in 1 .. n + 1 : i < j /\ t[i] = x /\ t[j] = y
    BY <1>3, <1>8 DEF Precedes
  <2>2. i \in 1 .. n
    BY <1>1, <2>1
  <2>3. CASE j \in 1 .. n
    BY <1>1, <1>2, <2>1, <2>2, <2>3 DEF Precedes
  <2>4. CASE j = n + 1
    BY <1>2, <1>5, <2>1, <2>2, <2>4
  <2> QED  BY <1>4, <2>3, <2>4
<1>9. ASSUME NEW x, NEW y, Precedes(s, x, y) \/ (x \in ToSet(s) /\ y = e)  PROVE Precedes(t, x, y)
  <2>1. CASE Precedes(s, x, y)
    BY <1>1, <1>2, <1>3, <1>4, <2>1 DEF Precedes
  <2>2. CASE x \in ToSet(s) /\ y = e
    <3>1. PICK i \in 1 .. n : s[i] = x
      BY <1>1, <2>2 DEF ToSet
    <3>2. i \in DOMAIN t /\ n + 1 \in DOMAIN t /\ i < n + 1 /\ t[i] = x /\ t[n + 1] = y
      BY <1>2, <1>3, <1>4, <2>2, <3>1
    <3> QED  BY <3>2 DEF Precedes
  <2> QED  BY <1>9, <2>1, <2>2
<1> QED  BY <1>2, <1>6, <1>7, <1>8, <1>9 DEF t, n

(* The first n elements taken off. *)
LEMMA RestLacks ==
  ASSUME NEW X, NEW s \in Seq(X), Distinct(s), NEW n \in 0 .. Len(s)
  PROVE  LET t == SubSeq(s, n + 1, Len(s))
         IN t \in Seq(X) /\ Len(t) = Len(s) - n /\ Lacks(t, s, {s[i] : i \in 1 .. n})
<1> DEFINE m == Len(s)
           t == SubSeq(s, n + 1, m)
           D == {s[i] : i \in 1 .. n}
<1>1. m \in Nat /\ DOMAIN s = 1 .. m /\ n \in Nat /\ n <= m
  BY Positions
<1>2. t \in Seq(X) /\ Len(t) = m - n /\ \A i \in 1 .. m - n : t[i] = s[i + n]
  <2>1. t = [i \in 1 .. m - n |-> s[i + n]]
    BY <1>1
  <2>2. \A i \in 1 .. m - n : i + n \in 1 .. m
    BY <1>1
  <2>3. \A i \in 1 .. m - n : s[i + n] \in X
    BY <1>1, <2>2, Positions
  <2>4. m - n \in Nat
    BY <1>1
  <2> QED  BY <2>1, <2>3, <2>4
<1>3. DOMAIN t = 1 .. m - n
  BY <1>2, Positions
<1>4. \A i, j \in 1 .. m : s[i] = s[j] => i = j
  BY <1>1 DEF Distinct
<1>5. /\ \A i \in 1 .. m - n : i + n \in 1 .. m /\ i + n \notin 1 .. n
      /\ \A i \in 1 .. m : i \notin 1 .. n => i - n \in 1 .. m - n /\ i - n + n = i
      /\ \A i \in 1 .. n : i \in 1 .. m
  BY <1>1
<1>6. \A i \in 1 .. m : s[i] \in D <=> i \in 1 .. n
  BY <1>4, <1>5
<1> HIDE DEF m, t, D
<1>7. Distinct(t)
  <2> SUFFICES ASSUME NEW i \in 1 .. m - n, NEW j \in 1 .. m - n, t[i] = t[j]  PROVE i = j
    BY <1>3 DEF Distinct
  <2>1. i + n = j + n
    BY <1>2, <1>4, <1>5
  <2> QED  BY <1>1, <2>1
<1>8. ToSet(t) = ToSet(s) \ D
  <2>1. ASSUME NEW i \in 1 .. m - n  PROVE t[i] \in ToSet(s) \ D
    <3>1. i + n \in 1 .. m /\ i + n \notin 1 .. n /\ t[i] = s[i + n]
      BY <1>2, <1>5
    <3> QED  BY <1>1, <1>6, <3>1 DEF ToSet
  <2>2. ASSUME NEW i \in 1 .. m, s[i] \notin D  PROVE s[i] \in ToSet(t)
    <3>1. i - n \in 1 .. m - n /\ t[i - n] = s[i]
      BY <1>2, <1>5, <1>6, <2>2
    <3> QED  BY <1>3, <3>1 DEF ToSet
  <2> QED  BY <1>1, <1>3, <2>1, <2>2 DEF ToSet
<1>9. ASSUME NEW x, NEW y, Precedes(t, x, y)  PROVE Precedes(s, x, y) /\ x \notin D /\ y \notin D
  <2>1. PICK i, j \in 1 .. m - n : i < j /\ t[i] = x /\ t[j] = y
    BY <1>3, <1>9 DEF Precedes
  <2>2. i + n \in 1 .. m /\ j + n \in 1 .. m /\ i + n < j + n /\ s[i + n] = x /\ s[j + n] = y
    BY <1>1, <1>2, <1>5, <2>1
  <2> QED  BY <1>1, <1>5, <1>6, <2>1, <2>2 DEF Precedes
<1>10. ASSUME NEW x, NEW y, Precedes(s, x, y), x \notin D, y \notin D  PROVE Precedes(t, x, y)
  <2>1. PICK i, j \in 1 .. m : i < j /\ s[i] = x /\ s[j] = y
    BY <1>1, <1>10 DEF Precedes
  <2>2. i - n \in 1 .. m - n /\ j - n \in 1 .. m - n /\ t[i - n] = x /\ t[j - n] = y
    BY <1>2, <1>5, <1>6, <1>10, <2>1
  <2>3. i - n < j - n
    BY <1>1, <2>1
  <2> QED  BY <1>3, <2>2, <2>3 DEF Precedes
<1> QED  BY <1>2, <1>7, <1>8, <1>9, <1>10 DEF Lacks, t, m, D

-----------------------------------------------------------------------------
(***************************************************************************)
(* The tables and the steps that change them.                              *)
(***************************************************************************)
TablesTyped(B, L) == B \in [Sigs -> Seq(Entry)] /\ L \in Seq(Sigs \X Vecs) /\ Distinct(L)
OnePerVec(b) == Distinct(b) /\ \A e, f \in ToSet(b) : e.vec = f.vec => e = f
TablesAgreed(B, L) ==
  /\ \A s \in Sigs, v \in Vecs : <<s, v>> \in ToSet(L) <=> \E e \in ToSet(B[s]) : e.vec = v
  /\ \A s \in Sigs : \A e, f \in ToSet(B[s]) :
       Precedes(B[s], e, f) => Precedes(L, <<s, e.vec>>, <<s, f.vec>>)
Tables(B, L) == TablesTyped(B, L) /\ (\A s \in Sigs : OnePerVec(B[s])) /\ TablesAgreed(B, L)

(* The entries of s whose keys are in K. *)
EntriesIn(B, K, s) == {e \in ToSet(B[s]) : <<s, e.vec>> \in K}

LEMMA ElementsIn ==
  ASSUME NEW X, NEW s \in Seq(X)
  PROVE  ToSet(s) \subseteq X
BY Positions DEF ToSet

LEMMA CachedHas ==
  ASSUME NEW B \in [Sigs -> Seq(Entry)]
  PROVE  /\ \A s, e : <<s, e>> \in Cached(B) <=> s \in Sigs /\ e \in ToSet(B[s])
         /\ \A h \in Cached(B) : h = <<h[1], h[2]>> /\ h[1] \in Sigs /\ h[2] \in Entry
<1>1. \A s \in Sigs : ToSet(B[s]) \subseteq Entry
  BY ElementsIn
<1> QED  BY <1>1 DEF Cached

LEMMA Dropped ==
  ASSUME NEW B, NEW L, Tables(B, L), NEW K,
         NEW C \in [Sigs -> Seq(Entry)], NEW M \in Seq(Sigs \X Vecs),
         \A s \in Sigs : Lacks(C[s], B[s], EntriesIn(B, K, s)), Lacks(M, L, K)
  PROVE  Tables(C, M) /\ Cached(C) = Cached(B) \ CachedAt(B, K)
<1>1. B \in [Sigs -> Seq(Entry)] /\ L \in Seq(Sigs \X Vecs)
  BY DEF Tables, TablesTyped
<1>2. TablesTyped(C, M)
  BY DEF TablesTyped, Lacks
<1>3. ASSUME NEW s \in Sigs  PROVE ToSet(C[s]) = ToSet(B[s]) \ EntriesIn(B, K, s) /\ OnePerVec(C[s])
  BY DEF Tables, OnePerVec, Lacks
<1>4. ASSUME NEW s \in Sigs, NEW v \in Vecs
      PROVE  <<s, v>> \in ToSet(M) <=> \E e \in ToSet(C[s]) : e.vec = v
  <2>1. <<s, v>> \in ToSet(M) <=> <<s, v>> \in ToSet(L) /\ <<s, v>> \notin K
    BY DEF Lacks
  <2>2. <<s, v>> \in ToSet(L) <=> \E e \in ToSet(B[s]) : e.vec = v
    BY DEF Tables, TablesAgreed
  <2> QED  BY <1>3, <2>1, <2>2 DEF EntriesIn
<1>5. ASSUME NEW s \in Sigs, NEW e \in ToSet(C[s]), NEW f \in ToSet(C[s]), Precedes(C[s], e, f)
      PROVE  Precedes(M, <<s, e.vec>>, <<s, f.vec>>)
  <2>1. Precedes(B[s], e, f) /\ e \notin EntriesIn(B, K, s) /\ f \notin EntriesIn(B, K, s)
    BY <1>5 DEF Lacks
  <2>2. e \in ToSet(B[s]) /\ f \in ToSet(B[s])
    BY <1>3
  <2>3. Precedes(L, <<s, e.vec>>, <<s, f.vec>>)
    BY <2>1, <2>2 DEF Tables, TablesAgreed
  <2>4. <<s, e.vec>> \notin K /\ <<s, f.vec>> \notin K
    BY <2>1, <2>2 DEF EntriesIn
  <2> QED  BY <2>3, <2>4 DEF Lacks
<1>6. TablesAgreed(C, M)
  BY <1>4, <1>5 DEF TablesAgreed
<1>7. Cached(C) = Cached(B) \ CachedAt(B, K)
  <2>1. \A s, e : <<s, e>> \in Cached(C) <=> <<s, e>> \in Cached(B) \ CachedAt(B, K)
    <3> SUFFICES ASSUME NEW s, NEW e
                 PROVE  <<s, e>> \in Cached(C) <=> <<s, e>> \in Cached(B) \ CachedAt(B, K)
      OBVIOUS
    <3>1. <<s, e>> \in Cached(C) <=> s \in Sigs /\ e \in ToSet(C[s])
      BY CachedHas
    <3>2. <<s, e>> \in Cached(B) <=> s \in Sigs /\ e \in ToSet(B[s])
      BY <1>1, CachedHas
    <3>3. <<s, e>> \in CachedAt(B, K) <=> <<s, e>> \in Cached(B) /\ <<s, e.vec>> \in K
      BY DEF CachedAt, Key
    <3> QED  BY <1>3, <3>1, <3>2, <3>3 DEF EntriesIn
  <2>2. (\A h \in Cached(C) : h = <<h[1], h[2]>>) /\ \A h \in Cached(B) : h = <<h[1], h[2]>>
    BY <1>1, CachedHas
  <2>3. ASSUME NEW h  PROVE h \in Cached(C) <=> h \in Cached(B) \ CachedAt(B, K)
    BY <2>1, <2>2
  <2> QED  BY <2>3
<1> QED  BY <1>2, <1>3, <1>6, <1>7 DEF Tables

LEMMA Added ==
  ASSUME NEW B, NEW L, Tables(B, L), NEW s \in Sigs, NEW e \in Entry, Key(<<s, e>>) \notin ToSet(L)
  PROVE  LET C == [B EXCEPT ![s] = Append(@, e)]
         IN  /\ Tables(C, Append(L, Key(<<s, e>>))) /\ Cached(C) = Cached(B) \cup {<<s, e>>}
             /\ <<s, e>> \notin Cached(B)
<1> DEFINE C == [B EXCEPT ![s] = Append(@, e)]
           k == <<s, e.vec>>
           M == Append(L, k)
<1>0. Key(<<s, e>>) = k
  BY DEF Key
<1>1. B \in [Sigs -> Seq(Entry)] /\ L \in Seq(Sigs \X Vecs) /\ Distinct(L)
  BY DEF Tables, TablesTyped
<1>2. e.vec \in Vecs /\ k \in Sigs \X Vecs /\ k \notin ToSet(L)
  BY <1>0 DEF Entry
<1>3. /\ M \in Seq(Sigs \X Vecs) /\ Distinct(M) /\ ToSet(M) = ToSet(L) \cup {k}
      /\ \A x, y : Precedes(M, x, y) <=> Precedes(L, x, y) \/ (x \in ToSet(L) /\ y = k)
  BY <1>1, <1>2, AppendAfter
<1>4. \A f \in ToSet(B[s]) : f.vec # e.vec
  BY <1>2 DEF Tables, TablesAgreed
<1>5. OnePerVec(B[s]) /\ B[s] \in Seq(Entry) /\ e \notin ToSet(B[s])
  BY <1>1, <1>4 DEF Tables
<1>6. /\ Append(B[s], e) \in Seq(Entry) /\ Distinct(Append(B[s], e))
      /\ ToSet(Append(B[s], e)) = ToSet(B[s]) \cup {e}
      /\ \A x, y : Precedes(Append(B[s], e), x, y) <=> Precedes(B[s], x, y) \/ (x \in ToSet(B[s]) /\ y = e)
  BY <1>5, AppendAfter DEF OnePerVec
<1>7. C \in [Sigs -> Seq(Entry)] /\ C[s] = Append(B[s], e) /\ \A t \in Sigs \ {s} : C[t] = B[t]
  BY <1>1, <1>6
<1> HIDE DEF C, M
<1>8. TablesTyped(C, M)
  BY <1>3, <1>7 DEF TablesTyped
<1>9. \A t \in Sigs : OnePerVec(C[t])
  <2>1. OnePerVec(C[s])
    BY <1>4, <1>5, <1>6, <1>7 DEF OnePerVec
  <2> QED  BY <1>7, <2>1 DEF Tables
<1>10. ASSUME NEW t \in Sigs, NEW v \in Vecs
       PROVE  <<t, v>> \in ToSet(M) <=> \E f \in ToSet(C[t]) : f.vec = v
  <2>1. <<t, v>> \in ToSet(L) <=> \E f \in ToSet(B[t]) : f.vec = v
    BY DEF Tables, TablesAgreed
  <2>2. <<t, v>> \in ToSet(M) <=> <<t, v>> \in ToSet(L) \/ (t = s /\ v = e.vec)
    BY <1>3
  <2>3. CASE t = s
    BY <1>6, <1>7, <2>1, <2>2, <2>3
  <2>4. CASE t # s
    BY <1>7, <2>1, <2>2, <2>4
  <2> QED  BY <2>3, <2>4
<1>11. ASSUME NEW t \in Sigs, NEW f \in ToSet(C[t]), NEW g \in ToSet(C[t]), Precedes(C[t], f, g)
       PROVE  Precedes(M, <<t, f.vec>>, <<t, g.vec>>)
  <2>1. \A x, y \in ToSet(B[t]) : Precedes(B[t], x, y) => Precedes(L, <<t, x.vec>>, <<t, y.vec>>)
    BY DEF Tables, TablesAgreed
  <2>2. CASE t # s
    BY <1>3, <1>7, <1>11, <2>1, <2>2
  <2>3. CASE t = s /\ Precedes(B[s], f, g)
    <3>1. f \in ToSet(B[s]) /\ g \in ToSet(B[s])
      BY <2>3 DEF Precedes, ToSet
    <3> QED  BY <1>3, <2>1, <2>3, <3>1
  <2>4. CASE t = s /\ f \in ToSet(B[s]) /\ g = e
    <3>1. f.vec \in Vecs
      BY <1>5, <2>4, ElementsIn DEF Entry
    <3>2. <<s, f.vec>> \in ToSet(L)
      BY <2>4, <3>1 DEF Tables, TablesAgreed
    <3> QED  BY <1>3, <2>4, <3>2
  <2> QED  BY <1>6, <1>7, <1>11, <2>2, <2>3, <2>4
<1>12. TablesAgreed(C, M)
  BY <1>10, <1>11 DEF TablesAgreed
<1>13. Cached(C) = Cached(B) \cup {<<s, e>>} /\ <<s, e>> \notin Cached(B)
  <2>1. \A t, f : <<t, f>> \in Cached(C) <=> <<t, f>> \in Cached(B) \cup {<<s, e>>}
    <3> SUFFICES ASSUME NEW t, NEW f
                 PROVE  <<t, f>> \in Cached(C) <=> <<t, f>> \in Cached(B) \cup {<<s, e>>}
      OBVIOUS
    <3>1. <<t, f>> \in Cached(C) <=> t \in Sigs /\ f \in ToSet(C[t])
      BY <1>7, CachedHas
    <3>2. <<t, f>> \in Cached(B) <=> t \in Sigs /\ f \in ToSet(B[t])
      BY <1>1, CachedHas
    <3>3. <<t, f>> = <<s, e>> <=> t = s /\ f = e
      OBVIOUS
    <3>4. CASE t = s
      <4>1. f \in ToSet(C[t]) <=> f \in ToSet(B[t]) \/ f = e
        BY <1>6, <1>7, <3>4
      <4> QED  BY <3>1, <3>2, <3>3, <3>4, <4>1
    <3>5. CASE t # s
      BY <1>7, <3>1, <3>2, <3>3, <3>5
    <3> QED  BY <3>4, <3>5
  <2>2. (\A h \in Cached(C) : h = <<h[1], h[2]>>) /\ \A h \in Cached(B) : h = <<h[1], h[2]>>
    BY <1>1, <1>7, CachedHas
  <2>3. ASSUME NEW h  PROVE h \in Cached(C) <=> h \in Cached(B) \cup {<<s, e>>}
    <3>1. h = <<s, e>> => h = <<h[1], h[2]>>
      OBVIOUS
    <3>2. h \in Cached(C) \cup Cached(B) \cup {<<s, e>>} => h = <<h[1], h[2]>>
      BY <2>2, <3>1
    <3> HIDE <2>2
    <3> QED  BY <2>1, <3>2
  <2>4. <<s, e>> \notin Cached(B)
    BY <1>1, <1>5, CachedHas
  <2> QED  BY <2>3, <2>4
<1>14. Tables(C, M)
  BY <1>8, <1>9, <1>12 DEF Tables
<1> QED  BY <1>0, <1>13, <1>14 DEF C, M
(* What is cached is finite: the order of use lists it.                    *)
LEMMA CachedFinite ==
  ASSUME NEW B, NEW L, Tables(B, L)
  PROVE  IsFiniteSet(Cached(B))
<1>1. B \in [Sigs -> Seq(Entry)] /\ L \in Seq(Sigs \X Vecs)
  BY DEF Tables, TablesTyped
<1>2. IsFiniteSet(ToSet(L))
  <2>1. IsFiniteSet(DOMAIN L) /\ L = [i \in DOMAIN L |-> L[i]]
    BY <1>1, Positions
  <2> QED  BY <2>1, ImageFinite DEF ToSet
<1> DEFINE key == [h \in Cached(B) |-> <<h[1], h[2].vec>>]
<1>3. \A h \in Cached(B) : /\ h = <<h[1], h[2]>> /\ h[1] \in Sigs /\ h[2] \in Entry
                           /\ h[2] \in ToSet(B[h[1]])
  BY <1>1, CachedHas
<1>4. key \in [Cached(B) -> ToSet(L)]
  <2> SUFFICES ASSUME NEW h \in Cached(B)  PROVE <<h[1], h[2].vec>> \in ToSet(L)
    OBVIOUS
  <2>1. h[1] \in Sigs /\ h[2] \in ToSet(B[h[1]]) /\ h[2].vec \in Vecs
    BY <1>3 DEF Entry
  <2> QED  BY <2>1 DEF Tables, TablesAgreed
<1>5. ASSUME NEW g \in Cached(B), NEW h \in Cached(B), key[g] = key[h]  PROVE g = h
  <2>1. g[1] = h[1] /\ g[2].vec = h[2].vec
    BY <1>5
  <2>2. g[2] = h[2]
    BY <1>3, <2>1 DEF Tables, OnePerVec
  <2> QED  BY <1>3, <2>1, <2>2
<1> HIDE DEF key
<1> QED  BY <1>2, <1>4, <1>5, NoLarger

(***************************************************************************)
(* Bytes: what sets of entries that do not meet weigh together.            *)
(***************************************************************************)
Byte(h) == {h} \X (1 .. h[2].size)

LEMMA BytesOf ==
  ASSUME NEW h, h[2].size \in Nat
  PROVE  IsFiniteSet(Byte(h)) /\ Cardinality(Byte(h)) = h[2].size
<1> DEFINE n == h[2].size
<1>1. n \in Nat
  OBVIOUS
<1> HIDE DEF n
<1>2. IsFiniteSet({h}) /\ Cardinality({h}) = 1
  BY FS_Singleton
<1>3. IsFiniteSet(1 .. n) /\ Cardinality(1 .. n) = n
  <2>1. 1 \in Int /\ n \in Int
    BY <1>1
  <2>2. /\ IsFiniteSet(1 .. n)
        /\ Cardinality(1 .. n) = IF 1 > n THEN 0 ELSE n - 1 + 1
    BY <2>1, FS_Interval
  <2> QED  BY <1>1, <2>2
<1>4. IsFiniteSet({h} \X (1 .. n)) /\ Cardinality({h} \X (1 .. n)) = 1 * n
  <2> DEFINE I == 1 .. n
             O == {h}
  <2>1. IsFiniteSet(O) /\ IsFiniteSet(I) /\ Cardinality(O) = 1 /\ Cardinality(I) = n
    BY <1>2, <1>3
  <2> HIDE DEF I, O
  <2>2. IsFiniteSet(O \X I) /\ Cardinality(O \X I) = Cardinality(O) * Cardinality(I)
    BY <2>1, FS_Product
  <2> QED  BY <2>1, <2>2 DEF I, O
<1> QED  BY <1>1, <1>4 DEF Byte, n

LEMMA WeightFinite ==
  ASSUME NEW H, IsFiniteSet(H), \A h \in H : h[2].size \in Nat
  PROVE  IsFiniteSet(UNION {Byte(h) : h \in H}) /\ Weight(H) \in Nat
<1>1. \A h \in H : IsFiniteSet(Byte(h))
  BY BytesOf
<1>2. IsFiniteSet({Byte(h) : h \in H})
  <2> DEFINE f == [h \in H |-> Byte(h)]
  <2>1. f = [h \in H |-> f[h]] /\ {Byte(h) : h \in H} = {f[h] : h \in H}
    OBVIOUS
  <2> HIDE DEF f
  <2>2. IsFiniteSet({f[h] : h \in H})
    BY <2>1, ImageFinite
  <2> QED  BY <2>1, <2>2
<1>3. IsFiniteSet(UNION {Byte(h) : h \in H})
  BY <1>1, <1>2, FS_UNION
<1> QED  BY <1>3, FS_CardinalityType DEF Weight, Byte

LEMMA WeightOfOne ==
  ASSUME NEW h, h[2].size \in Nat
  PROVE  Weight({h}) = h[2].size
<1>1. UNION {Byte(g) : g \in {h}} = Byte(h)
  OBVIOUS
<1>2. Weight({h}) = Cardinality(UNION {Byte(g) : g \in {h}})
  BY DEF Weight, Byte
<1> QED  BY <1>1, <1>2, BytesOf

LEMMA WeightsAdd ==
  ASSUME NEW G, NEW H, IsFiniteSet(G), IsFiniteSet(H), G \cap H = {},
         \A h \in G \cup H : h[2].size \in Nat
  PROVE  Weight(G \cup H) = Weight(G) + Weight(H)
<1> DEFINE U(S) == UNION {Byte(h) : h \in S}
<1>1. IsFiniteSet(U(G)) /\ IsFiniteSet(U(H)) /\ Weight(G) \in Nat /\ Weight(H) \in Nat
  BY WeightFinite
<1>2. U(G \cup H) = U(G) \cup U(H)
  OBVIOUS
<1>3. U(G) \cap U(H) = {}
  BY DEF Byte
<1>4. Weight(G \cup H) = Cardinality(U(G \cup H)) /\ Weight(G) = Cardinality(U(G)) /\ Weight(H) = Cardinality(U(H))
  BY DEF Weight, Byte
<1> DEFINE A == U(G)
           C == U(H)
<1>5. /\ IsFiniteSet(A) /\ IsFiniteSet(C) /\ A \cap C = {}
      /\ Weight(G \cup H) = Cardinality(A \cup C) /\ Weight(G) = Cardinality(A) /\ Weight(H) = Cardinality(C)
  BY <1>1, <1>2, <1>3, <1>4, Zenon
<1> HIDE DEF A, C, U
<1>6. Cardinality(A \cup C) = Cardinality(A) + Cardinality(C) - Cardinality(A \cap C)
  BY <1>5, FS_Union
<1>7. Cardinality(A \cap C) = 0
  BY <1>5, FS_EmptySet
<1>8. Cardinality(A) \in Nat /\ Cardinality(C) \in Nat
  BY <1>1, <1>5
<1> QED  BY <1>5, <1>6, <1>7, <1>8

LEMMA WeightWithout ==
  ASSUME NEW B, NEW L, Tables(B, L), NEW G \in SUBSET Cached(B)
  PROVE  /\ Weight(Cached(B) \ G) = Weight(Cached(B)) - Weight(G)
         /\ Weight(G) \in Nat /\ Weight(Cached(B) \ G) \in Nat
         /\ IsFiniteSet(Cached(B) \ G) /\ \A h \in Cached(B) : h[2].size \in Nat
<1> DEFINE H == Cached(B)
<1>1. IsFiniteSet(H) /\ B \in [Sigs -> Seq(Entry)]
  BY CachedFinite DEF Tables, TablesTyped
<1>2. \A h \in H : h[2].size \in Nat
  BY <1>1, CachedHas, SemanticCacheAssumption DEF Entry
<1> HIDE DEF H
<1>3. IsFiniteSet(G) /\ IsFiniteSet(H \ G) /\ G \in SUBSET H
  BY <1>1, FS_Subset DEF H
<1>4. Weight(G) \in Nat /\ Weight(H \ G) \in Nat
  BY <1>2, <1>3, WeightFinite
<1>5. Weight((H \ G) \cup G) = Weight(H \ G) + Weight(G)
  BY <1>2, <1>3, WeightsAdd
<1>6. (H \ G) \cup G = H
  BY <1>3
<1>7. Weight(H) = Weight(H \ G) + Weight(G)
  BY <1>5, <1>6, Zenon
<1>8. Weight(H \ G) = Weight(H) - Weight(G)
  BY <1>4, <1>7
<1> QED  BY <1>2, <1>3, <1>4, <1>8 DEF H
(***************************************************************************)
(* What the tables keep, over all calls.                                   *)
(***************************************************************************)
LEMMA LengthIsSize ==
  ASSUME NEW X, NEW s \in Seq(X), Distinct(s)
  PROVE  Len(s) = Cardinality(ToSet(s)) /\ IsFiniteSet(ToSet(s))
<1>1. DOMAIN s = 1 .. Len(s) /\ Len(s) \in Nat /\ IsFiniteSet(DOMAIN s) /\ s \in [DOMAIN s -> ToSet(s)]
  <2>1. DOMAIN s = 1 .. Len(s) /\ Len(s) \in Nat /\ IsFiniteSet(DOMAIN s) /\ s \in [1 .. Len(s) -> X]
    BY Positions
  <2> QED  BY <2>1 DEF ToSet
<1>2. \A i, j \in DOMAIN s : s[i] = s[j] => i = j
  BY DEF Distinct
<1>3. \A x \in ToSet(s) : \E i \in DOMAIN s : s[i] = x
  BY DEF ToSet
<1>4. IsFiniteSet(ToSet(s)) /\ Cardinality(ToSet(s)) = Cardinality(DOMAIN s)
  BY <1>1, <1>2, <1>3, SameSize
<1>5. Cardinality(1 .. Len(s)) = Len(s)
  <2> DEFINE n == Len(s)
  <2>1. n \in Nat
    BY <1>1
  <2> HIDE DEF n
  <2>2. Cardinality(1 .. n) = n
    BY <2>1, FS_Interval
  <2> QED  BY <2>2 DEF n
<1> QED  BY <1>1, <1>4, <1>5

LEMMA EmptyList ==
  ASSUME NEW X, NEW s \in Seq(X)
  PROVE  s = <<>> <=> ToSet(s) = {}
<1>1. DOMAIN s = 1 .. Len(s) /\ Len(s) \in Nat
  BY Positions
<1>2. ToSet(s) = {} <=> DOMAIN s = {}
  BY DEF ToSet
<1>3. DOMAIN s = {} <=> Len(s) = 0
  <2>1. CASE Len(s) = 0
    BY <1>1, <2>1
  <2>2. CASE Len(s) # 0
    <3>1. 1 \in 1 .. Len(s)
      BY <1>1, <2>2
    <3> QED  BY <1>1, <2>2, <3>1, Zenon
  <2> QED  BY <2>1, <2>2
<1> QED  BY <1>2, <1>3

LEMMA NothingLacks ==
  ASSUME NEW X, NEW b \in Seq(X), Distinct(b)
  PROVE  Lacks(b, b, {}) /\ Lacks(<<>>, b, ToSet(b))
<1>1. Lacks(b, b, {})
  BY DEF Lacks
<1>2. ToSet(<<>>) = {} /\ Distinct(<<>>) /\ \A x, y : ~Precedes(<<>>, x, y)
  BY DEF ToSet, Distinct, Precedes
<1>3. \A x, y : Precedes(b, x, y) => x \in ToSet(b)
  BY DEF Precedes, ToSet
<1>4. Lacks(<<>>, b, ToSet(b))
  BY <1>2, <1>3 DEF Lacks
<1> QED  BY <1>1, <1>4

LEMMA BucketLacks ==
  ASSUME NEW b \in Seq(Entry), Distinct(b), NEW vs
  PROVE  /\ BucketWithout(b, vs) \in Seq(Entry)
         /\ Lacks(BucketWithout(b, vs), b, {e \in ToSet(b) : e.vec \in vs})
<1> DEFINE D == {e \in ToSet(b) : e.vec \in vs}
<1>1. {i \in DOMAIN b : b[i].vec \notin vs} = {i \in DOMAIN b : b[i] \notin D}
  BY DEF ToSet
<1> HIDE DEF D
<1>2. BucketWithout(b, vs) = Picked(b, {i \in DOMAIN b : b[i] \notin D})
  BY <1>1 DEF BucketWithout
<1>3. BucketWithout(b, vs) \in Seq(Entry) /\ Lacks(BucketWithout(b, vs), b, D)
  BY <1>2, PickedLacks
<1> QED  BY <1>3 DEF D

LEMMA UntouchedLacks ==
  ASSUME Tables(buckets, lru), NEW K
  PROVE  Untouched(K) \in Seq(Sigs \X Vecs) /\ Lacks(Untouched(K), lru, K)
<1>1. lru \in Seq(Sigs \X Vecs) /\ Distinct(lru)
  BY DEF Tables, TablesTyped
<1> QED  BY <1>1, PickedLacks DEF Untouched

(* An entry is put at the end of its bucket and of the order of use.       *)
LEMMA Touched ==
  ASSUME Tables(buckets, lru), NEW s \in Sigs, NEW e \in Entry
  PROVE  LET K == {Key(<<s, e>>)}
             C == [buckets EXCEPT ![s] = Append(BucketWithout(@, {e.vec}), e)]
             rest == Cached(buckets) \ CachedAt(buckets, K)
         IN  /\ Tables(C, Append(Untouched(K), Key(<<s, e>>)))
             /\ Cached(C) = rest \cup {<<s, e>>} /\ <<s, e>> \notin rest
             /\ ToSet(Append(Untouched(K), Key(<<s, e>>))) = ToSet(lru) \cup K
<1> DEFINE k == Key(<<s, e>>)
           K == {k}
           b == BucketWithout(buckets[s], {e.vec})
           B == [buckets EXCEPT ![s] = b]
           M == Untouched(K)
           rest == Cached(buckets) \ CachedAt(buckets, K)
<1>0. k = <<s, e.vec>>
  BY DEF Key
<1>1. /\ buckets \in [Sigs -> Seq(Entry)]
      /\ \A t \in Sigs : buckets[t] \in Seq(Entry) /\ Distinct(buckets[t])
  BY DEF Tables, TablesTyped, OnePerVec
<1>2. b \in Seq(Entry) /\ Lacks(b, buckets[s], {f \in ToSet(buckets[s]) : f.vec \in {e.vec}})
  BY <1>1, BucketLacks
<1>3. {f \in ToSet(buckets[s]) : f.vec \in {e.vec}} = EntriesIn(buckets, K, s)
  BY <1>0 DEF EntriesIn
<1>4. \A t \in Sigs \ {s} : EntriesIn(buckets, K, t) = {}
  BY <1>0 DEF EntriesIn
<1>5. M \in Seq(Sigs \X Vecs) /\ Lacks(M, lru, K)
  BY UntouchedLacks
<1> HIDE DEF k, b, M
<1>6. B \in [Sigs -> Seq(Entry)] /\ B[s] = b /\ \A t \in Sigs \ {s} : B[t] = buckets[t]
  BY <1>1, <1>2
<1> HIDE DEF B, K
<1>7. \A t \in Sigs : Lacks(B[t], buckets[t], EntriesIn(buckets, K, t))
  <2>1. Lacks(B[s], buckets[s], EntriesIn(buckets, K, s))
    BY <1>2, <1>3, <1>6
  <2>2. ASSUME NEW t \in Sigs \ {s}  PROVE Lacks(B[t], buckets[t], EntriesIn(buckets, K, t))
    <3>1. Lacks(buckets[t], buckets[t], {})
      BY <1>1, NothingLacks
    <3> QED  BY <1>4, <1>6, <3>1
  <2> QED  BY <2>1, <2>2
<1>8. Tables(B, M) /\ Cached(B) = rest
  BY <1>5, <1>6, <1>7, Dropped
<1>9. k \notin ToSet(M) /\ ToSet(M) = ToSet(lru) \ K
  BY <1>5 DEF Lacks, K
<1> DEFINE C == [B EXCEPT ![s] = Append(@, e)]
<1>10. /\ Tables(C, Append(M, k)) /\ Cached(C) = Cached(B) \cup {<<s, e>>}
       /\ <<s, e>> \notin Cached(B)
  BY <1>8, <1>9, Added DEF k
<1>11. C = [buckets EXCEPT ![s] = Append(BucketWithout(@, {e.vec}), e)]
  BY <1>1 DEF B, b
<1>12. ToSet(Append(M, k)) = ToSet(lru) \cup K
  <2>1. Distinct(M) /\ k \in Sigs \X Vecs
    BY <1>0, <1>5 DEF Lacks, Entry
  <2>2. ToSet(Append(M, k)) = ToSet(M) \cup {k}
    BY <1>5, <1>9, <2>1, AppendAfter
  <2> QED  BY <1>9, <2>2 DEF K
<1> HIDE DEF C
<1>13. /\ Tables(C, Append(M, k)) /\ Cached(C) = rest \cup {<<s, e>>} /\ <<s, e>> \notin rest
       /\ ToSet(Append(M, k)) = ToSet(lru) \cup K
  BY <1>8, <1>10, <1>12
<1> QED  BY <1>11, <1>13 DEF k, K, M

Owned(B, own) == \A s \in Sigs : own[s] = IF B[s] = <<>> THEN NoOwner ELSE NsOf[s]
SemanticInv ==
  /\ Tables(buckets, lru) /\ Owned(buckets, owner)
  /\ bytes = Weight(Cached(buckets)) /\ Len(lru) <= MaxEntries /\ WithinBytes(bytes)

LEMMA ByteLimits ==
  /\ MaxEntries \in Nat /\ WithinBytes(0)
  /\ \A m, n \in Nat : m <= n /\ WithinBytes(n) => WithinBytes(m)
<1>1. MaxEntries \in Nat /\ MaxBytes \in Nat \cup {Unlimited}
  BY SemanticCacheAssumption
<1> QED  BY <1>1 DEF WithinBytes

LEMMA InitSemantic == SemanticCacheInit => SemanticInv
<1> SUFFICES ASSUME SemanticCacheInit  PROVE SemanticInv
  OBVIOUS
<1>1. /\ buckets \in [Sigs -> Seq(Entry)] /\ lru \in Seq(Sigs \X Vecs) /\ lru = <<>>
      /\ \A s \in Sigs : buckets[s] = <<>>
  BY DEF SemanticCacheInit
<1>2. ToSet(<<>>) = {} /\ Distinct(<<>>) /\ \A x, y : ~Precedes(<<>>, x, y)
  BY DEF ToSet, Distinct, Precedes
<1>3. Tables(buckets, lru)
  BY <1>1, <1>2 DEF Tables, TablesTyped, OnePerVec, TablesAgreed
<1>4. Cached(buckets) = {}
  BY <1>1, <1>2 DEF Cached
<1>5. Weight({}) = 0
  <2>1. UNION {{h} \X (1 .. h[2].size) : h \in {}} = {}
    OBVIOUS
  <2> QED  BY <2>1, FS_EmptySet DEF Weight
<1>6. Owned(buckets, owner)
  BY <1>1 DEF Owned, SemanticCacheInit
<1>7. Len(lru) = 0 /\ bytes = 0
  BY DEF SemanticCacheInit
<1>8. Weight(Cached(buckets)) = 0
  BY <1>4, <1>5, Zenon
<1>9. bytes = Weight(Cached(buckets)) /\ Len(lru) <= MaxEntries /\ WithinBytes(bytes)
  <2>1. MaxEntries \in Nat /\ WithinBytes(0)
    BY ByteLimits
  <2> QED  BY <1>7, <1>8, <2>1
<1> QED  BY <1>3, <1>6, <1>9 DEF SemanticInv

LEMMA HitKeeps ==
  ASSUME SemanticInv, NEW s \in Sigs, NEW q \in Vecs, Hit(s, q)
  PROVE  SemanticInv'
<1>1. PICK i \in Best(s, q) :
        LET e == buckets[s][i] IN
        /\ buckets' = [buckets EXCEPT ![s] = Append(BucketWithout(@, {e.vec}), e)]
        /\ lru' = Append(Untouched({Key(<<s, e>>)}), Key(<<s, e>>))
        /\ UNCHANGED <<owner, bytes>>
  BY DEF Hit
<1> DEFINE e == buckets[s][i]
           K == {Key(<<s, e>>)}
<1>2. Tables(buckets, lru) /\ buckets \in [Sigs -> Seq(Entry)]
  BY DEF SemanticInv, Tables, TablesTyped
<1>3. i \in DOMAIN buckets[s]
  BY DEF Best
<1>4. e \in Entry /\ e \in ToSet(buckets[s])
  BY <1>2, <1>3, Positions DEF ToSet
<1>5. <<s, e>> \in Cached(buckets)
  BY <1>2, <1>4, CachedHas
<1>6. /\ buckets' = [buckets EXCEPT ![s] = Append(BucketWithout(@, {e.vec}), e)]
      /\ lru' = Append(Untouched(K), Key(<<s, e>>)) /\ owner' = owner /\ bytes' = bytes
  BY <1>1
<1> HIDE DEF e
<1>7. /\ Tables(buckets', lru')
      /\ Cached(buckets') = (Cached(buckets) \ CachedAt(buckets, K)) \cup {<<s, e>>}
      /\ ToSet(lru') = ToSet(lru) \cup K
  BY <1>2, <1>4, <1>6, Touched
<1>8. CachedAt(buckets, K) = {<<s, e>>}
  <2>1. <<s, e>> \in CachedAt(buckets, K)
    BY <1>5 DEF CachedAt
  <2>2. ASSUME NEW h \in CachedAt(buckets, K)  PROVE h = <<s, e>>
    <3>1. h \in Cached(buckets) /\ h[1] = s /\ h[2].vec = e.vec
      BY <2>2 DEF CachedAt, Key
    <3>2. h = <<h[1], h[2]>> /\ h[2] \in ToSet(buckets[s])
      BY <1>2, <3>1, CachedHas
    <3>3. h[2] = e
      BY <1>2, <1>4, <3>1, <3>2 DEF Tables, OnePerVec
    <3> QED  BY <3>1, <3>2, <3>3
  <2> QED  BY <2>1, <2>2
<1>9. Cached(buckets') = Cached(buckets)
  BY <1>5, <1>7, <1>8
<1>10. Len(lru') = Len(lru)
  <2>1. Key(<<s, e>>) \in ToSet(lru)
    BY <1>2, <1>4 DEF Key, Tables, TablesAgreed, Entry
  <2>2. ToSet(lru') = ToSet(lru)
    BY <1>7, <2>1
  <2>3. lru \in Seq(Sigs \X Vecs) /\ Distinct(lru) /\ lru' \in Seq(Sigs \X Vecs) /\ Distinct(lru')
    BY <1>2, <1>7 DEF Tables, TablesTyped
  <2> QED  BY <2>2, <2>3, LengthIsSize
<1>11. Owned(buckets', owner')
  <2>1. buckets'[s] # <<>> /\ buckets[s] # <<>>
    <3>1. ToSet(buckets[s]) # {} /\ buckets[s] \in Seq(Entry)
      BY <1>2, <1>4
    <3>2. <<s, e>> \in Cached(buckets') /\ buckets' \in [Sigs -> Seq(Entry)]
      BY <1>5, <1>7, <1>9 DEF Tables, TablesTyped
    <3>3. ToSet(buckets'[s]) # {} /\ buckets'[s] \in Seq(Entry)
      BY <3>2, CachedHas
    <3> QED  BY <3>1, <3>3, EmptyList
  <2>2. \A t \in Sigs \ {s} : buckets'[t] = buckets[t]
    BY <1>2, <1>6
  <2> QED  BY <1>6, <2>1, <2>2 DEF SemanticInv, Owned
<1> QED  BY <1>6, <1>7, <1>9, <1>10, <1>11 DEF SemanticInv
(* How many entries go is well defined, and enough of them go.             *)
LEMMA EnoughEvicted ==
  ASSUME NEW bs, NEW order, Len(order) \in Nat, NEW total
  PROVE  LET n == Evictions(bs, order, total)
             freed == Weight(CachedAt(bs, {order[i] : i \in 1 .. n}))
         IN  /\ n \in 0 .. Len(order)
             /\ n # Len(order) => Len(order) - n <= MaxEntries /\ WithinBytes(total - freed)
<1> DEFINE freed(n) == Weight(CachedAt(bs, {order[i] : i \in 1 .. n}))
           fits(n) == Len(order) - n <= MaxEntries /\ WithinBytes(total - freed(n))
           N == Len(order)
           T == {n \in 0 .. N : fits(n) \/ n = N}
           FirstFit(n) == (fits(n) \/ n = N) /\ \A l \in 0 .. n - 1 : ~fits(l)
<1>1. Evictions(bs, order, total) = CHOOSE n \in 0 .. N : FirstFit(n)
  BY DEF Evictions
<1>2. N \in Nat
  OBVIOUS
<1>3. \A n : FirstFit(n) => fits(n) \/ n = N
  OBVIOUS
<1>4. \E n \in 0 .. N : FirstFit(n)
  <2> HIDE DEF fits, N
  <2>1. T \in SUBSET Nat /\ N \in T
    BY <1>2
  <2>2. PICK n \in T : \A m \in T : n <= m
    <3> HIDE DEF T
    <3> QED  BY <2>1, LeastNumber
  <2>3. ASSUME NEW l \in 0 .. n - 1  PROVE ~fits(l)
    BY <1>2, <2>2
  <2> QED  BY <2>2, <2>3
<1> DEFINE m == CHOOSE n \in 0 .. N : FirstFit(n)
<1>5. m \in 0 .. N /\ FirstFit(m)
  <2> HIDE DEF FirstFit, N
  <2> QED  BY <1>4
<1>6. m \in 0 .. N /\ (m # N => fits(m))
  BY <1>3, <1>5
<1> HIDE DEF m
<1>7. m # N => N - m <= MaxEntries /\ WithinBytes(total - freed(m))
  BY <1>6
<1>8. Evictions(bs, order, total) = m
  BY <1>1 DEF m
<1> QED  BY <1>6, <1>7, <1>8

LEMMA EvictKeeps ==
  ASSUME NEW s \in Sigs, NEW e \in Entry, NEW total, Evict(s, e, total),
         Tables(buckets, lru), Owned(buckets, owner),
         total = Weight((Cached(buckets) \ CachedAt(buckets, {Key(<<s, e>>)})) \cup {<<s, e>>})
  PROVE  SemanticInv'
<1> DEFINE K == {Key(<<s, e>>)}
           order == Append(Untouched(K), Key(<<s, e>>))
           bs == [buckets EXCEPT ![s] = Append(BucketWithout(@, {e.vec}), e)]
           n == Evictions(bs, order, total)
           thrown == {order[i] : i \in 1 .. n}
           left == [t \in Sigs |-> BucketWithout(bs[t], {v \in Vecs : <<t, v>> \in thrown})]
           emptied == {k[1] : k \in thrown} \cap {t \in Sigs : left[t] = <<>>}
           rest == SubSeq(order, n + 1, Len(order))
           N == Len(order)
<1>1. /\ buckets' = left /\ lru' = rest
      /\ owner' = [t \in Sigs |-> IF t \in emptied THEN NoOwner ELSE IF t = s THEN NsOf[s] ELSE owner[t]]
      /\ bytes' = total - Weight(CachedAt(bs, thrown))
  BY DEF Evict
<1>2. /\ Tables(bs, order)
      /\ Cached(bs) = (Cached(buckets) \ CachedAt(buckets, K)) \cup {<<s, e>>}
  BY Touched
<1>3. total = Weight(Cached(bs))
  BY <1>2
<1>4. \A t \in Sigs \ {s} : bs[t] = buckets[t]
  BY DEF Tables, TablesTyped
<1> HIDE DEF order, bs
<1>5. /\ bs \in [Sigs -> Seq(Entry)] /\ order \in Seq(Sigs \X Vecs) /\ Distinct(order) /\ N \in Nat
      /\ \A t \in Sigs : bs[t] \in Seq(Entry) /\ Distinct(bs[t])
  BY <1>2 DEF Tables, TablesTyped, OnePerVec
<1>6. /\ n \in 0 .. N
      /\ n # N => N - n <= MaxEntries /\ WithinBytes(total - Weight(CachedAt(bs, thrown)))
  BY <1>5, EnoughEvicted
<1> HIDE DEF n
<1>7. rest \in Seq(Sigs \X Vecs) /\ Len(rest) = N - n /\ Lacks(rest, order, thrown)
  BY <1>5, <1>6, RestLacks
<1> HIDE DEF rest
<1>8. left \in [Sigs -> Seq(Entry)] /\ \A t \in Sigs : Lacks(left[t], bs[t], EntriesIn(bs, thrown, t))
  <2>1. ASSUME NEW t \in Sigs
        PROVE  left[t] \in Seq(Entry) /\ Lacks(left[t], bs[t], EntriesIn(bs, thrown, t))
    <3> DEFINE vs == {v \in Vecs : <<t, v>> \in thrown}
    <3>1. left[t] = BucketWithout(bs[t], vs)
      OBVIOUS
    <3>2. {f \in ToSet(bs[t]) : f.vec \in vs} = EntriesIn(bs, thrown, t)
      <4>1. \A f \in ToSet(bs[t]) : f.vec \in Vecs
        BY <1>5, ElementsIn DEF Entry
      <4> QED  BY <4>1 DEF EntriesIn
    <3> HIDE DEF vs, left, thrown
    <3>3. /\ BucketWithout(bs[t], vs) \in Seq(Entry)
          /\ Lacks(BucketWithout(bs[t], vs), bs[t], {f \in ToSet(bs[t]) : f.vec \in vs})
      BY <1>5, BucketLacks
    <3> QED  BY <3>1, <3>2, <3>3
  <2>2. left = [t \in Sigs |-> left[t]]
    OBVIOUS
  <2> HIDE DEF left
  <2> QED  BY <2>1, <2>2
<1> HIDE DEF left, thrown
<1>9. Tables(left, rest) /\ Cached(left) = Cached(bs) \ CachedAt(bs, thrown)
  BY <1>2, <1>7, <1>8, Dropped
<1>10. CachedAt(bs, thrown) \in SUBSET Cached(bs)
  BY DEF CachedAt
<1>11. /\ bytes' = Weight(Cached(left)) /\ bytes' \in Nat
       /\ Weight(CachedAt(bs, thrown)) \in Nat /\ total \in Nat
  <2>1. /\ Weight(Cached(bs) \ CachedAt(bs, thrown)) = Weight(Cached(bs)) - Weight(CachedAt(bs, thrown))
        /\ Weight(CachedAt(bs, thrown)) \in Nat /\ Weight(Cached(bs) \ CachedAt(bs, thrown)) \in Nat
    BY <1>2, <1>10, WeightWithout
  <2>2. Weight(Cached(left)) = total - Weight(CachedAt(bs, thrown)) /\ Weight(Cached(left)) \in Nat
    BY <1>3, <1>9, <2>1, Zenon
  <2>3. Weight(Cached(bs)) \in Nat
    BY <1>2, WeightWithout
  <2> QED  BY <1>1, <1>3, <2>1, <2>2, <2>3
<1>12. MaxEntries \in Nat /\ WithinBytes(0)
  BY ByteLimits
<1>13. Len(rest) <= MaxEntries /\ WithinBytes(bytes')
  <2>1. CASE n # N
    BY <1>1, <1>6, <1>7, <2>1
  <2>2. CASE n = N
    <3>1. Len(rest) = 0
      BY <1>5, <1>7, <2>2
    <3>2. ToSet(rest) = {}
      <4>1. DOMAIN rest = 1 .. 0
        BY <1>7, <3>1, Positions
      <4> QED  BY <4>1 DEF ToSet
    <3>3. Cached(left) = {}
      <4>1. ASSUME NEW h \in Cached(left)  PROVE FALSE
        <5>1. h[1] \in Sigs /\ h[2] \in Entry /\ h = <<h[1], h[2]>>
          BY <1>8, CachedHas
        <5>2. h[2] \in ToSet(left[h[1]]) /\ h[2].vec \in Vecs
          BY <1>8, <5>1, CachedHas DEF Entry
        <5>3. <<h[1], h[2].vec>> \in ToSet(rest)
          BY <1>9, <5>1, <5>2 DEF Tables, TablesAgreed
        <5> QED  BY <3>2, <5>3
      <4> QED  BY <4>1
    <3>4. UNION {{h} \X (1 .. h[2].size) : h \in {}} = {}
      OBVIOUS
    <3>5. Weight({}) = 0
      BY <3>4, FS_EmptySet DEF Weight
    <3>6. bytes' = 0
      BY <1>11, <3>3, <3>5, Zenon
    <3> QED  BY <1>12, <3>1, <3>6
  <2> QED  BY <2>1, <2>2
<1>14. \A t \in Sigs : owner'[t] = IF t \in emptied THEN NoOwner ELSE IF t = s THEN NsOf[s] ELSE owner[t]
  BY <1>1
<1>15. ASSUME NEW t \in Sigs  PROVE owner'[t] = IF left[t] = <<>> THEN NoOwner ELSE NsOf[t]
  <2>1. /\ ToSet(left[t]) = ToSet(bs[t]) \ EntriesIn(bs, thrown, t)
        /\ left[t] \in Seq(Entry) /\ bs[t] \in Seq(Entry)
    BY <1>5, <1>8 DEF Lacks
  <2>2. left[t] = <<>> <=> ToSet(left[t]) = {}
    BY <2>1, EmptyList
  <2>3. bs[t] = <<>> <=> ToSet(bs[t]) = {}
    BY <2>1, EmptyList
  <2>4. ToSet(bs[s]) # {}
    <3>1. <<s, e>> \in Cached(bs)
      BY <1>2
    <3> QED  BY <1>5, <3>1, CachedHas
  <2>5. t # s => owner[t] = IF bs[t] = <<>> THEN NoOwner ELSE NsOf[t]
    BY <1>4 DEF Owned
  <2>6. CASE left[t] # <<>>
    <3>1. t \notin emptied
      BY <2>6
    <3>2. bs[t] # <<>>
      BY <2>1, <2>2, <2>3, <2>6
    <3> QED  BY <1>14, <2>5, <2>6, <3>1, <3>2
  <2>7. CASE left[t] = <<>> /\ t \in emptied
    BY <1>14, <2>7
  <2>8. CASE left[t] = <<>> /\ t \notin emptied
    <3>1. t \notin {k[1] : k \in thrown}
      BY <2>8
    <3>2. EntriesIn(bs, thrown, t) = {}
      <4>1. \A f : <<t, f.vec>> \in thrown => <<t, f.vec>>[1] \in {k[1] : k \in thrown}
        OBVIOUS
      <4> QED  BY <3>1, <4>1 DEF EntriesIn
    <3>3. bs[t] = <<>> /\ t # s
      BY <2>1, <2>2, <2>3, <2>4, <2>8, <3>2
    <3> QED  BY <1>14, <2>5, <2>8, <3>3
  <2> QED  BY <2>6, <2>7, <2>8
<1>16. Owned(buckets', owner')
  BY <1>1, <1>15 DEF Owned
<1> QED  BY <1>1, <1>9, <1>11, <1>13, <1>16 DEF SemanticInv
LEMMA PutKeeps ==
  ASSUME SemanticInv, NEW s \in Sigs, NEW v \in Vecs, NEW size \in Sizes, Put(s, v, size)
  PROVE  SemanticInv'
<1> DEFINE e == [vec |-> v, size |-> size]
           K == {<<s, v>>}
           G == CachedAt(buckets, K)
           rest == Cached(buckets) \ G
           total == bytes - Weight(G) + size
<1>1. e \in Entry /\ e.size = size /\ size \in Nat /\ Key(<<s, e>>) = <<s, v>>
  BY SemanticCacheAssumption DEF Entry, Key
<1>2. Evict(s, e, total)
  BY DEF Put
<1>3. Tables(buckets, lru) /\ Owned(buckets, owner) /\ bytes = Weight(Cached(buckets))
  BY DEF SemanticInv
<1>4. <<s, e>> \notin rest
  BY <1>1 DEF CachedAt
<1> HIDE DEF e
<1>5. G \in SUBSET Cached(buckets)
  BY DEF CachedAt
<1>6. /\ Weight(rest) = bytes - Weight(G) /\ Weight(rest) \in Nat /\ IsFiniteSet(rest)
      /\ \A h \in rest : h[2].size \in Nat
  <2> HIDE DEF G
  <2>1. /\ Weight(Cached(buckets) \ G) = Weight(Cached(buckets)) - Weight(G)
        /\ Weight(Cached(buckets) \ G) \in Nat /\ IsFiniteSet(Cached(buckets) \ G)
        /\ \A h \in Cached(buckets) : h[2].size \in Nat
    BY <1>3, <1>5, WeightWithout
  <2>2. Weight(rest) = bytes - Weight(G)
    BY <1>3, <2>1, Zenon
  <2> QED  BY <2>1, <2>2
<1> HIDE DEF rest, G
<1>7. Weight({<<s, e>>}) = size
  <2>1. <<s, e>>[2].size = size
    BY <1>1
  <2> QED  BY <1>1, <2>1, WeightOfOne
<1>8. Weight(rest \cup {<<s, e>>}) = Weight(rest) + Weight({<<s, e>>})
  <2>1. IsFiniteSet({<<s, e>>})
    BY FS_Singleton
  <2>2. \A h \in rest \cup {<<s, e>>} : h[2].size \in Nat
    BY <1>1, <1>6
  <2>3. rest \cap {<<s, e>>} = {}
    BY <1>4
  <2> DEFINE O == {<<s, e>>}
  <2> HIDE DEF O
  <2>4. Weight(rest \cup O) = Weight(rest) + Weight(O)
    BY <1>6, <2>1, <2>2, <2>3, WeightsAdd DEF O
  <2> QED  BY <2>4 DEF O
<1>9. total = Weight(rest \cup {<<s, e>>})
  BY <1>6, <1>7, <1>8
<1>10. total = Weight((Cached(buckets) \ CachedAt(buckets, {Key(<<s, e>>)})) \cup {<<s, e>>})
  BY <1>1, <1>9, Zenon DEF rest, G
<1> HIDE DEF total
<1> QED  BY <1>1, <1>2, <1>3, <1>10, EvictKeeps

LEMMA InvalidateKeeps ==
  ASSUME SemanticInv, NEW n, Invalidate(n)
  PROVE  SemanticInv'
<1> DEFINE gone == {s \in Sigs : owner[s] = n}
           popped == {h \in Cached(buckets) : h[1] \in gone}
           K == {Key(h) : h \in popped}
<1>1. /\ buckets' = [s \in Sigs |-> IF s \in gone THEN <<>> ELSE buckets[s]]
      /\ lru' = Untouched(K)
      /\ owner' = [s \in Sigs |-> IF s \in gone THEN NoOwner ELSE owner[s]]
      /\ bytes' = bytes - Weight(popped)
  BY DEF Invalidate
<1>2. /\ Tables(buckets, lru) /\ Owned(buckets, owner) /\ bytes = Weight(Cached(buckets))
      /\ buckets \in [Sigs -> Seq(Entry)] /\ \A s \in Sigs : Distinct(buckets[s])
      /\ lru \in Seq(Sigs \X Vecs) /\ Distinct(lru) /\ Len(lru) <= MaxEntries /\ WithinBytes(bytes)
  BY DEF SemanticInv, Tables, TablesTyped, OnePerVec
<1>3. lru' \in Seq(Sigs \X Vecs) /\ Lacks(lru', lru, K)
  <2> HIDE DEF K
  <2>1. Untouched(K) \in Seq(Sigs \X Vecs) /\ Lacks(Untouched(K), lru, K)
    BY <1>2, UntouchedLacks
  <2>2. lru' = Untouched(K)
    BY <1>1, Zenon
  <2> QED  BY <2>1, <2>2, Zenon
<1>4. \A s \in Sigs : \A e \in ToSet(buckets[s]) : <<s, e.vec>> \in K <=> s \in gone
  <2>1. ASSUME NEW s \in Sigs, NEW e \in ToSet(buckets[s]), s \in gone  PROVE <<s, e.vec>> \in K
    <3>1. <<s, e>> \in popped
      BY <1>2, <2>1, CachedHas
    <3> QED  BY <3>1 DEF Key
  <2>2. ASSUME NEW s \in Sigs, NEW e \in ToSet(buckets[s]), <<s, e.vec>> \in K  PROVE s \in gone
    BY <2>2 DEF Key
  <2> QED  BY <2>1, <2>2
<1>5. CachedAt(buckets, K) = popped
  <2>1. ASSUME NEW h \in Cached(buckets)  PROVE Key(h) \in K <=> h[1] \in gone
    <3>1. h[1] \in Sigs /\ h[2] \in ToSet(buckets[h[1]])
      BY <1>2, CachedHas
    <3> HIDE DEF K, gone
    <3> QED  BY <1>4, <3>1 DEF Key
  <2> QED  BY <2>1 DEF CachedAt
<1> HIDE DEF K
<1>6. \A s \in Sigs : EntriesIn(buckets, K, s) = IF s \in gone THEN ToSet(buckets[s]) ELSE {}
  BY <1>4 DEF EntriesIn
<1>7. /\ buckets' \in [Sigs -> Seq(Entry)]
      /\ \A s \in Sigs : buckets'[s] = IF s \in gone THEN <<>> ELSE buckets[s]
  BY <1>1, <1>2
<1>8. \A s \in Sigs : Lacks(buckets'[s], buckets[s], EntriesIn(buckets, K, s))
  <2> SUFFICES ASSUME NEW s \in Sigs
               PROVE  Lacks(buckets'[s], buckets[s], EntriesIn(buckets, K, s))
    OBVIOUS
  <2>1. Lacks(buckets[s], buckets[s], {}) /\ Lacks(<<>>, buckets[s], ToSet(buckets[s]))
    BY <1>2, NothingLacks
  <2> HIDE DEF gone
  <2> QED  BY <1>6, <1>7, <2>1
<1>9. Tables(buckets', lru') /\ Cached(buckets') = Cached(buckets) \ CachedAt(buckets, K)
  BY <1>2, <1>3, <1>7, <1>8, Dropped
<1>10. bytes' = Weight(Cached(buckets')) /\ WithinBytes(bytes')
  <2> DEFINE G == CachedAt(buckets, K)
  <2>1. G \in SUBSET Cached(buckets)
    BY DEF CachedAt
  <2> HIDE DEF G, popped
  <2>2. /\ Weight(Cached(buckets) \ G) = Weight(Cached(buckets)) - Weight(G) /\ Weight(G) \in Nat
        /\ Weight(Cached(buckets) \ G) \in Nat
    BY <1>2, <2>1, WeightWithout
  <2>3. bytes' = bytes - Weight(G)
    BY <1>1, <1>5, Zenon DEF G
  <2>4. Weight(Cached(buckets')) = bytes - Weight(G)
    BY <1>2, <1>9, <2>2, Zenon DEF G
  <2>5. bytes \in Nat
    <3>1. Weight(Cached(buckets)) \in Nat
      <4>1. {} \in SUBSET Cached(buckets) /\ Cached(buckets) \ {} = Cached(buckets)
        OBVIOUS
      <4>2. Weight(Cached(buckets) \ {}) \in Nat
        BY <1>2, <4>1, WeightWithout
      <4> QED  BY <4>1, <4>2, Zenon
    <3> QED  BY <1>2, <3>1
  <2>6. bytes' \in Nat /\ bytes' <= bytes
    BY <1>2, <2>2, <2>3, <2>4, <2>5
  <2>7. WithinBytes(bytes')
    BY <1>2, <2>5, <2>6, ByteLimits
  <2> QED  BY <2>3, <2>4, <2>7
<1>11. Len(lru') <= MaxEntries
  <2>1. lru' \in Seq(Sigs \X Vecs) /\ Distinct(lru') /\ ToSet(lru') \in SUBSET ToSet(lru)
    BY <1>3 DEF Lacks
  <2>2. /\ Len(lru) = Cardinality(ToSet(lru)) /\ IsFiniteSet(ToSet(lru))
        /\ Len(lru') = Cardinality(ToSet(lru'))
    BY <1>2, <2>1, LengthIsSize
  <2>3. Cardinality(ToSet(lru')) <= Cardinality(ToSet(lru))
    BY <2>1, <2>2, FS_Subset
  <2>4. Len(lru) \in Nat /\ Len(lru') \in Nat /\ MaxEntries \in Nat
    <3>1. MaxEntries \in Nat
      BY SemanticCacheAssumption
    <3> QED  BY <1>2, <2>1, <3>1
  <2> QED  BY <1>2, <2>2, <2>3, <2>4
<1>12. Owned(buckets', owner')
  BY <1>1, <1>2, <1>7 DEF Owned
<1> QED  BY <1>9, <1>10, <1>11, <1>12 DEF SemanticInv

LEMMA SemanticAccounts == SemanticInv => CacheAccounting
<1> SUFFICES ASSUME SemanticInv  PROVE CacheAccounting
  OBVIOUS
<1>1. /\ Tables(buckets, lru) /\ buckets \in [Sigs -> Seq(Entry)]
      /\ lru \in Seq(Sigs \X Vecs) /\ Distinct(lru)
  BY DEF SemanticInv, Tables, TablesTyped
<1>2. ASSUME NEW s \in Sigs, NEW v \in Vecs
      PROVE  Count(lru, <<s, v>>) = Cardinality({i \in DOMAIN buckets[s] : buckets[s][i].vec = v})
  <2> DEFINE I == {i \in DOMAIN lru : lru[i] = <<s, v>>}
             J == {i \in DOMAIN buckets[s] : buckets[s][i].vec = v}
  <2>1. I # {} <=> J # {}
    <3>1. <<s, v>> \in ToSet(lru) <=> \E e \in ToSet(buckets[s]) : e.vec = v
      BY <1>1 DEF Tables, TablesAgreed
    <3> QED  BY <3>1 DEF ToSet
  <2>2. \A i, j \in I : i = j
    BY <1>1 DEF Distinct
  <2>3. \A i, j \in J : i = j
    <3> SUFFICES ASSUME NEW i \in J, NEW j \in J  PROVE i = j
      OBVIOUS
    <3>1. OnePerVec(buckets[s])
      BY <1>1 DEF Tables
    <3>2. buckets[s][i] \in ToSet(buckets[s]) /\ buckets[s][j] \in ToSet(buckets[s])
      BY DEF ToSet
    <3>3. buckets[s][i].vec = buckets[s][j].vec
      OBVIOUS
    <3>4. buckets[s][i] = buckets[s][j]
      BY <3>1, <3>2, <3>3 DEF OnePerVec
    <3> QED  BY <3>1, <3>4 DEF OnePerVec, Distinct
  <2> HIDE DEF I, J
  <2>4. Cardinality(I) = Cardinality(J)
    <3>1. CASE I = {}
      BY <2>1, <3>1
    <3>2. CASE I # {}
      <4>1. PICK i \in I, j \in J : TRUE
        BY <2>1, <3>2
      <4>2. I = {i} /\ J = {j}
        BY <2>2, <2>3, <4>1
      <4>3. Cardinality({i}) = 1 /\ Cardinality({j}) = 1
        BY FS_Singleton
      <4> QED  BY <4>2, <4>3
    <3> QED  BY <3>1, <3>2
  <2> QED  BY <2>4 DEF Count, I, J
<1>3. ASSUME NEW s \in Sigs, NEW i \in DOMAIN buckets[s], NEW j \in DOMAIN buckets[s],
             NEW k \in DOMAIN lru, NEW l \in DOMAIN lru,
             i < j, lru[k] = Key(<<s, buckets[s][i]>>), lru[l] = Key(<<s, buckets[s][j]>>)
      PROVE  k < l
  <2>1. /\ Precedes(buckets[s], buckets[s][i], buckets[s][j])
        /\ buckets[s][i] \in ToSet(buckets[s]) /\ buckets[s][j] \in ToSet(buckets[s])
    BY <1>3 DEF Precedes, ToSet
  <2>2. Precedes(lru, lru[k], lru[l])
    BY <1>1, <1>3, <2>1 DEF Tables, TablesAgreed, Key
  <2>3. PICK x \in DOMAIN lru, y \in DOMAIN lru : x < y /\ lru[x] = lru[k] /\ lru[y] = lru[l]
    BY <2>2 DEF Precedes
  <2>4. x = k /\ y = l
    BY <1>1, <2>3 DEF Distinct
  <2> QED  BY <2>3, <2>4
<1>4. \A i, j \in DOMAIN lru : lru[i] = lru[j] => i = j
  BY <1>1 DEF Distinct
<1>5. \A s \in Sigs : owner[s] = IF buckets[s] = <<>> THEN NoOwner ELSE NsOf[s]
  BY DEF SemanticInv, Owned
<1>6. bytes = Weight(Cached(buckets)) /\ Len(lru) <= MaxEntries /\ WithinBytes(bytes)
  BY DEF SemanticInv
<1> QED  BY <1>1, <1>2, <1>3, <1>4, <1>5, <1>6 DEF CacheAccounting

(* The four tables of the semantic cache describe the same entries after   *)
(* any calls to get, put and invalidate, and the limits hold.              *)
THEOREM SemanticCacheAccounts == SemanticCacheSpec => []CacheAccounting
<1>1. ASSUME SemanticInv, [SemanticCacheNext]_scvars  PROVE SemanticInv'
  <2>1. ASSUME NEW s \in Sigs, NEW q \in Vecs, Hit(s, q)  PROVE SemanticInv'
    BY <1>1, <2>1, HitKeeps
  <2>2. ASSUME NEW s \in Sigs, NEW v \in Vecs, NEW size \in Sizes, Put(s, v, size)  PROVE SemanticInv'
    BY <1>1, <2>2, PutKeeps
  <2>3. ASSUME NEW n, Invalidate(n)  PROVE SemanticInv'
    BY <1>1, <2>3, InvalidateKeeps
  <2>4. CASE UNCHANGED scvars
    BY <1>1, <2>4 DEF SemanticInv, scvars
  <2> QED  BY <1>1, <2>1, <2>2, <2>3, <2>4 DEF SemanticCacheNext
<1> QED  BY <1>1, InitSemantic, SemanticAccounts, PTL DEF SemanticCacheSpec
=============================================================================
