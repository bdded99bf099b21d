---------------------------- MODULE PagingProofs ----------------------------
(* What is proved of Chunk for texts and windows of any size, and of Paging  *)
(* for any agents, texts, lengths and lives of the cache.                    *)
EXTENDS Paging, TLAPS

-----------------------------------------------------------------------------
(* The window that Chunk cuts out of a text.                                 *)

\* A boundary is past the start of the window and not past its end.
LEMMA BoundaryIsInside ==
  ASSUME NEW runes, NEW low \in Int, NEW end \in Int, NEW b \in Boundary(runes, low, end)
  PROVE  b \in Int /\ low < b /\ b <= end
<1>1. CASE \E i \in low .. end - 2 : b = i + 2
  BY <1>1
<1>2. CASE \E i \in low .. end - 1 : b = i + 1
  BY <1>2
<1> QED
  BY <1>1, <1>2 DEF Boundary

LEMMA SnapIs ==
  ASSUME NEW runes, NEW start \in Int, NEW end \in Int, NEW maxLength \in Int
  PROVE  LET b == snapBoundary(runes, start, end, maxLength)
         IN  \/ b = end
             \/ /\ b \in Int /\ start < b /\ b <= end /\ end < Len(runes)
                /\ b - start >= maxLength \div 2
<1> DEFINE cuts == {b \in Boundary(runes, start, end) : b - start >= maxLength \div 2}
<1>1. CASE end >= Len(runes) \/ maxLength <= 0 \/ cuts = {}
  BY <1>1 DEF snapBoundary, SnappedTo
<1>2. CASE ~(end >= Len(runes) \/ maxLength <= 0 \/ cuts = {})
  <2> DEFINE cut == CHOOSE b \in cuts : TRUE
  <2>1. snapBoundary(runes, start, end, maxLength) = cut
    BY <1>2 DEF snapBoundary, SnappedTo
  <2>2. cut \in cuts
    BY <1>2
  <2>3. cut \in Int /\ start < cut /\ cut <= end /\ cut - start >= maxLength \div 2
    BY <2>2, BoundaryIsInside
  <2> HIDE DEF cuts, cut
  <2> QED
    BY <1>2, <2>1, <2>3
<1> QED
  BY <1>1, <1>2

\* A sum that fits is itself, and one that does not is negative.
LEMMA WrapIs ==
  ASSUME NEW n \in 0 .. 2 * IntMax
  PROVE  /\ Wrap(n) \in Int
         /\ n <= IntMax => Wrap(n) = n
         /\ n > IntMax => Wrap(n) < 0
<1> DEFINE m == IntMax + 1
<1>1. m \in Nat /\ m > 0 /\ n \in Nat /\ n < 2 * m
  BY IntAssumption
<1>2. Wrap(n) = ((n + m) % (2 * m)) - m
  BY IntAssumption DEF Wrap
<1> HIDE DEF m
<1>3. n < m => (n + m) % (2 * m) = n + m
  BY <1>1
<1>4. n >= m => (n + m) % (2 * m) = n - m
  BY <1>1
<1> USE DEF m
<1> QED
  BY <1>1, <1>2, <1>3, <1>4, IntAssumption

\* Where the window starts, and that whatever is cut out of the text is in it and
\* starts there.
LEMMA SliceIsInside ==
  ASSUME NEW runes \in Seq(BOOLEAN), NEW startIndex \in Nat, NEW maxLength \in Int,
         Wrap(Start(runes, startIndex) + maxLength) \in Int
  PROVE  LET chunk == ChunkOf(runes, startIndex, maxLength)
             start == Start(runes, startIndex)
         IN  /\ start \in 0 .. Len(runes) /\ (startIndex <= Len(runes) => start = startIndex)
             /\ chunk.tag \in {"slice", "panic"}
             /\ chunk.tag = "slice" =>
                  /\ chunk.from = start
                  /\ chunk.to \in start .. Len(runes)
<1> DEFINE start == Start(runes, startIndex)
           end == End(runes, start, maxLength)
           to == snapBoundary(runes, start, end, maxLength)
<1>1. start \in 0 .. Len(runes) /\ (startIndex <= Len(runes) => start = startIndex)
  BY DEF Start
<1>2. end \in Int /\ end <= Len(runes)
  BY DEF End
<1>3. to \in Int /\ to <= Len(runes)
  <2> HIDE DEF start, end
  <2> QED
    BY <1>1, <1>2, SnapIs
<1>4. ChunkOf(runes, startIndex, maxLength) = Slice(start, to)
  BY DEF ChunkOf
<1> HIDE DEF start, end, to
<1>5. /\ Slice(start, to).tag \in {"slice", "panic"}
      /\ Slice(start, to).tag = "slice" =>
           Slice(start, to).from = start /\ Slice(start, to).to = to /\ start <= to
  BY DEF Slice
<1>6. start = Start(runes, startIndex)
  BY DEF start
<1> QED
  BY <1>1, <1>3, <1>4, <1>5, <1>6

\* Chunk as it is promised (content.go:136-137, 156-158): if the window does not
\* reach past the largest int, a slice of the text comes back that starts where
\* it was asked for, is no longer than asked for and, if it is not the last,
\* keeps half of that.
THEOREM ChunkIsAWindow ==
  ASSUME NEW runes \in Seq(BOOLEAN), NEW startIndex \in Nat, NEW maxLength \in 1 .. IntMax,
         Len(runes) + maxLength <= IntMax
  PROVE  LET chunk == ChunkOf(runes, startIndex, maxLength)
         IN  /\ chunk.tag = "slice"
             /\ startIndex <= Len(runes) => chunk.from = startIndex
             /\ startIndex > Len(runes) => chunk.from = Len(runes)
             /\ chunk.to \in chunk.from .. Len(runes)
             /\ chunk.to - chunk.from <= maxLength
             /\ chunk.to = Len(runes) \/ chunk.to - chunk.from >= maxLength \div 2
             /\ chunk.from < Len(runes) => chunk.from < chunk.to
<1> DEFINE start == Start(runes, startIndex)
           end == End(runes, start, maxLength)
           to == snapBoundary(runes, start, end, maxLength)
<1>1. /\ start \in 0 .. Len(runes)
      /\ startIndex <= Len(runes) => start = startIndex
      /\ startIndex > Len(runes) => start = Len(runes)
  BY DEF Start
<1>2. Wrap(start + maxLength) = start + maxLength
  <2> HIDE DEF start
  <2>1. start + maxLength \in 0 .. 2 * IntMax /\ start + maxLength <= IntMax
    BY <1>1, IntAssumption
  <2> QED
    BY <2>1, WrapIs
<1>3. /\ end \in Int /\ end <= Len(runes) /\ start <= end
      /\ end <= start + maxLength
      /\ end = Len(runes) \/ end = start + maxLength
  <2> HIDE DEF start
  <2> QED
    BY <1>1, <1>2 DEF End
<1>4. /\ to \in Int /\ start <= to /\ to <= end
      /\ to = Len(runes) \/ to - start >= maxLength \div 2
      /\ start < Len(runes) => start < to
  <2> HIDE DEF start, end
  <2> QED
    BY <1>1, <1>3, SnapIs
<1>5. ChunkOf(runes, startIndex, maxLength) = Slice(start, to)
  BY DEF ChunkOf
<1> HIDE DEF start, end, to
<1>6. Slice(start, to) = [tag |-> "slice", from |-> start, to |-> to]
  BY <1>4 DEF Slice
<1> QED
  BY <1>1, <1>3, <1>4, <1>5, <1>6

-----------------------------------------------------------------------------
(* The invariant of the cache.                                               *)

\* The shapes the proofs need.
ShapeInv ==
    /\ now \in Nat
    /\ live \in Version
    /\ DOMAIN pc = Agent /\ DOMAIN entry = Agent /\ DOMAIN age = Agent
    /\ DOMAIN gathered = Agent /\ DOMAIN reply = Agent
    /\ \A a \in Agent : pc[a] \in {"store", "reply"} =>
         entry[a].version \in Version /\ entry[a].asof \in Nat

\* An entry of the cache expires a life after it was stored, and it was stored
\* soon after the site served it.
ItemsInv ==
    \A k \in DOMAIN items :
        /\ items[k].value.version \in Version
        /\ items[k].value.asof \in 0 .. now
        /\ items[k].expires \in Nat
        /\ items[k].expires <= items[k].value.asof + Slack + TTL

\* So does an entry that is about to be stored.
StoreInv ==
    \A a \in Agent : pc[a] = "store" =>
        entry[a].asof <= now /\ now <= entry[a].asof + Slack

AgeInv == \A a \in Agent : age[a] \in Nat /\ age[a] <= TTL + Slack

CacheInv == ShapeInv /\ ItemsInv /\ StoreInv /\ AgeInv

-----------------------------------------------------------------------------
(* The cache.                                                                *)

LEMMA Assumed ==
  /\ TTL \in Nat /\ Slack \in Nat /\ MaxTime \in Nat /\ DefaultMaxLen \in Int
  /\ Lengths \subseteq Int
  /\ \A v \in Version : Text[v] \in Seq(BOOLEAN)
  /\ 1 \in Version /\ Version \subseteq Int
BY PagingAssumption DEF Version

LEMMA RestrictIs ==
  ASSUME NEW m, NEW S
  PROVE  /\ DOMAIN Cache!Restrict(m, S) = S
         /\ \A k \in S : Cache!Restrict(m, S)[k] = m[k]
BY DEF Cache!Restrict

\* Get leaves some of the entries, as they were.
LEMMA GetLeaves ==
  /\ DOMAIN Cache!AfterGet(items, Page, now) \subseteq DOMAIN items
  /\ \A k \in DOMAIN Cache!AfterGet(items, Page, now) :
       Cache!AfterGet(items, Page, now)[k] = items[k]
BY RestrictIs DEF Cache!AfterGet

LEMMA EvictLeaves ==
  ASSUME NEW m, NEW left \in Cache!EvictOldest(m)
  PROVE  /\ DOMAIN left \subseteq DOMAIN m
         /\ \A k \in DOMAIN left : left[k] = m[k]
<1>1. PICK k \in Cache!Oldest(m) : left = Cache!Restrict(m, DOMAIN m \ ({k} \ {""}))
  BY DEF Cache!EvictOldest
<1> QED
  BY <1>1, RestrictIs

\* Set leaves some of them, and the new one.
LEMMA SetLeaves ==
  ASSUME NEW v, NEW left \in Cache!Stored(items, Page, v, now), NEW k \in DOMAIN left
  PROVE  \/ k \in DOMAIN items /\ left[k] = items[k]
         \/ k = Page /\ left[k] = [value |-> v, expires |-> now + TTL]
<1> DEFINE live_ == Cache!DropExpired(items, now)
<1>1. DOMAIN live_ \subseteq DOMAIN items /\ \A j \in DOMAIN live_ : live_[j] = items[j]
  BY RestrictIs DEF Cache!DropExpired, Cache!Live
<1> HIDE DEF live_
<1>2. PICK room \in Cache!Room(live_) :
        left = Cache!Put(room, Page, [value |-> v, expires |-> now + TTL])
  BY DEF Cache!Stored, live_
<1>3. DOMAIN room \subseteq DOMAIN live_ /\ \A j \in DOMAIN room : room[j] = live_[j]
  BY EvictLeaves DEF Cache!Room
<1> QED
  BY <1>1, <1>2, <1>3 DEF Cache!Put

LEMMA CacheInit == Init => CacheInv
<1> SUFFICES ASSUME Init PROVE CacheInv
  OBVIOUS
<1>1. DOMAIN items = {}
  BY DEF Init
<1> QED
  BY <1>1, Assumed DEF Init, CacheInv, ShapeInv, ItemsInv, StoreInv, AgeInv

LEMMA CacheStep == CacheInv /\ [Next]_vars => CacheInv'
<1> SUFFICES ASSUME CacheInv, [Next]_vars PROVE CacheInv'
  OBVIOUS
<1> USE Assumed DEF CacheInv, ShapeInv
<1>1. CASE Elapse
  <2>1. ItemsInv' /\ AgeInv'
    BY <1>1 DEF Elapse, ItemsInv, AgeInv
  <2>2. StoreInv'
    BY <1>1 DEF Elapse, StoreInv
  <2> QED
    BY <1>1, <2>1, <2>2 DEF Elapse
<1>2. CASE Publish
  BY <1>2 DEF Publish, ItemsInv, StoreInv, AgeInv
<1>3. CASE OthersEvict
  <2>1. DOMAIN items' \subseteq DOMAIN items /\ \A k \in DOMAIN items' : items'[k] = items[k]
    BY <1>3, EvictLeaves DEF OthersEvict
  <2>2. ItemsInv'
    BY <1>3, <2>1 DEF OthersEvict, ItemsInv
  <2> QED
    BY <1>3, <2>2 DEF OthersEvict, StoreInv, AgeInv
<1>4. ASSUME NEW a \in Agent, Begin(a) \/ FetchFails(a) \/ Continue(a) \/ Finish(a)
      PROVE  CacheInv'
  <2>1. UNCHANGED <<now, live, items, entry, age>> /\ DOMAIN pc' = Agent
    BY <1>4 DEF Begin, FetchFails, Continue, Finish, Goto
  <2>2. \A b \in Agent : pc'[b] \in {"store", "reply"} => pc'[b] = pc[b]
    BY <1>4 DEF Begin, FetchFails, Continue, Finish, Goto
  <2>3. DOMAIN gathered' = Agent /\ DOMAIN reply' = Agent
    BY <1>4 DEF Begin, FetchFails, Continue, Finish
  <2> QED
    BY <2>1, <2>2, <2>3 DEF ItemsInv, StoreInv, AgeInv
<1>5. ASSUME NEW a \in Agent, Lookup(a) PROVE CacheInv'
  <2>1. UNCHANGED <<now, live, gathered, reply>> /\ DOMAIN pc' = Agent
    BY <1>5 DEF Lookup, Goto
  <2>2. ItemsInv'
    BY <1>5, GetLeaves DEF Lookup, ItemsInv
  <2>3. CASE Cache!Served(items, Page, now)
    <3>1. /\ Page \in DOMAIN items /\ now <= items[Page].expires
          /\ pc' = [pc EXCEPT ![a] = "reply"]
          /\ entry' = [entry EXCEPT ![a] = items[Page].value]
          /\ age' = [age EXCEPT ![a] = now - items[Page].value.asof]
      BY <1>5, <2>3 DEF Lookup, Goto, Cache!Served, Cache!Expired, ItemsInv
    <3>2. AgeInv'
      <4>1. \A b \in Agent : b # a => age'[b] = age[b]
        BY <3>1
      <4>2. /\ items[Page].value.asof \in 0 .. now /\ items[Page].expires \in Nat
            /\ items[Page].expires <= items[Page].value.asof + Slack + TTL
        BY <3>1 DEF ItemsInv
      <4>3. age'[a] = now - items[Page].value.asof
        BY <3>1 DEF ShapeInv
      <4>4. now \in Nat /\ now <= items[Page].expires /\ Slack \in Nat /\ TTL \in Nat
        BY <3>1, PagingAssumption DEF ShapeInv
      <4>5. age'[a] \in Nat /\ age'[a] <= TTL + Slack
        <5> DEFINE asof == items[Page].value.asof
                   expires == items[Page].expires
        <5>1. asof \in Int /\ 0 <= asof /\ asof <= now /\ expires \in Int
              /\ expires <= asof + Slack + TTL /\ now <= expires
          BY <4>2, <4>4
        <5> HIDE DEF asof, expires
        <5>2. now - asof \in Nat /\ now - asof <= TTL + Slack
          BY <4>4, <5>1
        <5> QED
          BY <4>3, <5>2 DEF asof
      <4> QED
        BY <4>1, <4>5 DEF AgeInv
    <3>3. StoreInv'
      BY <2>1, <3>1 DEF StoreInv
    <3> QED
      BY <2>1, <2>2, <3>1, <3>2, <3>3 DEF ItemsInv
  <2>4. CASE ~Cache!Served(items, Page, now)
    <3>1. pc' = [pc EXCEPT ![a] = "fetch"] /\ UNCHANGED <<entry, age>>
      BY <1>5, <2>4 DEF Lookup, Goto
    <3> QED
      BY <2>1, <2>2, <3>1 DEF StoreInv, AgeInv
  <2> QED
    BY <2>3, <2>4
<1>6. ASSUME NEW a \in Agent, Fetched(a) PROVE CacheInv'
  <2>1. /\ UNCHANGED <<now, live, items, age, gathered, reply>>
        /\ entry' = [entry EXCEPT ![a] = [version |-> live, asof |-> now]]
        /\ DOMAIN pc' = Agent /\ \A b \in Agent \ {a} : pc'[b] = pc[b]
    BY <1>6 DEF Fetched, Goto
  <2> QED
    BY <2>1 DEF ItemsInv, StoreInv, AgeInv
<1>7. ASSUME NEW a \in Agent, Store(a) PROVE CacheInv'
  <2>1. /\ UNCHANGED <<now, live, entry, age, gathered, reply>>
        /\ pc[a] = "store" /\ pc' = [pc EXCEPT ![a] = "reply"]
        /\ items' \in Cache!Stored(items, Page, entry[a], now)
    BY <1>7 DEF Store, Goto
  <2>2. ItemsInv'
    <3> SUFFICES ASSUME NEW k \in DOMAIN items'
                 PROVE  /\ items'[k].value.version \in Version
                        /\ items'[k].value.asof \in 0 .. now
                        /\ items'[k].expires \in Nat
                        /\ items'[k].expires <= items'[k].value.asof + Slack + TTL
      BY <2>1 DEF ItemsInv
    <3>1. CASE k \in DOMAIN items /\ items'[k] = items[k]
      BY <3>1 DEF ItemsInv
    <3>2. CASE items'[k] = [value |-> entry[a], expires |-> now + TTL]
      BY <2>1, <3>2 DEF StoreInv
    <3> QED
      BY <2>1, <3>1, <3>2, SetLeaves
  <2> QED
    BY <2>1, <2>2 DEF StoreInv, AgeInv
<1>8. ASSUME NEW a \in Agent, Answer(a) PROVE CacheInv'
  <2>1. /\ UNCHANGED <<now, live, items>>
        /\ pc' = [pc EXCEPT ![a] = "next"]
        /\ entry' = [entry EXCEPT ![a] = None]
        /\ age' = [age EXCEPT ![a] = 0]
        /\ DOMAIN gathered' = Agent /\ DOMAIN reply' = Agent
    BY <1>8 DEF Answer, Goto
  <2> QED
    BY <2>1 DEF ItemsInv, StoreInv, AgeInv
<1>9. CASE UNCHANGED vars
  BY <1>9 DEF vars, ItemsInv, StoreInv, AgeInv
<1> QED
  BY <1>1, <1>2, <1>3, <1>4, <1>5, <1>6, <1>7, <1>8, <1>9 DEF Next, Step

LEMMA AlwaysCached == Spec => []CacheInv
<1> QED
  BY CacheInit, CacheStep, PTL DEF Spec

\* However calls and the page's changes interleave, a call shows what the site
\* served no longer ago than FETCH_CACHE_TTL and the time it took to store it.
THEOREM HitsAreRecent == Spec => []StaleAtMostTTL
<1>1. CacheInv => StaleAtMostTTL
  BY DEF CacheInv, AgeInv, StaleAtMostTTL
<1> QED
  BY <1>1, AlwaysCached, PTL

-----------------------------------------------------------------------------
(* The reading.                                                              *)

\* What an agent has read lies without a gap, whatever versions it is of; when it
\* has all there is, its last character is of the text it was told the length of.
ReadInv ==
    \A a \in Agent :
        /\ gathered[a] \in Seq(Version \X Int)
        /\ \A i \in 1 .. Len(gathered[a]) : gathered[a][i][2] = i - 1
        /\ Complete(a) /\ gathered[a] # <<>> =>
             Len(gathered[a]) = Len(Text[gathered[a][Len(gathered[a])][1]])

\* Chunk returns, and a chunk that is not the last keeps half of what was asked
\* for.
KeepInv ==
    \A a \in Agent :
        /\ reply[a].tag # "panic"
        /\ reply[a].tag = "chunk" =>
             /\ reply[a].size <= reply[a].asked
             /\ Complete(a) \/ reply[a].size >= reply[a].asked \div 2

LEMMA ConcatIs ==
  ASSUME NEW S, NEW g \in Seq(S), NEW m \in Nat, NEW h \in [1 .. m -> S]
  PROVE  /\ g \o h \in Seq(S)
         /\ Len(g \o h) = Len(g) + m
         /\ \A i \in 1 .. Len(g) : (g \o h)[i] = g[i]
         /\ \A i \in Len(g) + 1 .. Len(g) + m : (g \o h)[i] = h[i - Len(g)]
<1>1. h \in Seq(S) /\ Len(h) = m
  OBVIOUS
<1> QED
  BY <1>1

LEMMA WrapInInt == \A n \in Int : Wrap(n) \in Int
BY IntAssumption DEF Wrap

\* What Answer does: there is a chunk of the entry's text from the end of what has
\* been read, or the reply is an error.
LEMMA AnswerDoes ==
  ASSUME CacheInv, ReadInv, NEW a \in Agent, Answer(a)
  PROVE  LET v == entry[a].version
             n == Len(gathered[a])
         IN  /\ v \in Version
             /\ \/ UNCHANGED gathered /\ reply' = [reply EXCEPT ![a] = Failed]
                \/ /\ UNCHANGED gathered /\ reply' = [reply EXCEPT ![a] = Panic]
                   /\ \E asked \in Lengths : ChunkOf(Text[v], n, maxLen(asked)).tag = "panic"
                \/ \E asked \in Lengths, to \in Int :
                     /\ n = 0 \/ n < Len(Text[v])
                     /\ ChunkOf(Text[v], n, maxLen(asked)) = [tag |-> "slice", from |-> n, to |-> to]
                     /\ to \in n .. Len(Text[v])
                     /\ reply' = [reply EXCEPT ![a] =
                          Piece(to - n, maxLen(asked), Len(Text[v]))]
                     /\ gathered' = [gathered EXCEPT ![a] =
                          @ \o [i \in 1 .. to - n |-> <<v, n + i - 1>>]]
<1> DEFINE v == entry[a].version
           n == Len(gathered[a])
           total == Len(Text[v])
           Chunk_(asked) == ChunkOf(Text[v], n, maxLen(asked))
<1>1. v \in Version /\ Text[v] \in Seq(BOOLEAN) /\ n \in Nat /\ total \in Nat
  <2>1. v \in Version /\ Text[v] \in Seq(BOOLEAN)
    BY Assumed DEF CacheInv, ShapeInv, Answer
  <2>2. gathered[a] \in Seq(Version \X Int)
    BY DEF ReadInv
  <2> QED
    BY <2>1, <2>2
<1>2. PICK asked \in Lengths :
        LET chunk == Chunk_(asked)
        IN  IF chunk.tag = "panic"
              THEN reply' = [reply EXCEPT ![a] = Panic] /\ UNCHANGED gathered
            ELSE IF n > 0 /\ n >= total
              THEN reply' = [reply EXCEPT ![a] = Failed] /\ UNCHANGED gathered
            ELSE /\ reply' = [reply EXCEPT ![a] =
                       Piece(chunk.to - chunk.from, maxLen(asked), total)]
                 /\ gathered' = [gathered EXCEPT ![a] =
                       @ \o [i \in 1 .. chunk.to - chunk.from |-> <<v, chunk.from + i - 1>>]]
  BY DEF Answer
<1> DEFINE chunk == Chunk_(asked)
<1>3. CASE chunk.tag = "panic" \/ (n > 0 /\ n >= total)
  BY <1>1, <1>2, <1>3
<1>4. CASE ~(chunk.tag = "panic" \/ (n > 0 /\ n >= total))
  <2>1. maxLen(asked) \in Int
    BY Assumed DEF maxLen
  <2>2. Start(Text[v], n) \in Int
    BY <1>1 DEF Start
  <2>3. Wrap(Start(Text[v], n) + maxLen(asked)) \in Int
    BY <2>1, <2>2, WrapInInt
  <2>4. chunk.tag = "slice" /\ chunk.from = n /\ chunk.to \in n .. total
    BY <1>1, <1>4, <2>1, <2>3, SliceIsInside
  <2>5. chunk = [tag |-> "slice", from |-> n, to |-> chunk.to]
    BY <2>4 DEF ChunkOf, Slice
  <2>6. n = 0 \/ n < total
    BY <1>1, <1>4
  <2>7. chunk.to \in Int
    BY <1>1, <2>4
  <2> QED
    BY <1>1, <1>2, <1>4, <2>4, <2>5, <2>6, <2>7
<1> QED
  BY <1>3, <1>4

LEMMA ReadInit == Init => ReadInv
BY DEF Init, ReadInv, Complete, NoReply

\* The other steps leave the reading alone or end it.
LEMMA ReadStepOther ==
  ASSUME CacheInv, ReadInv, [Next]_vars, \A a \in Agent : ~Answer(a)
  PROVE  ReadInv'
<1>1. CASE UNCHANGED <<gathered, reply>>
  BY <1>1 DEF ReadInv, Complete
<1>2. ASSUME NEW a \in Agent, FetchFails(a) \/ Continue(a) PROVE ReadInv'
  <2>1. UNCHANGED gathered /\ (reply' = [reply EXCEPT ![a] = Failed]
                               \/ reply' = [reply EXCEPT ![a] = NoReply])
    BY <1>2 DEF FetchFails, Continue
  <2>2. \A b \in Agent : Complete(b)' => Complete(b)
    BY <2>1 DEF Complete, CacheInv, ShapeInv, Failed, NoReply
  <2> QED
    BY <2>1, <2>2 DEF ReadInv
<1>3. ASSUME NEW a \in Agent, Finish(a) PROVE ReadInv'
  <2>1. /\ gathered' = [gathered EXCEPT ![a] = <<>>]
        /\ reply' = [reply EXCEPT ![a] = NoReply]
    BY <1>3 DEF Finish
  <2>2. gathered'[a] = <<>>
    BY <2>1 DEF CacheInv, ShapeInv
  <2>3. \A b \in Agent \ {a} : gathered'[b] = gathered[b] /\ reply'[b] = reply[b]
    BY <2>1 DEF CacheInv, ShapeInv
  <2> SUFFICES ASSUME NEW b \in Agent
               PROVE  /\ gathered'[b] \in Seq(Version \X Int)
                      /\ \A i \in 1 .. Len(gathered'[b]) : gathered'[b][i][2] = i - 1
                      /\ Complete(b)' /\ gathered'[b] # <<>> =>
                           Len(gathered'[b]) = Len(Text[gathered'[b][Len(gathered'[b])][1]])
    BY DEF ReadInv
  <2>4. CASE b = a
    <3>1. gathered'[b] = <<>>
      BY <2>2, <2>4
    <3>2. gathered'[b] \in Seq(Version \X Int)
      BY <3>1
    <3>3. \A i \in 1 .. Len(gathered'[b]) : gathered'[b][i][2] = i - 1
      BY <3>1
    <3> QED
      BY <3>1, <3>2, <3>3
  <2>5. CASE b # a
    BY <2>3, <2>5 DEF ReadInv, Complete
  <2> QED
    BY <2>4, <2>5
<1> QED
  BY <1>1, <1>2, <1>3 DEF Next, Step, vars, Elapse, Publish, OthersEvict, Begin, Lookup,
     Fetched, Store

LEMMA ReadStepAnswer ==
  ASSUME CacheInv, ReadInv, NEW a \in Agent, Answer(a)
  PROVE  ReadInv'
<1> DEFINE v == entry[a].version
           g == gathered[a]
           n == Len(g)
<1>1. v \in Version /\ Text[v] \in Seq(BOOLEAN) /\ g \in Seq(Version \X Int)
  BY AnswerDoes, Assumed DEF ReadInv
<1>2. ASSUME UNCHANGED gathered,
             \/ reply' = [reply EXCEPT ![a] = Failed]
             \/ reply' = [reply EXCEPT ![a] = Panic]
      PROVE  ReadInv'
  <2>1. \A b \in Agent : Complete(b)' => Complete(b)
    BY <1>2 DEF Complete, CacheInv, ShapeInv, Failed, Panic
  <2> QED
    BY <1>2, <2>1 DEF ReadInv
<1>3. ASSUME NEW asked \in Lengths, NEW to \in Int,
             n = 0 \/ n < Len(Text[v]),
             to \in n .. Len(Text[v]),
             reply' = [reply EXCEPT ![a] = Piece(to - n, maxLen(asked), Len(Text[v]))],
             gathered' = [gathered EXCEPT ![a] =
                 @ \o [i \in 1 .. to - n |-> <<v, n + i - 1>>]]
      PROVE  ReadInv'
  <2> DEFINE h == [i \in 1 .. to - n |-> <<v, n + i - 1>>]
  <2>1. gathered'[a] = g \o h /\ reply'[a].total = Len(Text[v])
    BY <1>3 DEF CacheInv, ShapeInv, Piece
  <2>2. n \in Nat /\ to - n \in Nat /\ to <= Len(Text[v])
    BY <1>1, <1>3
  <2>3. h \in [1 .. to - n -> Version \X Int]
    BY <1>1, <2>2
  <2>4. /\ g \o h \in Seq(Version \X Int)
        /\ Len(g \o h) = to
        /\ \A i \in 1 .. n : (g \o h)[i] = g[i]
        /\ \A i \in n + 1 .. to : (g \o h)[i] = h[i - n]
    <3> DEFINE m == to - n
    <3>1. m \in Nat /\ h \in [1 .. m -> Version \X Int] /\ g \in Seq(Version \X Int)
      BY <1>1, <2>2, <2>3
    <3> HIDE DEF h, g, m
    <3>2. /\ g \o h \in Seq(Version \X Int)
          /\ Len(g \o h) = Len(g) + m
          /\ \A i \in 1 .. Len(g) : (g \o h)[i] = g[i]
          /\ \A i \in Len(g) + 1 .. Len(g) + m : (g \o h)[i] = h[i - Len(g)]
      BY <3>1, ConcatIs
    <3>3. n + m = to
      BY <2>2, <1>3 DEF m
    <3> QED
      BY <3>2, <3>3
  <2>5. \A i \in n + 1 .. to : h[i - n] = <<v, i - 1>>
    BY <2>2, <1>3
  <2>6. \A i \in 1 .. to : (g \o h)[i][2] = i - 1
    <3> SUFFICES ASSUME NEW i \in 1 .. to PROVE (g \o h)[i][2] = i - 1
      OBVIOUS
    <3>1. \A j \in 1 .. n : g[j][2] = j - 1
      BY DEF ReadInv
    <3> HIDE DEF h, g, n
    <3>2. i \in 1 .. n \/ i \in n + 1 .. to
      BY <2>2, <1>3
    <3>3. CASE i \in 1 .. n
      BY <2>4, <3>1, <3>3
    <3>4. CASE i \in n + 1 .. to
      <4>1. (g \o h)[i] = <<v, i - 1>>
        BY <2>4, <2>5, <3>4
      <4> QED
        BY <4>1
    <3> QED
      BY <3>2, <3>3, <3>4
  <2>7. Complete(a)' /\ g \o h # <<>> => to = Len(Text[v]) /\ (g \o h)[to][1] = v
    <3> SUFFICES ASSUME Complete(a)', g \o h # <<>>
                 PROVE  to = Len(Text[v]) /\ (g \o h)[to][1] = v
      OBVIOUS
    <3>1. to >= Len(Text[v])
      BY <2>1, <2>4 DEF Complete
    <3>2. to = Len(Text[v]) /\ to # 0
      BY <1>3, <2>2, <2>4, <3>1
    <3>3. n < to
      BY <1>3, <2>2, <3>2
    <3> HIDE DEF h, g, n
    <3>4. to \in n + 1 .. to
      BY <2>2, <3>3, <1>3
    <3>5. (g \o h)[to] = <<v, to - 1>>
      BY <2>4, <2>5, <3>4
    <3> QED
      BY <3>2, <3>5
  <2> HIDE DEF h
  <2>8. \A b \in Agent \ {a} : gathered'[b] = gathered[b] /\ reply'[b] = reply[b]
    BY <1>3 DEF CacheInv, ShapeInv
  <2> SUFFICES ASSUME NEW b \in Agent
               PROVE  /\ gathered'[b] \in Seq(Version \X Int)
                      /\ \A i \in 1 .. Len(gathered'[b]) : gathered'[b][i][2] = i - 1
                      /\ Complete(b)' /\ gathered'[b] # <<>> =>
                           Len(gathered'[b]) = Len(Text[gathered'[b][Len(gathered'[b])][1]])
    BY DEF ReadInv
  <2>9. CASE b = a
    BY <2>1, <2>4, <2>6, <2>7, <2>9
  <2>10. CASE b # a
    BY <2>8, <2>10 DEF ReadInv, Complete
  <2> QED
    BY <2>9, <2>10
<1> HIDE DEF v, g, n
<1> QED
  BY <1>2, <1>3, AnswerDoes DEF v, g, n

LEMMA AlwaysRead == Spec => [](CacheInv /\ ReadInv)
<1>1. CacheInv /\ ReadInv /\ [Next]_vars => ReadInv'
  BY ReadStepOther, ReadStepAnswer
<1> QED
  BY <1>1, CacheInit, CacheStep, ReadInit, PTL DEF Spec

\* What an agent reads lies without a gap, and when it has all there is, it has
\* the whole of the text, wherever the chunks were cut (content.go:136-137).
\* This needs nothing of the lengths.
THEOREM ReadingsAreLossless == Spec => []PagingIsLossless
<1>1. ReadInv => PagingIsLossless
  <2> SUFFICES ASSUME ReadInv, NEW a \in Agent, NEW v \in Version,
                      \A i \in DOMAIN gathered[a] : gathered[a][i][1] = v
               PROVE  /\ \A i \in DOMAIN gathered[a] : gathered[a][i][2] = i - 1
                      /\ Complete(a) /\ gathered[a] # <<>> => Len(gathered[a]) = Len(Text[v])
    BY DEF PagingIsLossless
  <2>1. gathered[a] \in Seq(Version \X Int)
    BY DEF ReadInv
  <2>2. DOMAIN gathered[a] = 1 .. Len(gathered[a])
    BY <2>1
  <2>3. gathered[a] # <<>> => Len(gathered[a]) \in DOMAIN gathered[a]
    BY <2>1
  <2> QED
    BY <2>2, <2>3 DEF ReadInv
<1> QED
  BY <1>1, AlwaysRead, PTL

-----------------------------------------------------------------------------
(* The size of the chunks.                                                   *)

\* No window reaches past the largest int, and DEFAULT_MAX_LEN is positive.
WindowsFit ==
    /\ DefaultMaxLen > 0
    /\ \A v \in Version, asked \in Lengths : Len(Text[v]) + maxLen(asked) <= IntMax

LEMMA KeepInit == Init => KeepInv
BY DEF Init, KeepInv, NoReply

LEMMA KeepStep ==
  ASSUME WindowsFit, CacheInv, ReadInv, KeepInv, [Next]_vars
  PROVE  KeepInv'
<1>1. CASE UNCHANGED <<gathered, reply>>
  BY <1>1 DEF KeepInv, Complete
<1>2. ASSUME NEW a \in Agent, FetchFails(a) \/ Continue(a) \/ Finish(a) PROVE KeepInv'
  <2>1. /\ \A b \in Agent \ {a} : gathered'[b] = gathered[b] /\ reply'[b] = reply[b]
        /\ reply'[a] \in {Failed, NoReply}
    BY <1>2 DEF FetchFails, Continue, Finish, CacheInv, ShapeInv
  <2> QED
    BY <2>1 DEF KeepInv, Complete, Failed, NoReply
<1>3. ASSUME NEW a \in Agent, Answer(a) PROVE KeepInv'
  <2> DEFINE v == entry[a].version
             n == Len(gathered[a])
             total == Len(Text[v])
  <2>1. /\ v \in Version /\ Text[v] \in Seq(BOOLEAN)
        /\ gathered[a] \in Seq(Version \X Int) /\ n \in Nat
    <3>1. v \in Version /\ Text[v] \in Seq(BOOLEAN)
      BY <1>3, AnswerDoes, Assumed
    <3>2. gathered[a] \in Seq(Version \X Int)
      BY DEF ReadInv
    <3> QED
      BY <3>1, <3>2
  <2>2. \A asked \in Lengths :
          LET chunk == ChunkOf(Text[v], n, maxLen(asked))
          IN  /\ chunk.tag = "slice"
              /\ chunk.to - chunk.from <= maxLen(asked)
              /\ chunk.to = total \/ chunk.to - chunk.from >= maxLen(asked) \div 2
    <3> TAKE asked \in Lengths
    <3>1. maxLen(asked) \in 1 .. IntMax /\ Len(Text[v]) + maxLen(asked) <= IntMax
      <4>1. maxLen(asked) \in Int /\ maxLen(asked) > 0
        BY Assumed DEF maxLen, WindowsFit
      <4>2. Len(Text[v]) \in Nat /\ Len(Text[v]) + maxLen(asked) <= IntMax
        BY <2>1 DEF WindowsFit
      <4> QED
        BY <4>1, <4>2, IntAssumption
    <3> QED
      BY <2>1, <3>1, ChunkIsAWindow
  <2>3. CASE UNCHANGED gathered /\ reply' = [reply EXCEPT ![a] = Failed]
    BY <2>3 DEF KeepInv, Complete, Failed, CacheInv, ShapeInv
  <2>4. ASSUME NEW asked \in Lengths, NEW to \in Int,
               ChunkOf(Text[v], n, maxLen(asked)) = [tag |-> "slice", from |-> n, to |-> to],
               to \in n .. total,
               reply' = [reply EXCEPT ![a] = Piece(to - n, maxLen(asked), total)],
               gathered' = [gathered EXCEPT ![a] =
                   @ \o [i \in 1 .. to - n |-> <<v, n + i - 1>>]]
        PROVE  KeepInv'
    <3> DEFINE h == [i \in 1 .. to - n |-> <<v, n + i - 1>>]
    <3>1. /\ reply'[a].tag = "chunk" /\ reply'[a].size = to - n
          /\ reply'[a].asked = maxLen(asked) /\ reply'[a].total = total
          /\ gathered'[a] = gathered[a] \o h
      BY <2>4 DEF CacheInv, ShapeInv, Piece
    <3>2. Len(gathered'[a]) = to
      <4> DEFINE m == to - n
      <4>1. m \in Nat /\ h \in [1 .. m -> Version \X Int] /\ n + m = to
        BY <2>1, <2>4
      <4> DEFINE g == gathered[a]
      <4>2. g \in Seq(Version \X Int)
        BY <2>1
      <4> HIDE DEF h, m, g
      <4>3. Len(g \o h) = Len(g) + m
        BY <4>1, <4>2, ConcatIs
      <4>4. Len(gathered[a] \o h) = n + m
        BY <4>3 DEF g
      <4> QED
        BY <3>1, <4>1, <4>4
    <3> HIDE DEF h, n, total
    <3>3. /\ to - n <= maxLen(asked)
          /\ to = total \/ to - n >= maxLen(asked) \div 2
      BY <2>2, <2>4
    <3>4. to = total => Complete(a)'
      <4>1. to \in Int
        OBVIOUS
      <4> QED
        BY <3>1, <3>2, <4>1 DEF Complete
    <3>5. \A b \in Agent \ {a} : gathered'[b] = gathered[b] /\ reply'[b] = reply[b]
      BY <2>4 DEF CacheInv, ShapeInv
    <3> QED
      BY <3>1, <3>3, <3>4, <3>5 DEF KeepInv, Complete
  <2> HIDE DEF v, n, total
  <2> QED
    BY <1>3, <2>2, <2>3, <2>4, AnswerDoes DEF v, n, total
<1> QED
  BY <1>1, <1>2, <1>3 DEF Next, Step, vars, Elapse, Publish, OthersEvict, Begin, Lookup,
     Fetched, Store

LEMMA AlwaysKept == WindowsFit /\ Spec => []KeepInv
<1> SUFFICES ASSUME WindowsFit PROVE Spec => []KeepInv
  OBVIOUS
<1>1. CacheInv /\ ReadInv /\ KeepInv /\ [Next]_vars => KeepInv'
  BY KeepStep
<1> QED
  BY <1>1, KeepInit, AlwaysRead, PTL DEF Spec

\* If no window reaches past the largest int, Chunk never panics: the run that
\* violates ChunkReturns is about nothing else.
THEOREM FittingWindowsReturn == WindowsFit /\ Spec => []ChunkReturns
<1>1. KeepInv => ChunkReturns
  BY DEF KeepInv, ChunkReturns
<1> QED
  BY <1>1, AlwaysKept, PTL

\* Then no chunk is longer than asked for, and one that is not the last is no
\* shorter than half of that (content.go:156-158).
THEOREM HalfIsKept == WindowsFit /\ Spec => []ChunksKeepHalf
<1>1. KeepInv => ChunksKeepHalf
  BY DEF KeepInv, ChunksKeepHalf
<1> QED
  BY <1>1, AlwaysKept, PTL

-----------------------------------------------------------------------------
(* The types.                                                                *)

\* The parts of TypeOK that have to be kept together, with what is about to be
\* stored.
TypeInv ==
    /\ now \in 0 .. MaxTime
    /\ \A k \in DOMAIN items :
         k = Page /\ items[k].value \in Entry /\ Text[items[k].value.version] # <<>>
    /\ pc \in [Agent -> {"idle", "lookup", "fetch", "store", "reply", "next"}]
    /\ entry \in [Agent -> Entry \cup {None}]
    /\ age \in [Agent -> 0 .. MaxTime]
    /\ \A a \in Agent :
         /\ pc[a] = "store" => entry[a] \in Entry /\ Text[entry[a].version] # <<>>
         /\ Len(gathered[a]) <= Longest
         /\ reply[a] \in Replies

\* Of FoldLemmas, what it says of numbers: nothing is folded here.
Plus(x, y) == x + y

Numbers == INSTANCE FoldLemmas WITH op <- Plus

LEMMA LongestIs ==
  /\ Longest \in Nat
  /\ \A v \in Version : Len(Text[v]) \in 0 .. Longest
<1> DEFINE n == Len(Text)
           size == [v \in 1 .. n |-> Len(Text[v])]
<1>1. n \in Nat \ {0} /\ Version = 1 .. n
  BY PagingAssumption DEF Version
<1>2. \A v \in 1 .. n : size[v] \in Nat /\ size[v] = Len(Text[v])
  BY <1>1, Assumed
<1> HIDE DEF n, size
<1>3. PICK v \in 1 .. n : \A u \in 1 .. n : size[v] >= size[u]
  BY <1>1, <1>2, Numbers!SomeIsGreatest
<1> DEFINE L == {size[u] : u \in 1 .. n}
<1>4. size[v] \in L /\ \A x \in L : size[v] >= x
  BY <1>3
<1>5. Max(L) \in L /\ \A x \in L : Max(L) >= x
  BY <1>4 DEF Max
<1>6. Longest = Max(L)
  <2>1. L = {Len(Text[u]) : u \in Version}
    BY <1>1, <1>2
  <2> HIDE DEF L
  <2> QED
    BY <2>1 DEF Longest
<1>7. Longest \in Nat
  BY <1>2, <1>5, <1>6
<1>8. \A u \in 1 .. n : size[u] \in Nat /\ Longest >= size[u]
  BY <1>2, <1>5, <1>6
<1> HIDE DEF L
<1>9. \A u \in 1 .. n : size[u] \in 0 .. Longest
  BY <1>7, <1>8
<1> QED
  BY <1>1, <1>2, <1>7, <1>9

LEMMA TypeInit == Init => TypeInv
<1> SUFFICES ASSUME Init PROVE TypeInv
  OBVIOUS
<1>1. /\ now \in 0 .. MaxTime /\ DOMAIN items = {}
      /\ pc \in [Agent -> {"idle"}]
      /\ entry \in [Agent -> Entry \cup {None}]
      /\ age \in [Agent -> 0 .. MaxTime]
      /\ \A a \in Agent : gathered[a] = <<>> /\ reply[a] = NoReply
  BY Assumed DEF Init
<1>2. Len(<<>>) <= Longest
  BY LongestIs
<1> QED
  BY <1>1, <1>2 DEF TypeInv, Replies

LEMMA TypeStep ==
  ASSUME CacheInv, ReadInv, TypeInv, [Next]_vars
  PROVE  TypeInv'
<1> USE DEF CacheInv, ShapeInv
<1>1. CASE Elapse
  <2>1. now' \in 0 .. MaxTime
    BY <1>1, Assumed DEF Elapse
  <2> QED
    BY <1>1, <2>1 DEF Elapse, TypeInv
<1>2. CASE Publish
  BY <1>2 DEF Publish, TypeInv
<1>3. CASE OthersEvict
  <2>1. DOMAIN items' \subseteq DOMAIN items /\ \A k \in DOMAIN items' : items'[k] = items[k]
    BY <1>3, EvictLeaves DEF OthersEvict
  <2> QED
    BY <1>3, <2>1 DEF OthersEvict, TypeInv
<1>4. ASSUME NEW a \in Agent, Begin(a) \/ FetchFails(a) \/ Continue(a) \/ Finish(a)
      PROVE  TypeInv'
  <2>1. /\ UNCHANGED <<now, live, items, entry, age>>
        /\ \E label \in {"idle", "lookup", "next"} : pc' = [pc EXCEPT ![a] = label]
    BY <1>4 DEF Begin, FetchFails, Continue, Finish, Goto
  <2>2. gathered' = gathered \/ gathered' = [gathered EXCEPT ![a] = <<>>]
    BY <1>4 DEF Begin, FetchFails, Continue, Finish
  <2>3. reply' = reply \/ \E r \in {Failed, NoReply} : reply' = [reply EXCEPT ![a] = r]
    BY <1>4 DEF Begin, FetchFails, Continue, Finish
  <2>4. \A b \in Agent : Len(gathered'[b]) <= Longest /\ reply'[b] \in Replies
    BY <2>2, <2>3, LongestIs DEF TypeInv, Replies
  <2> QED
    BY <2>1, <2>4 DEF TypeInv
<1>5. ASSUME NEW a \in Agent, Lookup(a) PROVE TypeInv'
  <2>1. UNCHANGED <<now, live, gathered, reply>>
    BY <1>5 DEF Lookup
  <2>2. \A k \in DOMAIN items' : k \in DOMAIN items /\ items'[k] = items[k]
    BY <1>5, GetLeaves DEF Lookup
  <2>3. CASE Cache!Served(items, Page, now)
    <3>1. /\ Page \in DOMAIN items
          /\ pc' = [pc EXCEPT ![a] = "reply"]
          /\ entry' = [entry EXCEPT ![a] = items[Page].value]
          /\ age' = [age EXCEPT ![a] = now - items[Page].value.asof]
      BY <1>5, <2>3 DEF Lookup, Goto, Cache!Served
    <3>2. items[Page].value \in Entry /\ items[Page].value.asof \in 0 .. now
      BY <3>1 DEF TypeInv, ItemsInv
    <3>3. now - items[Page].value.asof \in 0 .. MaxTime
      <4>1. now \in 0 .. MaxTime /\ MaxTime \in Nat
        BY Assumed DEF TypeInv
      <4> QED
        BY <3>2, <4>1
    <3> QED
      BY <2>1, <2>2, <3>1, <3>2, <3>3 DEF TypeInv
  <2>4. CASE ~Cache!Served(items, Page, now)
    <3>1. pc' = [pc EXCEPT ![a] = "fetch"] /\ UNCHANGED <<entry, age>>
      BY <1>5, <2>4 DEF Lookup, Goto
    <3> QED
      BY <2>1, <2>2, <3>1 DEF TypeInv
  <2> QED
    BY <2>3, <2>4
<1>6. ASSUME NEW a \in Agent, Fetched(a) PROVE TypeInv'
  <2>1. /\ UNCHANGED <<now, live, items, age, gathered, reply>>
        /\ entry' = [entry EXCEPT ![a] = [version |-> live, asof |-> now]]
        /\ pc' = [pc EXCEPT ![a] = IF Text[live] # <<>> THEN "store" ELSE "reply"]
    BY <1>6 DEF Fetched, Goto
  <2>2. [version |-> live, asof |-> now] \in Entry
    BY DEF TypeInv, Entry
  <2> QED
    BY <2>1, <2>2 DEF TypeInv
<1>7. ASSUME NEW a \in Agent, Store(a) PROVE TypeInv'
  <2>1. /\ UNCHANGED <<now, live, entry, age, gathered, reply>>
        /\ pc[a] = "store" /\ pc' = [pc EXCEPT ![a] = "reply"]
        /\ items' \in Cache!Stored(items, Page, entry[a], now)
    BY <1>7 DEF Store, Goto
  <2>2. \A k \in DOMAIN items' :
          k = Page /\ items'[k].value \in Entry /\ Text[items'[k].value.version] # <<>>
    <3> TAKE k \in DOMAIN items'
    <3>1. CASE k \in DOMAIN items /\ items'[k] = items[k]
      BY <3>1 DEF TypeInv
    <3>2. CASE k = Page /\ items'[k] = [value |-> entry[a], expires |-> now + TTL]
      BY <2>1, <3>2 DEF TypeInv
    <3> QED
      BY <2>1, <3>1, <3>2, SetLeaves
  <2> QED
    BY <2>1, <2>2 DEF TypeInv
<1>8. ASSUME NEW a \in Agent, Answer(a) PROVE TypeInv'
  <2>1. /\ UNCHANGED <<now, live, items>>
        /\ pc' = [pc EXCEPT ![a] = "next"]
        /\ entry' = [entry EXCEPT ![a] = None]
        /\ age' = [age EXCEPT ![a] = 0]
    BY <1>8 DEF Answer, Goto
  <2>2. 0 \in 0 .. MaxTime
    BY Assumed
  <2>3. Len(gathered'[a]) <= Longest /\ reply'[a] \in Replies
    <3> DEFINE v == entry[a].version
               n == Len(gathered[a])
               total == Len(Text[v])
    <3>1. /\ v \in Version /\ total \in 0 .. Longest /\ Longest \in Nat
          /\ gathered[a] \in Seq(Version \X Int) /\ n \in Nat
      <4>1. v \in Version
        BY <1>8, AnswerDoes
      <4>2. gathered[a] \in Seq(Version \X Int)
        BY DEF ReadInv
      <4> QED
        BY <4>1, <4>2, LongestIs
    <3>2. CASE UNCHANGED gathered /\ \E r \in {Failed, Panic} : reply' = [reply EXCEPT ![a] = r]
      BY <3>2 DEF TypeInv, Replies
    <3>3. ASSUME NEW asked \in Lengths, NEW to \in Int,
                 to \in n .. total,
                 reply' = [reply EXCEPT ![a] = Piece(to - n, maxLen(asked), total)],
                 gathered' = [gathered EXCEPT ![a] =
                     @ \o [i \in 1 .. to - n |-> <<v, n + i - 1>>]]
          PROVE  Len(gathered'[a]) <= Longest /\ reply'[a] \in Replies
      <4> DEFINE m == to - n
                 h == [i \in 1 .. m |-> <<v, n + i - 1>>]
                 g == gathered[a]
      <4>1. m \in Nat /\ h \in [1 .. m -> Version \X Int] /\ n + m = to /\ g \in Seq(Version \X Int)
        BY <3>1, <3>3
      <4>2. gathered'[a] = g \o h /\ reply'[a] = Piece(m, maxLen(asked), total)
        BY <3>3
      <4> HIDE DEF h, m, g
      <4>3. Len(g \o h) = Len(g) + m
        BY <4>1, ConcatIs
      <4>4. Len(gathered'[a]) = to
        BY <4>1, <4>2, <4>3 DEF g
      <4>5. maxLen(asked) \in Int
        BY Assumed DEF maxLen
      <4>6. to <= Longest /\ m \in 0 .. Longest /\ total \in 0 .. Longest
        BY <3>1, <3>3, <4>1
      <4>7. Piece(m, maxLen(asked), total) \in Replies
        BY <4>5, <4>6 DEF Piece, Replies
      <4> QED
        BY <4>2, <4>4, <4>6, <4>7
    <3> HIDE DEF v, n, total
    <3> QED
      BY <1>8, <3>2, <3>3, AnswerDoes DEF v, n, total
  <2>4. \A b \in Agent \ {a} : gathered'[b] = gathered[b] /\ reply'[b] = reply[b]
    <3>1. /\ gathered' = gathered \/ \E x : gathered' = [gathered EXCEPT ![a] = x]
          /\ \E y : reply' = [reply EXCEPT ![a] = y]
      BY <1>8, AnswerDoes
    <3> QED
      BY <3>1
  <2> QED
    BY <2>1, <2>2, <2>3, <2>4 DEF TypeInv
<1>9. CASE UNCHANGED vars
  BY <1>9 DEF vars, TypeInv
<1> QED
  BY <1>1, <1>2, <1>3, <1>4, <1>5, <1>6, <1>7, <1>8, <1>9 DEF Next, Step

\* The types: the cache holds one text under the one key, never an empty one, and
\* what is read and answered lies inside the longest text.
THEOREM TypeCorrect == Spec => []TypeOK
<1>1. CacheInv /\ ReadInv /\ TypeInv => TypeOK
  <2> SUFFICES ASSUME CacheInv, ReadInv, TypeInv, NEW a \in Agent
               PROVE  gathered[a] \in Seq(Version \X (0 .. Longest - 1))
    BY DEF TypeOK, TypeInv, CacheInv, ShapeInv
  <2> DEFINE g == gathered[a]
  <2>1. /\ g \in Seq(Version \X Int) /\ Len(g) <= Longest /\ Longest \in Nat
        /\ \A i \in 1 .. Len(g) : g[i][2] = i - 1
    BY LongestIs DEF ReadInv, TypeInv
  <2> HIDE DEF g
  <2>2. \A i \in 1 .. Len(g) : g[i] \in Version \X (0 .. Longest - 1)
    <3> TAKE i \in 1 .. Len(g)
    <3>1. g[i] \in Version \X Int /\ g[i][2] \in 0 .. Longest - 1
      BY <2>1
    <3> QED
      BY <3>1
  <2>3. g \in Seq(Version \X (0 .. Longest - 1))
    BY <2>1, <2>2
  <2> QED
    BY <2>3 DEF g
<1>2. CacheInv /\ ReadInv /\ TypeInv /\ [Next]_vars => TypeInv'
  BY TypeStep
<1> QED
  BY <1>1, <1>2, TypeInit, AlwaysRead, PTL DEF Spec
=============================================================================
