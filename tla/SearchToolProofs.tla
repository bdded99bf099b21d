-------------------------- MODULE SearchToolProofs --------------------------
(* What is proved of SearchTool for every set of callers and searches,       *)
(* whatever SearXNG and the reranking service answer, for every size and     *)
(* life of the cache and every clock: the types, that a reply belongs to the *)
(* search asked for, and that it is one answer of SearXNG.  And what is      *)
(* proved of the rerankers (RerankCheck), for any number of results, scores  *)
(* and engines: which result goes before which, and which votes count.       *)
EXTENDS SearchTool, RerankCheck, FiniteSetTheorems, SequenceTheorems, TLAPS

-----------------------------------------------------------------------------
(* Which results are kept, and in which order.                               *)

\* What dedupResults does with one more result.
Keep(out, r) ==
    IF \E k \in DOMAIN out : out[k].page = r.page THEN out ELSE Append(out, r)

Dedup == INSTANCE FoldLemmas WITH op <- Keep

\* The first result of every page.
First(web) == {i \in DOMAIN web : \A j \in 1 .. i - 1 : web[j].page # web[i].page}

\* The sequence out lists the first results of web, at idx, in their order.
ListsAt(out, web, idx) ==
    /\ idx \in [1 .. Len(out) -> First(web)]
    /\ \A p \in 1 .. Len(out) : out[p] = web[idx[p]]
    /\ \A p, q \in 1 .. Len(out) : p < q => idx[p] < idx[q]
    /\ \A i \in First(web) : \E p \in 1 .. Len(out) : idx[p] = i

Lists(out, web) == \E idx : ListsAt(out, web, idx)

\* Every page of web is in out.
Covers(out, web) == \A i \in DOMAIN web : \E p \in 1 .. Len(out) : out[p].page = web[i].page

LEMMA DedupIs ==
  ASSUME NEW web
  PROVE  dedupResults(web) = Dedup!Folded(<<>>, web)
BY DEF dedupResults, FoldLeft, MapThenFoldSet, Keep, Max, Dedup!Folded, Dedup!Solves, Dedup!Max

\* One more result.
LEMMA KeepLists ==
  ASSUME NEW S, NEW n \in Nat,
         NEW web \in Seq(S), Len(web) = n, NEW more \in Seq(S), Len(more) = n + 1,
         \A i \in 1 .. n : web[i] = more[i],
         NEW out \in Seq(S), Lists(out, web), Covers(out, web)
  PROVE  LET new == Keep(out, more[n + 1])
         IN  new \in Seq(S) /\ Lists(new, more) /\ Covers(new, more)
<1> DEFINE r == more[n + 1]
           m == Len(out)
<1>0. r \in S /\ m \in Nat /\ DOMAIN out = 1 .. m /\ DOMAIN web = 1 .. n /\ DOMAIN more = 1 .. n + 1
  OBVIOUS
<1>1. PICK idx : ListsAt(out, web, idx)
  BY DEF Lists
<1>2. First(web) = First(more) \cap (1 .. n)
  BY <1>0 DEF First
<1>3. CASE \E k \in DOMAIN out : out[k].page = r.page
  <2>1. Keep(out, r) = out
    BY <1>3 DEF Keep
  <2>2. PICK k \in 1 .. m : out[k].page = r.page
    BY <1>0, <1>3
  <2>3. n + 1 \notin First(more)
    <3>1. idx[k] \in 1 .. n /\ web[idx[k]].page = r.page
      BY <1>0, <1>1, <2>2 DEF ListsAt, First
    <3>2. more[idx[k]].page = more[n + 1].page /\ idx[k] \in 1 .. (n + 1) - 1
      BY <3>1
    <3> QED
      BY <3>2 DEF First
  <2>4. First(more) = First(web)
    <3>1. First(more) \subseteq 1 .. n + 1
      BY <1>0 DEF First
    <3> QED
      BY <1>2, <2>3, <3>1
  <2>5. ListsAt(out, more, idx)
    BY <1>0, <1>1, <2>4 DEF ListsAt, First
  <2>6. Covers(out, more)
    <3> SUFFICES ASSUME NEW i \in 1 .. n + 1
                 PROVE  \E p \in 1 .. m : out[p].page = more[i].page
      BY <1>0 DEF Covers
    <3>1. CASE i = n + 1
      BY <2>2, <3>1
    <3>2. CASE i # n + 1
      <4>1. i \in DOMAIN web /\ web[i] = more[i]
        BY <1>0, <3>2
      <4> QED
        BY <4>1 DEF Covers
    <3> QED
      BY <3>1, <3>2
  <2> QED
    BY <2>1, <2>5, <2>6 DEF Lists
<1>4. CASE ~\E k \in DOMAIN out : out[k].page = r.page
  <2> DEFINE new == Append(out, r)
             at == [p \in 1 .. m + 1 |-> IF p = m + 1 THEN n + 1 ELSE idx[p]]
  <2>1. Keep(out, r) = new
    BY <1>4 DEF Keep
  <2>2. new \in Seq(S) /\ Len(new) = m + 1 /\ new[m + 1] = r /\ \A p \in 1 .. m : new[p] = out[p]
    BY <1>0
  <2>3. n + 1 \in First(more)
    <3> SUFFICES ASSUME NEW j \in 1 .. n, more[j].page = r.page
                 PROVE  FALSE
      BY <1>0 DEF First
    <3>1. web[j].page = r.page /\ j \in DOMAIN web
      BY <1>0
    <3> QED
      BY <1>0, <1>4, <3>1 DEF Covers
  <2>4. First(more) = First(web) \cup {n + 1}
    BY <1>0, <1>2, <2>3 DEF First
  <2>5. \A p \in 1 .. m : idx[p] \in First(web) /\ idx[p] \in 1 .. n /\ web[idx[p]] = more[idx[p]]
    BY <1>0, <1>1 DEF ListsAt, First
  <2> HIDE DEF new, r
  <2>6. ListsAt(new, more, at)
    <3>1. at \in [1 .. Len(new) -> First(more)]
      BY <1>0, <2>2, <2>4, <2>5
    <3>2. \A p \in 1 .. Len(new) : new[p] = more[at[p]]
      BY <1>0, <1>1, <2>2, <2>5 DEF ListsAt, r
    <3>3. \A p, q \in 1 .. Len(new) : p < q => at[p] < at[q]
      <4> SUFFICES ASSUME NEW p \in 1 .. m + 1, NEW q \in 1 .. m + 1, p < q
                   PROVE  at[p] < at[q]
        BY <2>2
      <4>1. p \in 1 .. m /\ at[p] = idx[p] /\ idx[p] \in 1 .. n
        BY <1>0, <2>5
      <4>2. CASE q = m + 1
        BY <1>0, <4>1, <4>2
      <4>3. CASE q # m + 1
        <5>1. q \in 1 .. m /\ at[q] = idx[q]
          BY <1>0, <4>3
        <5> QED
          BY <1>1, <4>1, <5>1 DEF ListsAt
      <4> QED
        BY <4>2, <4>3
    <3>4. \A i \in First(more) : \E p \in 1 .. Len(new) : at[p] = i
      <4> SUFFICES ASSUME NEW i \in First(more)
                   PROVE  \E p \in 1 .. m + 1 : at[p] = i
        BY <2>2
      <4>1. CASE i = n + 1
        <5>1. m + 1 \in 1 .. m + 1 /\ at[m + 1] = n + 1
          BY <1>0
        <5> QED
          BY <4>1, <5>1
      <4>2. CASE i # n + 1
        <5>1. PICK p \in 1 .. m : idx[p] = i
          BY <1>1, <2>4, <4>2 DEF ListsAt
        <5>2. p \in 1 .. m + 1 /\ at[p] = idx[p]
          BY <1>0
        <5> QED
          BY <5>1, <5>2
      <4> QED
        BY <4>1, <4>2
    <3> QED
      BY <3>1, <3>2, <3>3, <3>4 DEF ListsAt
  <2>7. Covers(new, more)
    <3> SUFFICES ASSUME NEW i \in 1 .. n + 1
                 PROVE  \E p \in 1 .. m + 1 : new[p].page = more[i].page
      BY <1>0, <2>2 DEF Covers
    <3>1. CASE i = n + 1
      <4>1. m + 1 \in 1 .. m + 1 /\ new[m + 1].page = more[n + 1].page
        BY <1>0, <2>2 DEF r
      <4> QED
        BY <3>1, <4>1
    <3>2. CASE i # n + 1
      <4>1. i \in DOMAIN web /\ web[i] = more[i]
        BY <1>0, <3>2
      <4>2. PICK p \in 1 .. m : out[p].page = web[i].page
        BY <4>1 DEF Covers
      <4>3. p \in 1 .. m + 1 /\ new[p] = out[p]
        BY <1>0, <2>2
      <4> QED
        BY <4>1, <4>2, <4>3
    <3> QED
      BY <3>1, <3>2
  <2> QED
    BY <2>1, <2>2, <2>6, <2>7 DEF Lists, r
<1> QED
  BY <1>3, <1>4

\* The fold keeps the first result of every page, for a list of any length.
LEMMA DedupLists ==
  ASSUME NEW S, NEW web \in Seq(S)
  PROVE  /\ dedupResults(web) \in Seq(S)
         /\ Lists(dedupResults(web), web)
<1> DEFINE Good(w) == /\ Dedup!Folded(<<>>, w) \in Seq(S)
                      /\ Lists(Dedup!Folded(<<>>, w), w)
                      /\ Covers(Dedup!Folded(<<>>, w), w)
           Bad == {n \in Nat : \E w \in Seq(S) : Len(w) = n /\ ~Good(w)}
<1>1. ASSUME NEW w \in Seq(S), Len(w) = 0
      PROVE  Good(w)
  <2>1. DOMAIN w = {} /\ Dedup!Folded(<<>>, w) = <<>>
    BY <1>1, Dedup!FoldedEmpty
  <2>2. Len(<<>>) = 0 /\ <<>> \in Seq(S)
    OBVIOUS
  <2>3. First(w) = {} /\ 1 .. 0 = {}
    BY <2>1 DEF First
  <2>4. ListsAt(<<>>, w, <<>>) /\ Covers(<<>>, w)
    BY <2>1, <2>2, <2>3 DEF ListsAt, Covers
  <2> QED
    BY <2>1, <2>2, <2>4 DEF Lists
<1>2. ASSUME NEW n \in Nat, n \notin Bad
      PROVE  n + 1 \notin Bad
  <2> SUFFICES ASSUME NEW w \in Seq(S), Len(w) = n + 1
               PROVE  Good(w)
    OBVIOUS
  <2> DEFINE front == [i \in 1 .. n |-> w[i]]
  <2>1. front \in Seq(S) /\ Len(front) = n /\ DOMAIN front = 1 .. n /\ DOMAIN w = 1 .. n + 1
    OBVIOUS
  <2>2. \A i \in 1 .. n : front[i] = w[i]
    OBVIOUS
  <2> HIDE DEF front
  <2>3. Good(front)
    BY <1>2, <2>1
  <2>4. Dedup!Folded(<<>>, w) = Keep(Dedup!Folded(<<>>, front), w[n + 1])
    BY <2>1, <2>2, Dedup!FoldedAppend
  <2> QED
    BY <2>1, <2>2, <2>3, <2>4, KeepLists
<1> HIDE DEF Good
<1>3. Bad = {}
  <2> SUFFICES ASSUME Bad # {}
               PROVE  FALSE
    OBVIOUS
  <2>1. PICK n \in Bad : \A m \in Bad : n <= m
    <3>1. Bad \in SUBSET Nat
      OBVIOUS
    <3> HIDE DEF Bad
    <3> QED
      BY <3>1, Dedup!LeastNatural
  <2>2. n # 0
    BY <1>1
  <2>3. n - 1 \in Nat /\ n = (n - 1) + 1
    BY <2>2
  <2>4. n - 1 \notin Bad
    BY <2>1, <2>3
  <2> QED
    BY <1>2, <2>3, <2>4
<1>4. Good(web)
  <2>1. Len(web) \in Nat /\ Len(web) \notin Bad
    BY <1>3
  <2> QED
    BY <2>1
<1> QED
  BY <1>4, DedupIs DEF Good

\* The positions of web that a search for at most limit results is about.
Wanted(web, limit) ==
    IF limit > 0
      THEN {i \in First(web) : Cardinality({j \in First(web) : j < i}) < limit}
      ELSE First(web)

\* The results are those of one answer.
IsAnswer(results, web, limit) ==
    /\ {results[i] : i \in DOMAIN results} = {web[i] : i \in Wanted(web, limit)}
    /\ Len(results) = Cardinality(Wanted(web, limit))

\* As many as the length of a list of them.
LEMMA Counted ==
  ASSUME NEW n \in Nat, NEW f, NEW T, f \in [1 .. n -> T],
         \A p, q \in 1 .. n : p < q => f[p] # f[q],
         \A t \in T : \E p \in 1 .. n : f[p] = t
  PROVE  Cardinality(T) = n
<1>1. \A p, q \in 1 .. n : f[p] = f[q] => p = q
  <2> SUFFICES ASSUME NEW p \in 1 .. n, NEW q \in 1 .. n, p # q
               PROVE  f[p] # f[q]
    OBVIOUS
  <2>1. p < q \/ q < p
    OBVIOUS
  <2> QED
    BY <2>1
<1>2. f \in Bijection(1 .. n, T)
  BY <1>1 DEF Bijection, Injection, Surjection, IsInjective
<1> QED
  BY <1>2, FS_CountingElements DEF ExistsBijection

LEMMA CutIs ==
  ASSUME NEW S, NEW out \in Seq(S), NEW limit \in Int
  PROVE  \E n \in 0 .. Len(out) :
            /\ Cut(out, limit) \in Seq(S)
            /\ Len(Cut(out, limit)) = n
            /\ \A p \in 1 .. n : Cut(out, limit)[p] = out[p]
            /\ n = IF limit > 0 /\ limit < Len(out) THEN limit ELSE Len(out)
<1>1. CASE limit > 0 /\ limit < Len(out)
  <2>1. limit \in 0 .. Len(out) /\ Cut(out, limit) = SubSeq(out, 1, limit)
    BY <1>1 DEF Cut
  <2>2. /\ SubSeq(out, 1, limit) \in Seq(S)
        /\ Len(SubSeq(out, 1, limit)) = limit
        /\ \A p \in 1 .. limit : SubSeq(out, 1, limit)[p] = out[p]
    BY <1>1
  <2> QED
    BY <1>1, <2>1, <2>2
<1>2. CASE ~(limit > 0 /\ limit < Len(out))
  <2>1. Cut(out, limit) = out /\ Len(out) \in 0 .. Len(out)
    BY <1>2 DEF Cut
  <2> QED
    BY <1>2, <2>1
<1> QED
  BY <1>1, <1>2

LEMMA ResponseIsAnswer ==
  ASSUME NEW S, NEW web, web.results \in Seq(S), NEW limit \in Int
  PROVE  /\ Response(web, limit) \in Seq(S)
         /\ IsAnswer(Response(web, limit), web.results, limit)
<1> DEFINE all == web.results
           out == dedupResults(all)
           m == Len(out)
           res == Cut(out, limit)
           F == First(all)
<1>1. out \in Seq(S) /\ Lists(out, all) /\ m \in Nat /\ DOMAIN out = 1 .. m
  BY DedupLists
<1>2. PICK idx : ListsAt(out, all, idx)
  BY <1>1 DEF Lists
<1>3. Response(web, limit) = res
  BY DEF Response
<1> HIDE DEF out
<1>4. F \in SUBSET Nat
  BY DEF First
<1>5. PICK n \in 0 .. m :
        /\ res \in Seq(S) /\ Len(res) = n /\ DOMAIN res = 1 .. n
        /\ \A p \in 1 .. n : res[p] = out[p]
        /\ n = IF limit > 0 /\ limit < m THEN limit ELSE m
  <2>1. PICK n \in 0 .. m :
          /\ res \in Seq(S) /\ Len(res) = n
          /\ \A p \in 1 .. n : res[p] = out[p]
          /\ n = IF limit > 0 /\ limit < m THEN limit ELSE m
    BY <1>1, CutIs
  <2>2. DOMAIN res = 1 .. n
    BY <2>1
  <2> QED
    BY <2>1, <2>2
<1> HIDE DEF res, F, all
<1>6. /\ idx \in [1 .. m -> F]
      /\ \A p, q \in 1 .. m : p < q => idx[p] < idx[q]
      /\ \A i \in F : \E p \in 1 .. m : idx[p] = i
  BY <1>2 DEF ListsAt, F
<1>7. ASSUME NEW p \in 1 .. m
      PROVE  Cardinality({j \in F : j < idx[p]}) = p - 1
  <2> DEFINE T == {j \in F : j < idx[p]}
             f == [q \in 1 .. p - 1 |-> idx[q]]
  <2>1. p - 1 \in Nat /\ 1 .. p - 1 \subseteq 1 .. m
    BY <1>1
  <2>2. f \in [1 .. p - 1 -> T]
    BY <1>6, <2>1
  <2>3. \A q, r \in 1 .. p - 1 : q < r => f[q] # f[r]
    <3> SUFFICES ASSUME NEW q \in 1 .. p - 1, NEW r \in 1 .. p - 1, q < r
                 PROVE  idx[q] # idx[r]
      OBVIOUS
    <3>1. idx[q] < idx[r] /\ idx[q] \in Nat /\ idx[r] \in Nat
      BY <1>4, <1>6, <2>1
    <3> QED
      BY <3>1
  <2>4. \A t \in T : \E q \in 1 .. p - 1 : f[q] = t
    <3> SUFFICES ASSUME NEW t \in F, t < idx[p]
                 PROVE  \E q \in 1 .. p - 1 : f[q] = t
      OBVIOUS
    <3>1. PICK q \in 1 .. m : idx[q] = t
      BY <1>6
    <3>2. t \in Nat /\ idx[p] \in Nat
      BY <1>4, <1>6
    <3>3. ~(q >= p)
      BY <1>1, <1>6, <3>1, <3>2
    <3>4. q \in 1 .. p - 1
      BY <1>1, <3>3
    <3> QED
      BY <3>1, <3>4
  <2> HIDE DEF T, f
  <2>5. Cardinality(T) = p - 1
    BY <2>1, <2>2, <2>3, <2>4, Counted
  <2> QED
    BY <2>5 DEF T
<1>8. Wanted(all, limit) = {idx[p] : p \in 1 .. n}
  <2>1. CASE limit > 0
    <3>1. \A p \in 1 .. m : Cardinality({j \in F : j < idx[p]}) < limit <=> p <= n
      <4> SUFFICES ASSUME NEW p \in 1 .. m
                   PROVE  Cardinality({j \in F : j < idx[p]}) < limit <=> p <= n
        OBVIOUS
      <4>1. Cardinality({j \in F : j < idx[p]}) = p - 1
        BY <1>7
      <4>2. CASE limit < m
        <5>1. n = limit
          BY <1>5, <2>1, <4>2
        <5> QED
          BY <4>1, <5>1
      <4>3. CASE ~(limit < m)
        <5>1. n = m
          BY <1>5, <4>3
        <5> QED
          BY <1>1, <4>1, <4>3, <5>1
      <4> QED
        BY <4>2, <4>3
    <3>2. Wanted(all, limit) = {i \in F : Cardinality({j \in F : j < i}) < limit}
      BY <2>1 DEF Wanted, F
    <3>3. 1 .. n \subseteq 1 .. m /\ \A p \in 1 .. m : p <= n => p \in 1 .. n
      BY <1>1
    <3> QED
      BY <1>6, <3>1, <3>2, <3>3
  <2>2. CASE ~(limit > 0)
    <3>1. n = m /\ Wanted(all, limit) = F
      BY <1>5, <2>2 DEF Wanted, F
    <3> QED
      BY <1>6, <3>1
  <2> QED
    BY <2>1, <2>2
<1>9. Cardinality({idx[p] : p \in 1 .. n}) = n
  <2> DEFINE T == {idx[p] : p \in 1 .. n}
             f == [p \in 1 .. n |-> idx[p]]
  <2>1. 1 .. n \subseteq 1 .. m /\ n \in Nat
    BY <1>1
  <2>2. f \in [1 .. n -> T]
    OBVIOUS
  <2>3. \A p, q \in 1 .. n : p < q => f[p] # f[q]
    <3> SUFFICES ASSUME NEW p \in 1 .. n, NEW q \in 1 .. n, p < q
                 PROVE  idx[p] # idx[q]
      OBVIOUS
    <3>1. idx[p] < idx[q] /\ idx[p] \in Nat /\ idx[q] \in Nat
      BY <1>4, <1>6, <2>1
    <3> QED
      BY <3>1
  <2>4. \A t \in T : \E p \in 1 .. n : f[p] = t
    OBVIOUS
  <2> HIDE DEF T, f
  <2>5. Cardinality(T) = n
    BY <2>1, <2>2, <2>3, <2>4, Counted
  <2> QED
    BY <2>5 DEF T
<1>10. {res[p] : p \in 1 .. n} = {all[i] : i \in {idx[p] : p \in 1 .. n}}
  <2>3. 1 .. n \subseteq 1 .. m
    BY <1>1
  <2>1. \A p \in 1 .. n : p \in 1 .. m /\ res[p] = out[p]
    BY <1>5, <2>3
  <2>2. \A p \in 1 .. m : out[p] = all[idx[p]]
    BY <1>2 DEF ListsAt
  <2> QED
    BY <2>1, <2>2
<1> QED
  BY <1>3, <1>5, <1>8, <1>9, <1>10 DEF IsAnswer, all

-----------------------------------------------------------------------------
(* The reranker only reorders.                                               *)

\* Whatever the votes, an order names every result once.
LEMMA OrderIs ==
  ASSUME NEW ds, NEW n \in Nat, Len(ds) = n, DOMAIN ds = 1 .. n,
         NEW order \in Orders(ds)
  PROVE  order \in Surjection(1 .. n, 1 .. n)
<1>1. order = InOrder(ds) \/ \E lists : order \in rrfFuse(n, lists)
  <2>1. ASSUME NEW none, NEW extra, NEW o \in RankWith(ds, none, extra).orders
        PROVE  o = InOrder(ds) \/ \E lists : o \in rrfFuse(n, lists)
    <3>1. CASE Len(ds) < 2 \/ none
      BY <3>1 DEF RankWith
    <3>2. CASE ~(Len(ds) < 2 \/ none)
      <4> DEFINE lists == <<bm25Votes(ds), engineVotes(ds)>> \o extra
      <4>1. RankWith(ds, none, extra).orders = rrfFuse(n, lists)
        BY <3>2 DEF RankWith
      <4> HIDE DEF lists
      <4> QED
        BY <4>1
    <3> QED
      BY <3>1, <3>2
  <2>2. CASE Mode = "none"
    BY <2>2 DEF Orders, RankNone
  <2>3. CASE Mode = "rrf"
    BY <2>1, <2>3 DEF Orders, RankRRF
  <2>4. CASE Mode = "semantic"
    <3>1. Orders(ds) = UNION {RankSemantic(ds, FALSE, o).orders : o \in Opinions}
      BY <2>4 DEF Orders
    <3>2. PICK o \in Opinions : order \in RankSemantic(ds, FALSE, o).orders
      BY <3>1
    <3> QED
      BY <2>1, <3>2 DEF RankSemantic
  <2> QED
    BY <2>2, <2>3, <2>4, SearchAssumption
<1>2. CASE order = InOrder(ds)
  BY <1>2 DEF InOrder, Surjection
<1>3. ASSUME NEW lists, order \in rrfFuse(n, lists)
      PROVE  order \in Surjection(1 .. n, 1 .. n)
  <2>1. order \in [1 .. n -> 1 .. n]
    BY <1>3 DEF rrfFuse
  <2>2. \A p, q \in 1 .. n : p < q => order[p] # order[q]
    BY <1>3 DEF rrfFuse
  <2>3. \A p, q \in 1 .. n : order[p] = order[q] => p = q
    <3> SUFFICES ASSUME NEW p \in 1 .. n, NEW q \in 1 .. n, p # q
                 PROVE  order[p] # order[q]
      OBVIOUS
    <3>1. p < q \/ q < p
      OBVIOUS
    <3> QED
      BY <2>2, <3>1
  <2>4. order \in Injection(1 .. n, 1 .. n)
    BY <2>1, <2>3 DEF Injection, IsInjective
  <2>5. IsFiniteSet(1 .. n)
    BY FS_Interval
  <2> QED
    BY <2>4, <2>5, FS_Injection
<1> QED
  BY <1>1, <1>2, <1>3

LEMMA ReorderedIsAnswer ==
  ASSUME NEW S, NEW res \in Seq(S), NEW order \in Orders(res), NEW web, NEW limit,
         IsAnswer(res, web, limit)
  PROVE  LET new == [i \in DOMAIN res |-> res[order[i]]]
         IN  /\ new \in Seq(S)
             /\ IsAnswer(new, web, limit)
             /\ res # <<>> => new # <<>>
<1> DEFINE n == Len(res)
           new == [i \in 1 .. n |-> res[order[i]]]
<1>1. n \in Nat /\ DOMAIN res = 1 .. n
  OBVIOUS
<1> HIDE DEF n
<1>2. order \in Surjection(1 .. n, 1 .. n)
  BY <1>1, OrderIs DEF n
<1>3. /\ \A i \in 1 .. n : order[i] \in 1 .. n
      /\ \A j \in 1 .. n : \E i \in 1 .. n : order[i] = j
  BY <1>2 DEF Surjection
<1>4. \A j \in 1 .. n : res[j] \in S
  BY <1>1
<1>5. new \in Seq(S) /\ Len(new) = n /\ DOMAIN new = 1 .. n
  BY <1>1, <1>3, <1>4
<1>6. {new[i] : i \in 1 .. n} = {res[j] : j \in 1 .. n}
  BY <1>3
<1>7. res # <<>> => new # <<>>
  <2>1. res # <<>> => n # 0
    BY <1>1
  <2> QED
    BY <1>5, <2>1
<1> HIDE DEF new
<1>8. IsAnswer(new, web, limit)
  BY <1>1, <1>5, <1>6 DEF IsAnswer, n
<1> QED
  BY <1>1, <1>5, <1>7, <1>8 DEF new

-----------------------------------------------------------------------------
(* What the key of the cache tells apart.                                    *)

HasNoBar(u) == \A i \in DOMAIN u : u[i] # "|"

\* The fields that are joined into the key after the query hold no bar, which
\* is what joins them.
NoBars == \A s \in Search : HasNoBar(s.cats) /\ HasNoBar(s.lang) /\ HasNoBar(s.range)

\* strconv.Itoa writes different numbers differently.
DecimalsDiffer ==
    \A s, t \in Search : ToString(Limit(s)) = ToString(Limit(t)) => Limit(s) = Limit(t)

\* Texts of one length that agree in every place are one text.
LEMMA TextsEqual ==
  ASSUME NEW Q, NEW p1 \in Seq(Q), NEW p2 \in Seq(Q), Len(p1) = Len(p2),
         \A q \in 1 .. Len(p1) : p1[q] = p2[q]
  PROVE  p1 = p2
OBVIOUS

\* k is g, then h.
Joined(k, g, h) ==
    /\ Len(k) = Len(g) + Len(h)
    /\ \A i \in 1 .. Len(g) : k[i] = g[i]
    /\ \A i \in 1 .. Len(h) : k[Len(g) + i] = h[i]

LEMMA ConcatIs ==
  ASSUME NEW T, NEW g \in Seq(T), NEW h \in Seq(T)
  PROVE  g \o h \in Seq(T) /\ Joined(g \o h, g, h)
BY DEF Joined

\* k is a, a bar, then b.
Barred(k, a, b) ==
    /\ Len(k) = Len(a) + 1 + Len(b)
    /\ \A i \in 1 .. Len(a) : k[i] = a[i]
    /\ k[Len(a) + 1] = "|"
    /\ \A i \in 1 .. Len(b) : k[Len(a) + 1 + i] = b[i]

LEMMA JoinedTwice ==
  ASSUME NEW T, NEW g \in Seq(T), NEW bar \in Seq(T), NEW h \in Seq(T),
         NEW left \in Seq(T), NEW k \in Seq(T),
         Len(bar) = 1, bar[1] = "|", Joined(left, g, bar), Joined(k, left, h)
  PROVE  Barred(k, g, h)
<1>1. Len(g) \in Nat /\ Len(h) \in Nat
  OBVIOUS
<1>2. /\ Len(left) = Len(g) + 1 /\ left[Len(g) + 1] = "|"
      /\ \A i \in 1 .. Len(g) : left[i] = g[i]
  BY <1>1 DEF Joined
<1>3. /\ Len(k) = Len(left) + Len(h)
      /\ \A i \in 1 .. Len(left) : k[i] = left[i]
      /\ \A i \in 1 .. Len(h) : k[Len(left) + i] = h[i]
  BY DEF Joined
<1>4. k[Len(g) + 1] = "|"
  BY <1>1, <1>2, <1>3
<1>5. \A i \in 1 .. Len(g) : k[i] = g[i]
  BY <1>1, <1>2, <1>3
<1> QED
  BY <1>1, <1>2, <1>3, <1>4, <1>5 DEF Barred

LEMMA BarredIs ==
  ASSUME NEW S, "|" \in S, NEW a \in Seq(S), NEW b \in Seq(S)
  PROVE  a \o <<"|">> \o b \in Seq(S) /\ Barred(a \o <<"|">> \o b, a, b)
<1> DEFINE bar == <<"|">>
           left == a \o bar
           k == left \o b
<1>1. bar \in Seq(S) /\ Len(bar) = 1 /\ bar[1] = "|"
  OBVIOUS
<1> HIDE DEF bar
<1>2. left \in Seq(S) /\ Joined(left, a, bar)
  BY <1>1, ConcatIs
<1> HIDE DEF left
<1>3. k \in Seq(S) /\ Joined(k, left, b)
  BY <1>2, ConcatIs
<1> HIDE DEF k
<1>4. k \in Seq(S) /\ Barred(k, a, b)
  BY <1>1, <1>2, <1>3, JoinedTwice
<1> QED
  BY <1>4 DEF k, left, bar

\* Texts of the same length after the last bar are the same, and so is what is
\* before it.
LEMMA SameTails ==
  ASSUME NEW S, "|" \in S, NEW a1 \in Seq(S), NEW b1 \in Seq(S),
         NEW a2 \in Seq(S), NEW b2 \in Seq(S),
         a1 \o <<"|">> \o b1 = a2 \o <<"|">> \o b2, Len(b1) = Len(b2)
  PROVE  a1 = a2 /\ b1 = b2
<1> DEFINE k1 == a1 \o <<"|">> \o b1
           k2 == a2 \o <<"|">> \o b2
<1>1. k1 = k2
  OBVIOUS
<1>2. /\ Len(k1) = Len(a1) + 1 + Len(b1)
      /\ \A i \in 1 .. Len(a1) : k1[i] = a1[i]
      /\ \A i \in 1 .. Len(b1) : k1[Len(a1) + 1 + i] = b1[i]
  BY BarredIs DEF Barred
<1>3. /\ Len(k2) = Len(a2) + 1 + Len(b2)
      /\ \A i \in 1 .. Len(a2) : k2[i] = a2[i]
      /\ \A i \in 1 .. Len(b2) : k2[Len(a2) + 1 + i] = b2[i]
  BY BarredIs DEF Barred
<1> HIDE DEF k1, k2
<1>4. Len(a1) = Len(a2) /\ Len(a1) \in Nat /\ Len(b1) \in Nat
  BY <1>1, <1>2, <1>3
<1>5. \A i \in 1 .. Len(a1) : a1[i] = a2[i]
  BY <1>1, <1>2, <1>3, <1>4
<1>6. \A i \in 1 .. Len(b1) : b1[i] = b2[i]
  BY <1>1, <1>2, <1>3, <1>4
<1>7. a1 = a2
  BY <1>4, <1>5, TextsEqual
<1>8. b1 = b2
  BY <1>4, <1>6, TextsEqual
<1> QED
  BY <1>7, <1>8

\* A text without a bar is what follows the last bar.
LEMMA LastBar ==
  ASSUME NEW S, "|" \in S, NEW a1 \in Seq(S), NEW b1 \in Seq(S),
         NEW a2 \in Seq(S), NEW b2 \in Seq(S),
         a1 \o <<"|">> \o b1 = a2 \o <<"|">> \o b2, HasNoBar(b1), HasNoBar(b2)
  PROVE  a1 = a2 /\ b1 = b2
<1> DEFINE k1 == a1 \o <<"|">> \o b1
           k2 == a2 \o <<"|">> \o b2
<1>1. k1 = k2
  OBVIOUS
<1>2. /\ Len(k1) = Len(a1) + 1 + Len(b1)
      /\ k1[Len(a1) + 1] = "|"
      /\ \A i \in 1 .. Len(b1) : k1[Len(a1) + 1 + i] # "|"
  BY BarredIs DEF Barred, HasNoBar
<1>3. /\ Len(k2) = Len(a2) + 1 + Len(b2)
      /\ k2[Len(a2) + 1] = "|"
      /\ \A i \in 1 .. Len(b2) : k2[Len(a2) + 1 + i] # "|"
  BY BarredIs DEF Barred, HasNoBar
<1> HIDE DEF k1, k2
<1>4. Len(a1) \in Nat /\ Len(a2) \in Nat /\ Len(b1) \in Nat /\ Len(b2) \in Nat
  OBVIOUS
<1>5. ~(Len(a1) < Len(a2))
  <2> SUFFICES ASSUME Len(a1) < Len(a2)
               PROVE  FALSE
    OBVIOUS
  <2>1. PICK i \in 1 .. Len(b1) : Len(a1) + 1 + i = Len(a2) + 1
    <3>1. Len(a2) - Len(a1) \in 1 .. Len(b1)
      BY <1>1, <1>2, <1>3, <1>4
    <3>2. Len(a1) + 1 + (Len(a2) - Len(a1)) = Len(a2) + 1
      BY <1>4
    <3> QED
      BY <3>1, <3>2
  <2> QED
    BY <1>1, <1>2, <1>3, <2>1
<1>6. ~(Len(a2) < Len(a1))
  <2> SUFFICES ASSUME Len(a2) < Len(a1)
               PROVE  FALSE
    OBVIOUS
  <2>1. PICK i \in 1 .. Len(b2) : Len(a2) + 1 + i = Len(a1) + 1
    <3>1. Len(a1) - Len(a2) \in 1 .. Len(b2)
      BY <1>1, <1>2, <1>3, <1>4
    <3>2. Len(a2) + 1 + (Len(a1) - Len(a2)) = Len(a1) + 1
      BY <1>4
    <3> QED
      BY <3>1, <3>2
  <2> QED
    BY <1>1, <1>2, <1>3, <2>1
<1>7. Len(b1) = Len(b2)
  BY <1>1, <1>2, <1>3, <1>4, <1>5, <1>6
<1> QED
  BY <1>7, SameTails

\* Two searches with one key have one limit; if no bar hides in what is joined
\* by bars, they are one search for SearXNG.
LEMMA KeysTellApart ==
  ASSUME NEW s \in Question, NEW t \in Question, cacheKey(s) = cacheKey(t)
  PROVE  /\ ToString(Limit(s)) = ToString(Limit(t))
         /\ /\ HasNoBar(s.cats) /\ HasNoBar(s.lang) /\ HasNoBar(s.range)
            /\ HasNoBar(t.cats) /\ HasNoBar(t.lang) /\ HasNoBar(t.range)
            => [s EXCEPT !.max = 0] = [t EXCEPT !.max = 0]
<1> DEFINE S == STRING \cup {"|", ToString(Limit(s)), ToString(Limit(t))}
           upToCats(u) == u.query \o <<"|">> \o u.cats
           upToLang(u) == upToCats(u) \o <<"|">> \o u.lang
           upToRange(u) == upToLang(u) \o <<"|">> \o u.range
           last(u) == <<ToString(Limit(u))>>
<1>1. "|" \in S
  OBVIOUS
<1>2. ASSUME NEW u \in Question
      PROVE  u.query \in Seq(S) /\ u.cats \in Seq(S) /\ u.lang \in Seq(S) /\ u.range \in Seq(S)
  BY DEF Question, Text
<1>3. last(s) \in Seq(S) /\ last(t) \in Seq(S) /\ Len(last(s)) = Len(last(t))
  OBVIOUS
<1>4. cacheKey(s) = upToRange(s) \o <<"|">> \o last(s)
  BY DEF cacheKey
<1>5. cacheKey(t) = upToRange(t) \o <<"|">> \o last(t)
  BY DEF cacheKey
<1>6. last(s) = last(t) => ToString(Limit(s)) = ToString(Limit(t))
  OBVIOUS
<1> HIDE DEF S, last
<1>7. ASSUME NEW u \in Question
      PROVE  upToCats(u) \in Seq(S)
  BY <1>1, <1>2, BarredIs
<1> HIDE DEF upToCats
<1>8. ASSUME NEW u \in Question
      PROVE  upToLang(u) \in Seq(S)
  BY <1>1, <1>2, <1>7, BarredIs
<1> HIDE DEF upToLang
<1>9. ASSUME NEW u \in Question
      PROVE  upToRange(u) \in Seq(S)
  BY <1>1, <1>2, <1>8, BarredIs
<1> HIDE DEF upToRange
<1>10. upToRange(s) = upToRange(t) /\ last(s) = last(t)
  <2>1. upToRange(s) \o <<"|">> \o last(s) = upToRange(t) \o <<"|">> \o last(t)
    BY <1>4, <1>5
  <2>2. upToRange(s) \in Seq(S) /\ upToRange(t) \in Seq(S)
    BY <1>9
  <2> QED
    BY <1>1, <1>3, <2>1, <2>2, SameTails, ZenonT(30)
<1>11. ASSUME HasNoBar(s.cats), HasNoBar(s.lang), HasNoBar(s.range),
              HasNoBar(t.cats), HasNoBar(t.lang), HasNoBar(t.range)
       PROVE  [s EXCEPT !.max = 0] = [t EXCEPT !.max = 0]
  <2>1. upToLang(s) = upToLang(t) /\ s.range = t.range
    <3>1. upToLang(s) \o <<"|">> \o s.range = upToLang(t) \o <<"|">> \o t.range
      BY <1>10 DEF upToRange
    <3>2. /\ upToLang(s) \in Seq(S) /\ upToLang(t) \in Seq(S)
          /\ s.range \in Seq(S) /\ t.range \in Seq(S)
      BY <1>2, <1>8
    <3>3. HasNoBar(s.range) /\ HasNoBar(t.range)
      BY <1>11
    <3> QED
      BY <1>1, <3>1, <3>2, <3>3, LastBar
  <2>2. upToCats(s) = upToCats(t) /\ s.lang = t.lang
    <3>1. upToCats(s) \o <<"|">> \o s.lang = upToCats(t) \o <<"|">> \o t.lang
      BY <2>1 DEF upToLang
    <3>2. /\ upToCats(s) \in Seq(S) /\ upToCats(t) \in Seq(S)
          /\ s.lang \in Seq(S) /\ t.lang \in Seq(S)
      BY <1>2, <1>7
    <3>3. HasNoBar(s.lang) /\ HasNoBar(t.lang)
      BY <1>11
    <3> QED
      BY <1>1, <3>1, <3>2, <3>3, LastBar
  <2>3. s.query = t.query /\ s.cats = t.cats
    <3>1. s.query \o <<"|">> \o s.cats = t.query \o <<"|">> \o t.cats
      BY <2>2 DEF upToCats
    <3>2. /\ s.query \in Seq(S) /\ t.query \in Seq(S)
          /\ s.cats \in Seq(S) /\ t.cats \in Seq(S)
      BY <1>2
    <3>3. HasNoBar(s.cats) /\ HasNoBar(t.cats)
      BY <1>11
    <3> QED
      BY <1>1, <3>1, <3>2, <3>3, LastBar
  <2> QED
    BY <2>1, <2>2, <2>3 DEF Question
<1> QED
  BY <1>6, <1>10, <1>11

-----------------------------------------------------------------------------
(* The inductive invariant.                                                  *)

Result == UNION {{w.results[i] : i \in DOMAIN w.results} : w \in Web}

Entry == [results : Seq(Result), down : {w.down : w \in Web}, web : Web, search : Search]

\* The entry is one answer of SearXNG to the search it was made for.
Sound(e) ==
    /\ e \in Entry
    /\ e.down = e.web.down
    /\ IsAnswer(e.results, e.web.results, Limit(e.search))

\* Every entry of the cache lies under the key of the search it was made for.
CacheSound ==
    \A k \in DOMAIN items :
        /\ Sound(items[k].value)
        /\ items[k].value.results # <<>>
        /\ k = cacheKey(items[k].value.search)

\* What a call holds was made for a search with the key of its own; what it is
\* about to store, for its own.
EntrySound ==
    /\ entry = [c \in Caller |-> entry[c]]
    /\ \A c \in Caller : pc[c] \in {"rank", "store", "reply"} =>
         /\ Sound(entry[c])
         /\ cacheKey(entry[c].search) = cacheKey(args[c])
         /\ pc[c] \in {"rank", "store"} => entry[c].search = args[c]
         /\ pc[c] = "store" => entry[c].results # <<>>

IInv == TypeOK /\ CacheSound /\ EntrySound

-----------------------------------------------------------------------------
(* The operations on the cache.                                              *)

LEMMA LimitIsInt ==
  ASSUME NEW s \in Search
  PROVE  Limit(s) \in Int
BY SearchAssumption DEF Limit, Question

LEMMA NoSearchIs == NoSearch \in Search
BY SearchAssumption DEF NoSearch

\* Get only drops entries.
LEMMA AfterGetIs ==
  ASSUME NEW m, NEW k, NEW t, NEW j \in DOMAIN Cache!AfterGet(m, k, t)
  PROVE  j \in DOMAIN m /\ Cache!AfterGet(m, k, t)[j] = m[j]
BY DEF Cache!AfterGet, Cache!Restrict

\* What Set leaves is its new entry and some of the old ones.
LEMMA StoredIs ==
  ASSUME NEW m, NEW k, NEW v, NEW t,
         NEW left \in Cache!Stored(m, k, v, t), NEW j \in DOMAIN left
  PROVE  IF j = k THEN left[j] = [value |-> v, expires |-> t + TTL]
                  ELSE j \in DOMAIN m /\ left[j] = m[j]
<1> DEFINE live == Cache!DropExpired(m, t)
<1>1. DOMAIN live \subseteq DOMAIN m /\ \A x \in DOMAIN live : live[x] = m[x]
  BY DEF Cache!DropExpired, Cache!Restrict, Cache!Live
<1>2. PICK rest \in Cache!Room(live) :
        left = Cache!Put(rest, k, [value |-> v, expires |-> t + TTL])
  BY DEF Cache!Stored
<1> HIDE DEF live
<1>3. DOMAIN rest \subseteq DOMAIN live /\ \A x \in DOMAIN rest : rest[x] = live[x]
  BY DEF Cache!Room, Cache!EvictOldest, Cache!Restrict
<1> QED
  BY <1>1, <1>2, <1>3 DEF Cache!Put

-----------------------------------------------------------------------------
(* The invariant is kept, action by action.                                  *)

LEMMA InitIInv == Init => IInv
<1> SUFFICES ASSUME Init
             PROVE  IInv
  OBVIOUS
<1>1. TypeOK
  BY NoSearchIs, SearchAssumption DEF Init, TypeOK
<1>2. CacheSound /\ EntrySound
  BY DEF Init, CacheSound, EntrySound
<1> QED
  BY <1>1, <1>2 DEF IInv

\* The types of the entries follow from what they are.
LEMMA TypeAfter ==
  ASSUME IInv, CacheSound', EntrySound', now' = now, args' \in [Caller -> Search],
         NEW c \in Caller, NEW label \in {"idle", "search", "rank", "store", "reply"},
         pc' = [pc EXCEPT ![c] = label]
  PROVE  TypeOK'
<1>1. \A k \in DOMAIN items' :
        items'[k].value.results # <<>> /\ items'[k].value.web \in Web
  BY DEF CacheSound, Sound, Entry
<1>2. \A d \in Caller :
        pc'[d] \in {"rank", "store", "reply"}
          => entry'[d].web \in Web /\ entry'[d].search \in Search
  BY DEF EntrySound, Sound, Entry
<1>3. /\ now' \in 0 .. MaxTime
      /\ pc' \in [Caller -> {"idle", "lookup", "search", "rank", "store", "reply"}]
  BY DEF IInv, TypeOK
<1> QED
  BY <1>1, <1>2, <1>3 DEF TypeOK

LEMMA ElapseKeeps ==
  ASSUME IInv, Elapse
  PROVE  IInv'
<1>1. now' \in 0 .. MaxTime
  BY SearchAssumption DEF IInv, TypeOK, Elapse
<1> QED
  BY <1>1 DEF IInv, TypeOK, Elapse, CacheSound, EntrySound

LEMMA CallKeeps ==
  ASSUME IInv, NEW c \in Caller, NEW search \in Search, Call(c, search)
  PROVE  IInv'
BY DEF IInv, TypeOK, Call, Goto, CacheSound, EntrySound

LEMMA LookupKeeps ==
  ASSUME IInv, NEW c \in Caller, Lookup(c)
  PROVE  IInv'
<1> DEFINE k == cacheKey(args[c])
<1>1. CacheSound'
  <2>1. items' = items \/ items' = Cache!AfterGet(items, k, now)
    BY DEF Lookup
  <2> HIDE DEF k
  <2>2. ASSUME NEW j \in DOMAIN items'
        PROVE  j \in DOMAIN items /\ items'[j] = items[j]
    BY <2>1, AfterGetIs
  <2> QED
    BY <2>2 DEF IInv, CacheSound
<1>2. EntrySound'
  <2>1. CASE TTL # 0 /\ Cache!Served(items, k, now)
    <3>1. entry' = [entry EXCEPT ![c] = items[k].value] /\ Goto(c, "reply") /\ args' = args
      BY <2>1 DEF Lookup
    <3>2. k \in DOMAIN items
      BY <2>1 DEF Cache!Served
    <3>3. Sound(items[k].value) /\ k = cacheKey(items[k].value.search)
      BY <3>2 DEF IInv, CacheSound
    <3> QED
      BY <3>1, <3>3 DEF IInv, TypeOK, EntrySound, Goto
  <2>2. CASE ~(TTL # 0 /\ Cache!Served(items, k, now))
    BY <2>2 DEF IInv, TypeOK, Lookup, EntrySound, Goto
  <2> QED
    BY <2>1, <2>2
<1>3. TypeOK'
  <2>1. PICK label \in {"reply", "search"} : pc' = [pc EXCEPT ![c] = label]
    BY DEF Lookup, Goto
  <2>2. now' = now /\ args' \in [Caller -> Search]
    BY DEF IInv, TypeOK, Lookup
  <2> QED
    BY <1>1, <1>2, <2>1, <2>2, TypeAfter
<1> QED
  BY <1>1, <1>2, <1>3 DEF IInv

LEMMA SearchInKeeps ==
  ASSUME IInv, NEW c \in Caller, SearchIn(c)
  PROVE  IInv'
<1>1. PICK web \in Web :
        entry' = [entry EXCEPT ![c] =
            [results |-> Response(web, Limit(args[c])), down |-> web.down, web |-> web,
             search |-> args[c]]]
  BY DEF SearchIn
<1>2. args[c] \in Search
  BY DEF IInv, TypeOK
<1>3. web.results \in Seq(Result)
  <2>1. web.results \in Seq({web.results[i] : i \in DOMAIN web.results})
    BY SearchAssumption
  <2>2. {web.results[i] : i \in DOMAIN web.results} \subseteq Result
    BY DEF Result
  <2> QED
    BY <2>1, <2>2
<1>4. /\ Response(web, Limit(args[c])) \in Seq(Result)
      /\ IsAnswer(Response(web, Limit(args[c])), web.results, Limit(args[c]))
  BY <1>2, <1>3, LimitIsInt, ResponseIsAnswer
<1> DEFINE e == [results |-> Response(web, Limit(args[c])), down |-> web.down, web |-> web,
                 search |-> args[c]]
<1>5. Sound(e)
  BY <1>2, <1>4 DEF Sound, Entry
<1>6. e.search = args[c] /\ entry' = [entry EXCEPT ![c] = e]
  BY <1>1
<1> HIDE DEF e
<1>7. EntrySound'
  BY <1>5, <1>6 DEF IInv, TypeOK, EntrySound, SearchIn, Goto
<1>8. CacheSound'
  BY DEF IInv, CacheSound, SearchIn
<1>9. TypeOK'
  <2>1. now' = now /\ args' \in [Caller -> Search] /\ pc' = [pc EXCEPT ![c] = "rank"]
    BY DEF IInv, TypeOK, SearchIn, Goto
  <2> QED
    BY <1>7, <1>8, <2>1, TypeAfter
<1> QED
  BY <1>7, <1>8, <1>9 DEF IInv

LEMMA RankKeeps ==
  ASSUME IInv, NEW c \in Caller, Rank(c)
  PROVE  IInv'
<1> DEFINE e == entry[c]
<1>1. PICK order \in Orders(e.results) :
        entry' = [entry EXCEPT ![c].results = [i \in DOMAIN @ |-> @[order[i]]]]
  BY DEF Rank
<1> DEFINE new == [i \in DOMAIN e.results |-> e.results[order[i]]]
           f == [e EXCEPT !.results = new]
<1>2. pc[c] = "rank" /\ Sound(e) /\ cacheKey(e.search) = cacheKey(args[c]) /\ e.search = args[c]
  BY DEF IInv, EntrySound, Rank
<1>3. entry' = [entry EXCEPT ![c] = f]
  BY <1>1 DEF IInv, EntrySound
<1>4. e.results \in Seq(Result) /\ IsAnswer(e.results, e.web.results, Limit(e.search))
  BY <1>2 DEF Sound, Entry
<1>5. /\ new \in Seq(Result)
      /\ IsAnswer(new, e.web.results, Limit(e.search))
      /\ e.results # <<>> => new # <<>>
  <2> HIDE DEF e
  <2> QED
    BY <1>4, ReorderedIsAnswer
<1> HIDE DEF new
<1>6. /\ Sound(f) /\ f.search = e.search /\ f.results = new
  BY <1>2, <1>5 DEF Sound, Entry
<1>7. PICK label \in {"store", "reply"} :
        /\ pc' = [pc EXCEPT ![c] = label]
        /\ label = "store" => e.results # <<>>
  BY DEF Rank, Goto
<1>8. UNCHANGED <<now, items, args>>
  BY DEF Rank
<1> HIDE DEF e, f
<1>9. EntrySound'
  BY <1>2, <1>3, <1>5, <1>6, <1>7, <1>8 DEF IInv, TypeOK, EntrySound
<1>10. CacheSound'
  BY <1>8 DEF IInv, CacheSound
<1>11. TypeOK'
  <2>1. args' \in [Caller -> Search]
    BY <1>8 DEF IInv, TypeOK
  <2> QED
    BY <1>7, <1>8, <1>9, <1>10, <2>1, TypeAfter
<1> QED
  BY <1>9, <1>10, <1>11 DEF IInv

LEMMA StoreKeeps ==
  ASSUME IInv, NEW c \in Caller, Store(c)
  PROVE  IInv'
<1> DEFINE k == cacheKey(args[c])
           e == entry[c]
<1>1. pc[c] = "store" /\ pc' = [pc EXCEPT ![c] = "reply"] /\ UNCHANGED <<now, args, entry>>
  BY DEF Store, Goto
<1>2. PICK left \in Cache!Stored(items, k, e, now) : items' = left
  BY DEF Store
<1>3. Sound(e) /\ e.results # <<>> /\ k = cacheKey(e.search)
  BY <1>1 DEF IInv, EntrySound
<1> HIDE DEF k, e
<1>4. CacheSound'
  <2> SUFFICES ASSUME NEW j \in DOMAIN left
               PROVE  /\ Sound(left[j].value)
                      /\ left[j].value.results # <<>>
                      /\ j = cacheKey(left[j].value.search)
    BY <1>2 DEF CacheSound
  <2>1. CASE j = k
    <3>1. left[j] = [value |-> e, expires |-> now + TTL]
      BY <2>1, StoredIs
    <3> QED
      BY <1>3, <2>1, <3>1
  <2>2. CASE j # k
    <3>1. j \in DOMAIN items /\ left[j] = items[j]
      BY <2>2, StoredIs
    <3> QED
      BY <3>1 DEF IInv, CacheSound
  <2> QED
    BY <2>1, <2>2
<1>5. EntrySound'
  BY <1>1 DEF IInv, TypeOK, EntrySound
<1>6. TypeOK'
  <2>1. args' \in [Caller -> Search]
    BY <1>1 DEF IInv, TypeOK
  <2> QED
    BY <1>1, <1>4, <1>5, <2>1, TypeAfter
<1> QED
  BY <1>4, <1>5, <1>6 DEF IInv

LEMMA ReturnKeeps ==
  ASSUME IInv, NEW c \in Caller, SearchFails(c) \/ Answer(c)
  PROVE  IInv'
<1>1. /\ pc' = [pc EXCEPT ![c] = "idle"]
      /\ args' = [args EXCEPT ![c] = NoSearch]
      /\ entry' = entry \/ entry' = [entry EXCEPT ![c] = Nothing]
      /\ UNCHANGED <<now, items>>
  BY DEF SearchFails, Answer, Goto
<1>2. CacheSound' /\ EntrySound'
  BY <1>1 DEF IInv, TypeOK, CacheSound, EntrySound
<1>3. TypeOK'
  <2>1. args' \in [Caller -> Search]
    BY <1>1, NoSearchIs DEF IInv, TypeOK
  <2> QED
    BY <1>1, <1>2, <2>1, TypeAfter
<1> QED
  BY <1>2, <1>3 DEF IInv

LEMMA NextKeeps == IInv /\ [Next]_vars => IInv'
<1> SUFFICES ASSUME IInv, [Next]_vars
             PROVE  IInv'
  OBVIOUS
<1>1. CASE Elapse
  BY <1>1, ElapseKeeps
<1>2. ASSUME NEW c \in Caller, NEW search \in Search, Call(c, search)
      PROVE  IInv'
  BY <1>2, CallKeeps
<1>3. ASSUME NEW c \in Caller,
             Lookup(c) \/ SearchIn(c) \/ SearchFails(c) \/ Rank(c) \/ Store(c) \/ Answer(c)
      PROVE  IInv'
  BY <1>3, LookupKeeps, SearchInKeeps, RankKeeps, StoreKeeps, ReturnKeeps
<1>4. CASE UNCHANGED vars
  BY <1>4 DEF vars, IInv, TypeOK, CacheSound, EntrySound
<1> QED
  BY <1>1, <1>2, <1>3, <1>4 DEF Next

LEMMA Inductive == Spec => []IInv
<1> QED
  BY InitIInv, NextKeeps, PTL DEF Spec

-----------------------------------------------------------------------------
(* What follows from it.                                                     *)

\* The cache holds answers of SearXNG that are not empty and nothing else,
\* whatever the calls do at once.
THEOREM TypeCorrect == Spec => []TypeOK
<1>1. IInv => TypeOK
  BY DEF IInv
<1> QED
  BY <1>1, Inductive, PTL

\* Where no category, language or time range holds a bar, no call is answered
\* with what was found for another search, whatever the queries hold: the key
\* is read back from its end.
THEOREM NoCallGetsAnothersResults ==
  ASSUME NoBars, DecimalsDiffer
  PROVE  Spec => []ReplyMatchesSearch
<1>1. IInv => ReplyMatchesSearch
  <2> SUFFICES ASSUME IInv, NEW c \in Caller, pc[c] = "reply"
               PROVE  /\ [entry[c].search EXCEPT !.max = 0] = [args[c] EXCEPT !.max = 0]
                      /\ Limit(entry[c].search) = Limit(args[c])
    BY DEF ReplyMatchesSearch
  <2> DEFINE s == entry[c].search
             t == args[c]
  <2>1. s \in Search /\ t \in Search /\ cacheKey(s) = cacheKey(t)
    BY DEF IInv, TypeOK, EntrySound
  <2>2. s \in Question /\ t \in Question
    BY <2>1, SearchAssumption
  <2>3. /\ HasNoBar(s.cats) /\ HasNoBar(s.lang) /\ HasNoBar(s.range)
        /\ HasNoBar(t.cats) /\ HasNoBar(t.lang) /\ HasNoBar(t.range)
    BY <2>1 DEF NoBars
  <2> HIDE DEF s, t
  <2>4. ToString(Limit(s)) = ToString(Limit(t)) /\ [s EXCEPT !.max = 0] = [t EXCEPT !.max = 0]
    BY <2>1, <2>2, <2>3, KeysTellApart
  <2>5. Limit(s) = Limit(t)
    BY <2>1, <2>4 DEF DecimalsDiffer
  <2> QED
    BY <2>4, <2>5 DEF s, t
<1> QED
  BY <1>1, Inductive, PTL

\* A reply is exactly what SearXNG answered to one request: the first result of
\* each page, as many as asked for, each once, none added or lost by the cut,
\* the reranker or the cache, with the engines that failed then.
THEOREM EveryReplyIsOneAnswer ==
  ASSUME DecimalsDiffer
  PROVE  Spec => []ReplyIsOneAnswer
<1>1. IInv => ReplyIsOneAnswer
  <2> SUFFICES ASSUME IInv, NEW c \in Caller, pc[c] = "reply"
               PROVE  /\ IsAnswer(entry[c].results, entry[c].web.results, Limit(args[c]))
                      /\ entry[c].down = entry[c].web.down
    BY DEF ReplyIsOneAnswer, IsAnswer, Wanted, First
  <2> DEFINE s == entry[c].search
             t == args[c]
  <2>1. s \in Search /\ t \in Search /\ cacheKey(s) = cacheKey(t) /\ Sound(entry[c])
    BY DEF IInv, TypeOK, EntrySound
  <2>2. s \in Question /\ t \in Question
    BY <2>1, SearchAssumption
  <2>3. Limit(s) = Limit(t)
    <3> HIDE DEF s, t
    <3>1. ToString(Limit(s)) = ToString(Limit(t))
      BY <2>1, <2>2, KeysTellApart
    <3> QED
      BY <2>1, <3>1 DEF DecimalsDiffer
  <2> QED
    BY <2>1, <2>3 DEF Sound
<1> QED
  BY <1>1, Inductive, PTL

-----------------------------------------------------------------------------
(* What one vote weighs (rerank.go:65-75).                                   *)

\* The steps of the folds in Rerank.
Plus(x, y) == x + y
Times(x, y) == x * y

Sums == INSTANCE FoldLemmas WITH op <- Plus
Products == INSTANCE FoldLemmas WITH op <- Times

Factors(n, rank) == [k \in 1 .. n |-> IF k = rank THEN 1 ELSE rrfK + k]

\* Weight is a fold; so is Fused, below.
LEMMA WeightIs ==
  ASSUME NEW n, NEW rank
  PROVE  Weight(n, rank) = Products!Folded(1, Factors(n, rank))
BY DEF Weight, Factors, FoldLeft, MapThenFoldSet, Times, Max, Products!Folded,
       Products!Solves, Products!Max

LEMMA FactorsAre ==
  ASSUME NEW n \in Nat, NEW rank
  PROVE  /\ DOMAIN Factors(n, rank) = 1 .. n
         /\ \A k \in 1 .. n : /\ Factors(n, rank)[k] \in Nat \ {0}
                              /\ Factors(n, rank)[k] = IF k = rank THEN 1 ELSE rrfK + k
BY DEF Factors, rrfK

LEMMA WeightPositive ==
  ASSUME NEW n \in Nat, NEW rank
  PROVE  Weight(n, rank) \in Nat \ {0}
<1> DEFINE D == Nat \ {0}
           f == Factors(n, rank)
<1>1. DOMAIN f = 1 .. n /\ \A k \in 1 .. n : f[k] \in D
  BY FactorsAre
<1>2. 1 \in D /\ \A x \in D, e \in D : Times(x, e) \in D
  BY DEF Times
<1>3. Weight(n, rank) = Products!Folded(1, f)
  BY WeightIs
<1> HIDE DEF D, f
<1>4. Products!Folded(1, f) \in D
  BY <1>1, <1>2, Products!FoldedIn
<1> QED
  BY <1>3, <1>4 DEF D

LEMMA WeightNone == ASSUME NEW rank PROVE Weight(0, rank) = 1
<1>1. DOMAIN Factors(0, rank) = {}
  BY DEF Factors
<1>2. Products!Folded(1, Factors(0, rank)) = 1
  BY <1>1, Products!FoldedEmpty
<1> QED
  BY <1>2, WeightIs

\* With one more result there is one more factor.
LEMMA WeightStep ==
  ASSUME NEW n \in Nat, NEW rank
  PROVE  Weight(n + 1, rank) =
             Weight(n, rank) * (IF n + 1 = rank THEN 1 ELSE rrfK + n + 1)
<1> DEFINE f == Factors(n, rank)
           g == Factors(n + 1, rank)
<1>1. /\ DOMAIN f = 1 .. n /\ DOMAIN g = 1 .. n + 1
      /\ \A k \in 1 .. n : f[k] = g[k]
      /\ g[n + 1] = IF n + 1 = rank THEN 1 ELSE rrfK + n + 1
  BY DEF Factors, rrfK
<1>2. Weight(n, rank) = Products!Folded(1, f) /\ Weight(n + 1, rank) = Products!Folded(1, g)
  BY WeightIs
<1> HIDE DEF f, g
<1>3. Products!Folded(1, g) = Times(Products!Folded(1, f), g[n + 1])
  BY <1>1, Products!FoldedAppend
<1> QED
  BY <1>1, <1>2, <1>3 DEF Times

\* With no rank left out the product is that of all the factors.
LEMMA WeightTotal ==
  ASSUME NEW rank \in Nat \ {0}, NEW n \in Nat
  PROVE  Weight(n, 0) = IF n >= rank THEN (rrfK + rank) * Weight(n, rank) ELSE Weight(n, rank)
<1> DEFINE Good(m) == Weight(m, 0) = IF m >= rank THEN (rrfK + rank) * Weight(m, rank)
                                                  ELSE Weight(m, rank)
           Bad == {m \in Nat : ~Good(m)}
<1> SUFFICES ASSUME Bad # {} PROVE FALSE
  BY DEF Bad
<1>1. PICK m \in Bad : \A k \in Bad : m <= k
  <2>1. Bad \in SUBSET Nat
    OBVIOUS
  <2> HIDE DEF Bad
  <2> QED
    BY <2>1, Sums!LeastNatural
<1>2. m # 0
  BY <1>1, WeightNone
<1>3. m - 1 \in Nat /\ Good(m - 1)
  BY <1>1, <1>2
<1> DEFINE k == m - 1
           a == Weight(k, 0)
           b == Weight(k, rank)
<1>4. a \in Nat /\ b \in Nat
  BY <1>3, WeightPositive
<1>5. Weight(m, 0) = a * (rrfK + m)
  <2>1. k + 1 = m /\ k + 1 # 0 /\ k \in Nat
    BY <1>1, <1>3
  <2>2. Weight(k + 1, 0) = Weight(k, 0) * (rrfK + k + 1)
    BY <2>1, WeightStep
  <2> QED
    BY <1>1, <2>1, <2>2 DEF rrfK
<1>6. Weight(m, rank) = b * (IF m = rank THEN 1 ELSE rrfK + m)
  <2>1. k + 1 = m /\ k \in Nat
    BY <1>1, <1>3
  <2>2. Weight(k + 1, rank) = Weight(k, rank) * (IF k + 1 = rank THEN 1 ELSE rrfK + k + 1)
    BY <2>1, WeightStep
  <2> QED
    BY <1>1, <2>1, <2>2 DEF rrfK
<1>7. a = IF k >= rank THEN (rrfK + rank) * b ELSE b
  BY <1>3
<1>8. m \in Nat /\ ~Good(m)
  BY <1>1
<1> HIDE DEF a, b
<1>9. CASE m < rank
  BY <1>4, <1>5, <1>6, <1>7, <1>8, <1>9 DEF rrfK
<1>10. CASE m = rank
  <2>1. a = b /\ Weight(m, rank) = b
    BY <1>4, <1>6, <1>7, <1>8, <1>10
  <2> QED
    BY <1>4, <1>5, <1>8, <1>10, <2>1 DEF rrfK
<1>11. CASE m > rank
  <2> DEFINE c == rrfK + m
             d == rrfK + rank
  <2>1. a = d * b /\ Weight(m, rank) = b * c /\ Weight(m, 0) = a * c
    BY <1>5, <1>6, <1>7, <1>8, <1>11
  <2>2. c \in Nat /\ d \in Nat
    BY <1>8 DEF rrfK
  <2> HIDE DEF c, d
  <2>3. (d * b) * c = d * (b * c)
    BY <1>4, <2>2
  <2>4. Weight(m, 0) = d * Weight(m, rank)
    BY <2>1, <2>3
  <2> QED
    BY <1>8, <1>11, <2>4 DEF d
<1> QED
  BY <1>8, <1>9, <1>10, <1>11

\* A better rank weighs more.
LEMMA HeavierIsEarlier ==
  ASSUME NEW n \in Nat, NEW r \in 1 .. n, NEW q \in 1 .. n, r < q
  PROVE  Weight(n, r) > Weight(n, q)
<1> DEFINE a == Weight(n, r)
           b == Weight(n, q)
           c == rrfK + r
           d == rrfK + q
<1>1. c * a = d * b
  BY WeightTotal
<1>2. a \in Nat \ {0} /\ b \in Nat \ {0}
  BY WeightPositive
<1>3. c \in Nat \ {0} /\ d \in Nat /\ c < d
  BY DEF rrfK
<1> HIDE DEF a, b, c, d
<1>4. ASSUME a <= b PROVE FALSE
  <2>1. c * a <= c * b
    BY <1>2, <1>3, <1>4
  <2>2. c * b < d * b
    <3>1. d * b = c * b + (d - c) * b
      BY <1>2, <1>3
    <3>2. (d - c) * b > 0
      BY <1>2, <1>3
    <3>3. c * b \in Nat /\ (d - c) * b \in Int
      BY <1>2, <1>3
    <3> QED
      BY <3>1, <3>2, <3>3
  <2>3. c * a \in Nat /\ c * b \in Nat /\ d * b \in Nat
    BY <1>2, <1>3
  <2> QED
    BY <1>1, <2>1, <2>2, <2>3
<1>5. a > b
  BY <1>2, <1>4
<1> QED
  BY <1>5 DEF a, b

\* Ranks weigh the same only if they are the same.
LEMMA EqualWeights ==
  ASSUME NEW n \in Nat, NEW r \in 1 .. n, NEW q \in 1 .. n
  PROVE  /\ r <= q => Weight(n, r) >= Weight(n, q)
         /\ Weight(n, r) = Weight(n, q) => r = q
<1>1. Weight(n, r) \in Nat /\ Weight(n, q) \in Nat
  BY WeightPositive
<1>2. r < q => Weight(n, r) > Weight(n, q)
  BY HeavierIsEarlier
<1>3. q < r => Weight(n, q) > Weight(n, r)
  BY HeavierIsEarlier
<1>4. r < q \/ r = q \/ q < r
  OBVIOUS
<1> QED
  BY <1>1, <1>2, <1>3, <1>4

-----------------------------------------------------------------------------
(* Sums of weights.                                                        *)

\* The number c is the sum of one to three numbers.
IsSum(c, m, s) ==
    /\ m = 1 => c = s[1]
    /\ m = 2 => c = s[1] + s[2]
    /\ m = 3 => c = s[1] + s[2] + s[3]

LEMMA SumIs ==
  ASSUME NEW m \in 1 .. 3, NEW s \in [1 .. m -> Int]
  PROVE  IsSum(Sums!Folded(0, s), m, s)
<1> DEFINE Upto(c) == [k \in 1 .. c |-> s[k]]
           F(c) == Sums!Folded(0, Upto(c))
<1>1. F(0) = 0
  <2>1. DOMAIN Upto(0) = {}
    OBVIOUS
  <2> HIDE DEF Upto
  <2> QED
    BY <2>1, Sums!FoldedEmpty
<1>2. ASSUME NEW c \in Nat, c + 1 <= m
      PROVE  F(c + 1) = F(c) + s[c + 1]
  <2> DEFINE f == Upto(c)
             g == Upto(c + 1)
  <2>1. /\ DOMAIN f = 1 .. c /\ DOMAIN g = 1 .. c + 1
        /\ \A k \in 1 .. c : f[k] = g[k]
        /\ g[c + 1] = s[c + 1]
    BY <1>2
  <2> HIDE DEF f, g
  <2>2. Sums!Folded(0, g) = Plus(Sums!Folded(0, f), g[c + 1])
    BY <2>1, Sums!FoldedAppend
  <2> QED
    BY <2>1, <2>2 DEF Plus, f, g
<1>3. Sums!Folded(0, s) = F(m)
  <2>1. Upto(m) = s
    OBVIOUS
  <2> QED
    BY <2>1
<1> HIDE DEF F, Upto
<1>4. F(1) = F(0) + s[1]
  BY <1>2
<1>5. m >= 2 => F(2) = F(1) + s[2]
  BY <1>2
<1>6. m >= 3 => F(3) = F(2) + s[3]
  BY <1>2
<1>7. \A k \in 1 .. m : s[k] \in Int
  OBVIOUS
<1> QED
  BY <1>1, <1>3, <1>4, <1>5, <1>6, <1>7 DEF IsSum

-----------------------------------------------------------------------------
(* The fused sum of a result (fuse).                                       *)

\* What one list of votes adds to the sum of result i.
Term(n, list, i) == IF i \in DOMAIN list THEN Weight(n, list[i]) ELSE 0

Terms(n, lists, i) == [l \in DOMAIN lists |-> Term(n, lists[l], i)]

\* Votes for results 1 .. n.
IsVotes(n, list) ==
    /\ DOMAIN list \subseteq 1 .. n
    /\ \A i \in DOMAIN list : list[i] \in 1 .. n

\* One to three lists of votes.
AreLists(n, lists) ==
    /\ Len(lists) \in 1 .. 3 /\ DOMAIN lists = 1 .. Len(lists)
    /\ \A l \in DOMAIN lists : IsVotes(n, lists[l])

LEMMA FusedIs ==
  ASSUME NEW n, NEW lists, NEW i
  PROVE  Fused(n, lists, i) = Sums!Folded(0, Terms(n, lists, i))
BY DEF Fused, Terms, Term, FoldLeft, MapThenFoldSet, Plus, Max, Sums!Folded,
       Sums!Solves, Sums!Max

LEMMA TermIs ==
  ASSUME NEW n \in Nat, NEW list, NEW i
  PROVE  Term(n, list, i) \in Nat /\ (i \in DOMAIN list => Term(n, list, i) > 0)
BY WeightPositive DEF Term

LEMMA TermsAre ==
  ASSUME NEW n \in Nat, NEW lists, AreLists(n, lists), NEW i
  PROVE  /\ \A l \in DOMAIN lists : /\ Terms(n, lists, i)[l] = Term(n, lists[l], i)
                                    /\ Terms(n, lists, i)[l] \in Nat
         /\ IsSum(Fused(n, lists, i), Len(lists), Terms(n, lists, i))
<1> DEFINE s == Terms(n, lists, i)
           m == Len(lists)
<1>1. m \in 1 .. 3 /\ DOMAIN lists = 1 .. m
  BY DEF AreLists
<1>2. s \in [1 .. m -> Int]
      /\ \A l \in 1 .. m : s[l] = Term(n, lists[l], i) /\ s[l] \in Nat
  BY <1>1, TermIs DEF Terms
<1>3. Fused(n, lists, i) = Sums!Folded(0, s)
  BY FusedIs
<1> HIDE DEF s, m
<1>4. IsSum(Sums!Folded(0, s), m, s)
  BY <1>1, <1>2, SumIs
<1> QED
  BY <1>1, <1>2, <1>3, <1>4 DEF m, s

\* The rank result i got from a list, 0 for none.
Vote(list, i) == IF i \in DOMAIN list THEN list[i] ELSE 0

\* What a list adds to the sum tells the rank.
LEMMA VoteIs ==
  ASSUME NEW n \in Nat, NEW list, IsVotes(n, list), NEW i, NEW j
  PROVE  /\ Vote(list, i) \in 0 .. n
         /\ Vote(list, i) = 0 <=> i \notin DOMAIN list
         /\ Term(n, list, i) = Term(n, list, j) <=> Vote(list, i) = Vote(list, j)
<1>1. \A k \in DOMAIN list : list[k] \in 1 .. n
  BY DEF IsVotes
<1>2. CASE i \in DOMAIN list /\ j \in DOMAIN list
  BY <1>1, <1>2, EqualWeights DEF Vote, Term
<1>3. CASE i \in DOMAIN list /\ j \notin DOMAIN list
  BY <1>1, <1>3, TermIs DEF Vote, Term
<1>4. CASE i \notin DOMAIN list
  BY <1>1, <1>4, TermIs DEF Vote, Term
<1> QED
  BY <1>2, <1>3, <1>4

\* Results of the same ranks have the same floats.
LEMMA SameRanks ==
  ASSUME NEW lists, NEW i, NEW j,
         \A l \in DOMAIN lists : Vote(lists[l], i) = Vote(lists[l], j)
  PROVE  Ranks(lists, i) = Ranks(lists, j) /\ ~Rounds(lists, i, j) /\ ~Rounds(lists, j, i)
<1>1. Ranks(lists, i) = Ranks(lists, j)
  BY DEF Ranks, Vote
<1> QED
  BY <1>1 DEF Rounds

\* A list of votes does not hold result i to be worse than result j.
NoWorse(list, i, j) == j \in DOMAIN list => i \in DOMAIN list /\ list[i] <= list[j]

\* It holds i to be better.
Better(list, i, j) == i \in DOMAIN list /\ (j \in DOMAIN list => list[i] < list[j])

\* In one list the term of a result that is no worse is no smaller.
LEMMA TermOrder ==
  ASSUME NEW n \in Nat, NEW list, IsVotes(n, list), NEW i, NEW j, NoWorse(list, i, j)
  PROVE  /\ Term(n, list, i) >= Term(n, list, j)
         /\ Better(list, i, j) => Term(n, list, i) > Term(n, list, j)
<1>1. Term(n, list, i) \in Nat /\ Term(n, list, j) \in Nat
  BY TermIs
<1>2. CASE j \notin DOMAIN list
  BY <1>1, <1>2, TermIs DEF Term, Better
<1>3. CASE j \in DOMAIN list
  <2>1. i \in DOMAIN list /\ list[i] \in 1 .. n /\ list[j] \in 1 .. n /\ list[i] <= list[j]
    BY <1>3 DEF NoWorse, IsVotes
  <2>2. Term(n, list, i) = Weight(n, list[i]) /\ Term(n, list, j) = Weight(n, list[j])
    BY <1>3, <2>1 DEF Term
  <2> QED
    BY <1>3, <2>1, <2>2, EqualWeights, HeavierIsEarlier DEF Better
<1> QED
  BY <1>2, <1>3

\* One to three numbers, none of them less than the other one's.
AtLeast(m, a, b) == \A l \in 1 .. m : a[l] \in Nat /\ b[l] \in Nat /\ a[l] >= b[l]

AreSums(c, d, len, a, b) ==
    len \in 1 .. 3 /\ AtLeast(len, a, b) /\ IsSum(c, len, a) /\ IsSum(d, len, b)

\* Sums are in the order of their terms.
LEMMA SumsOrder ==
  ASSUME NEW len, NEW a, NEW b, NEW c, NEW d, AreSums(c, d, len, a, b)
  PROVE  /\ c >= d
         /\ (\E l \in 1 .. len : a[l] > b[l]) => c > d
         /\ c = d => \A l \in 1 .. len : a[l] = b[l]
<1> USE DEF IsSum, AtLeast, AreSums
<1>1. CASE len = 1
  BY <1>1
<1>2. CASE len = 2
  <2>1. /\ a[1] \in Nat /\ b[1] \in Nat /\ a[1] >= b[1]
        /\ a[2] \in Nat /\ b[2] \in Nat /\ a[2] >= b[2]
    BY <1>2
  <2> QED
    BY <1>2, <2>1
<1>3. CASE len = 3
  <2>1. /\ a[1] \in Nat /\ b[1] \in Nat /\ a[1] >= b[1]
        /\ a[2] \in Nat /\ b[2] \in Nat /\ a[2] >= b[2]
        /\ a[3] \in Nat /\ b[3] \in Nat /\ a[3] >= b[3]
    BY <1>3
  <2> QED
    BY <1>3, <2>1
<1> QED
  BY <1>1, <1>2, <1>3 DEF AreSums

LEMMA SumType ==
  ASSUME NEW n \in Nat, NEW lists, AreLists(n, lists), NEW i
  PROVE  Fused(n, lists, i) \in Nat
<1> DEFINE m == Len(lists)
           s == Terms(n, lists, i)
<1>1. m \in 1 .. 3 /\ DOMAIN lists = 1 .. m
  BY DEF AreLists
<1>2. IsSum(Fused(n, lists, i), m, s) /\ \A l \in 1 .. m : s[l] \in Nat
  BY <1>1, TermsAre
<1> HIDE DEF m, s
<1>3. /\ s[1] \in Nat
      /\ m >= 2 => s[2] \in Nat
      /\ m >= 3 => s[3] \in Nat
  BY <1>1, <1>2
<1> QED
  BY <1>1, <1>2, <1>3 DEF IsSum

\* Where no list holds i to be worse, its sum is no smaller.
LEMMA SumOrder ==
  ASSUME NEW n \in Nat, NEW lists, AreLists(n, lists), NEW i, NEW j,
         \A l \in DOMAIN lists : NoWorse(lists[l], i, j)
  PROVE  /\ Fused(n, lists, i) >= Fused(n, lists, j)
         /\ (\E l \in DOMAIN lists : Better(lists[l], i, j)) =>
                Fused(n, lists, i) > Fused(n, lists, j)
         /\ Fused(n, lists, i) = Fused(n, lists, j) => ~Rounds(lists, j, i)
<1> DEFINE m == Len(lists)
           t == Terms(n, lists, i)
           u == Terms(n, lists, j)
           A == Fused(n, lists, i)
           B == Fused(n, lists, j)
<1>1. m \in 1 .. 3 /\ DOMAIN lists = 1 .. m
  BY DEF AreLists
<1>2. ASSUME NEW l \in 1 .. m
      PROVE  /\ t[l] \in Nat /\ u[l] \in Nat /\ t[l] >= u[l]
             /\ Better(lists[l], i, j) => t[l] > u[l]
             /\ t[l] = u[l] => Vote(lists[l], i) = Vote(lists[l], j)
  <2>1. IsVotes(n, lists[l]) /\ NoWorse(lists[l], i, j)
    BY <1>1 DEF AreLists
  <2>2. /\ t[l] = Term(n, lists[l], i) /\ u[l] = Term(n, lists[l], j)
        /\ t[l] \in Nat /\ u[l] \in Nat
    BY <1>1, TermsAre
  <2>3. Term(n, lists[l], i) = Term(n, lists[l], j) => Vote(lists[l], i) = Vote(lists[l], j)
    BY <2>1, VoteIs, Zenon
  <2> QED
    BY <2>1, <2>2, <2>3, TermOrder
<1>3. IsSum(A, m, t) /\ IsSum(B, m, u)
  BY TermsAre
<1> HIDE DEF t, u, A, B, m
<1>4. /\ A >= B
      /\ (\E l \in 1 .. m : t[l] > u[l]) => A > B
      /\ A = B => \A l \in 1 .. m : t[l] = u[l]
  <2>1. AreSums(A, B, m, t, u)
    BY <1>1, <1>2, <1>3 DEF AtLeast, AreSums
  <2> QED
    BY <2>1, SumsOrder
<1>5. (\E l \in DOMAIN lists : Better(lists[l], i, j)) => A > B
  BY <1>1, <1>2, <1>4
<1>6. A = B => ~Rounds(lists, j, i)
  BY <1>1, <1>2, <1>4, SameRanks
<1> QED
  BY <1>4, <1>5, <1>6 DEF A, B

-----------------------------------------------------------------------------
(* Which result goes first.                                                *)

\* An order of n results names none twice.
IsOrder(n, order) ==
    /\ order \in [1 .. n -> 1 .. n]
    /\ \A p, q \in 1 .. n : p < q => order[p] # order[q]

\* It names every result.
LEMMA OrderNames ==
  ASSUME NEW n \in Nat, NEW order, IsOrder(n, order), NEW i \in 1 .. n
  PROVE  \E p \in 1 .. n : order[p] = i
<1> USE DEF IsOrder
<1> DEFINE N == 1 .. n
<1>1. IsFiniteSet(N)
  BY FS_Interval
<1>2. order \in Injection(N, N)
  BY DEF Injection, IsInjective
<1>3. order \in Surjection(N, N)
  <2> HIDE DEF N
  <2> QED
    BY <1>1, <1>2, FS_Injection
<1> QED
  BY <1>3 DEF Surjection

\* No list holds result i to be worse than j, and it came first or some list
\* holds it to be better.
Leads(lists, i, j) ==
    /\ i # j
    /\ \A l \in DOMAIN lists : NoWorse(lists[l], i, j)
    /\ i < j \/ \E l \in DOMAIN lists : Better(lists[l], i, j)

GoesBefore(n, order, i, j) ==
    \E p, q \in 1 .. n : order[p] = i /\ order[q] = j /\ p < q

LEMMA GoesFirst ==
  ASSUME NEW m \in Nat, NEW few, AreLists(m, few), NEW o \in rrfFuse(m, few),
         NEW x \in 1 .. m, NEW y \in 1 .. m, Leads(few, x, y)
  PROVE  GoesBefore(m, o, x, y)
<1> USE DEF Leads
<1>1. /\ o \in [1 .. m -> 1 .. m]
      /\ \A p, q \in 1 .. m : p < q =>
            /\ o[p] # o[q]
            /\ Fused(m, few, o[p]) >= Fused(m, few, o[q])
            /\ Fused(m, few, o[p]) = Fused(m, few, o[q])
                  /\ ~Rounds(few, o[p], o[q]) => o[p] < o[q]
  BY DEF rrfFuse
<1> IsOrder(m, o)
  BY <1>1 DEF IsOrder
<1>2. PICK p \in 1 .. m : o[p] = x
  BY OrderNames
<1>3. PICK q \in 1 .. m : o[q] = y
  BY OrderNames
<1>4. ASSUME q < p PROVE FALSE
  <2> DEFINE a == Fused(m, few, x)
             b == Fused(m, few, y)
  <2>1. b >= a /\ (b = a /\ ~Rounds(few, y, x) => y < x)
    BY <1>1, <1>2, <1>3, <1>4
  <2>2. /\ a >= b
        /\ (\E l \in DOMAIN few : Better(few[l], x, y)) => a > b
        /\ a = b => ~Rounds(few, y, x)
    BY SumOrder
  <2>3. a \in Int /\ b \in Int
    BY SumType
  <2> HIDE DEF a, b
  <2>4. a = b
    BY <2>1, <2>2, <2>3
  <2>5. ~(x < y)
    BY <2>1, <2>2, <2>4
  <2> QED
    BY <2>2, <2>3, <2>4, <2>5
<1>5. p # q
  BY <1>2, <1>3
<1>6. p < q
  BY <1>4, <1>5
<1> QED
  BY <1>2, <1>3, <1>6 DEF GoesBefore

-----------------------------------------------------------------------------
(* Places (positionalVotes).                                               *)

LEMMA PlaceRange ==
  ASSUME NEW n \in Nat, NEW score \in [1 .. n -> Int], NEW i \in 1 .. n
  PROVE  Place(score, i) \in 1 .. n
<1> DEFINE N == 1 .. n
           S == {k \in N : score[k] > score[i] \/ (score[k] = score[i] /\ k <= i)}
<1>1. IsFiniteSet(N) /\ Cardinality(N) = n
  BY FS_Interval
<1>2. S \in SUBSET N /\ i \in S
  OBVIOUS
<1>3. Place(score, i) = Cardinality(S)
  BY DEF Place
<1> HIDE DEF N, S
<1>4. IsFiniteSet(S) /\ Cardinality(S) <= n
  BY <1>1, <1>2, FS_Subset
<1>5. Cardinality(S) \in Nat /\ Cardinality(S) # 0
  BY <1>2, <1>4, FS_CardinalityType, FS_EmptySet
<1> QED
  BY <1>3, <1>4, <1>5

\* A proper subset is smaller.
LEMMA Fewer ==
  ASSUME NEW n \in Nat, NEW S, NEW T \in SUBSET (1 .. n), S \subseteq T
  PROVE  /\ Cardinality(S) \in Nat /\ Cardinality(T) \in Nat
         /\ Cardinality(S) <= Cardinality(T) /\ Cardinality(T) <= n
         /\ S # T => Cardinality(S) < Cardinality(T)
<1>1. IsFiniteSet(1 .. n) /\ Cardinality(1 .. n) = n
  BY FS_Interval
<1>2. IsFiniteSet(T) /\ Cardinality(T) <= n
  BY <1>1, FS_Subset
<1>3. /\ IsFiniteSet(S) /\ Cardinality(S) <= Cardinality(T)
      /\ Cardinality(T) = Cardinality(S) => T = S
  BY <1>2, FS_Subset
<1>4. Cardinality(S) \in Nat /\ Cardinality(T) \in Nat
  BY <1>2, <1>3, FS_CardinalityType
<1> QED
  BY <1>2, <1>3, <1>4

\* A higher score, or the same one earlier, is a better place.
LEMMA PlaceOrder ==
  ASSUME NEW n \in Nat, NEW score \in [1 .. n -> Int], NEW i \in 1 .. n, NEW j \in 1 .. n,
         score[i] > score[j] \/ (score[i] = score[j] /\ i < j)
  PROVE  Place(score, i) < Place(score, j)
<1> DEFINE N == 1 .. n
           S == {k \in N : score[k] > score[i] \/ (score[k] = score[i] /\ k <= i)}
           T == {k \in N : score[k] > score[j] \/ (score[k] = score[j] /\ k <= j)}
<1>1. \A k \in N : score[k] \in Int
  OBVIOUS
<1>2. S \subseteq T
  BY <1>1
<1>3. j \in T /\ j \notin S
  BY <1>1
<1>4. Place(score, i) = Cardinality(S) /\ Place(score, j) = Cardinality(T)
  BY DEF Place
<1>5. T \in SUBSET N
  OBVIOUS
<1> HIDE DEF S, T
<1> QED
  BY <1>2, <1>3, <1>4, <1>5, Fewer

-----------------------------------------------------------------------------
(* The lists of votes.                                                     *)

Docs == UNION {[1 .. n -> Doc] : n \in 1 .. MaxDocs}
Answers == UNION {[1 .. n -> Mention] : n \in 0 .. MaxMentions}

LEMMA DocsAre ==
  ASSUME NEW ds \in Docs
  PROVE  /\ Len(ds) \in Nat /\ DOMAIN ds = 1 .. Len(ds)
         /\ \A i \in 1 .. Len(ds) : /\ ds[i] \in Doc
                                     /\ ds[i].bm25 \in Nat /\ ds[i].engines \in Nat
<1>1. PICK n \in 1 .. MaxDocs : ds \in [1 .. n -> Doc]
  BY DEF Docs
<1>2. n \in Nat
  BY RankAssumption
<1>3. Len(ds) = n
  BY <1>1, <1>2
<1>4. \A d \in Doc : d.bm25 \in Nat /\ d.engines \in Nat
  BY RankAssumption DEF Doc
<1> QED
  BY <1>1, <1>2, <1>3, <1>4

\* The votes by BM25: who has no score has no vote.
LEMMA Bm25Is ==
  ASSUME NEW ds \in Docs
  PROVE  LET votes == bm25Votes(ds)
             n == Len(ds)
         IN  /\ IsVotes(n, votes)
             /\ DOMAIN votes = {i \in 1 .. n : ds[i].bm25 > 0}
             /\ \A i, j \in 1 .. n :
                   /\ (ds[i].bm25 >= ds[j].bm25 /\ i < j) \/ ds[i].bm25 > ds[j].bm25
                         => NoWorse(votes, i, j)
                   /\ ds[i].bm25 > ds[j].bm25 => Better(votes, i, j)
<1> DEFINE n == Len(ds)
           score == [i \in 1 .. n |-> ds[i].bm25]
           votes == bm25Votes(ds)
<1>1. n \in Nat /\ DOMAIN ds = 1 .. n /\ \A i \in 1 .. n : ds[i].bm25 \in Nat
  BY DocsAre
<1>2. votes = [i \in {i \in 1 .. n : score[i] > 0} |-> Place(score, i)]
  BY <1>1 DEF bm25Votes
<1>3. score \in [1 .. n -> Int] /\ \A i \in 1 .. n : score[i] = ds[i].bm25 /\ score[i] \in Nat
  BY <1>1
<1> HIDE DEF n, score, votes
<1>4. DOMAIN votes = {i \in 1 .. n : ds[i].bm25 > 0}
  BY <1>2, <1>3
<1>5. \A i \in DOMAIN votes : votes[i] = Place(score, i) /\ Place(score, i) \in 1 .. n
  BY <1>1, <1>2, <1>3, PlaceRange
<1>6. IsVotes(n, votes)
  BY <1>4, <1>5 DEF IsVotes
<1>7. ASSUME NEW i \in 1 .. n, NEW j \in 1 .. n,
             (score[i] >= score[j] /\ i < j) \/ score[i] > score[j]
      PROVE  /\ NoWorse(votes, i, j)
             /\ score[i] > score[j] => Better(votes, i, j)
  <2>1. Place(score, i) < Place(score, j)
    BY <1>1, <1>3, <1>7, PlaceOrder
  <2>2. Place(score, i) \in 1 .. n /\ Place(score, j) \in 1 .. n
    BY <1>1, <1>3, PlaceRange
  <2>3. score[i] \in Nat /\ score[j] \in Nat
    BY <1>3
  <2>4. j \in DOMAIN votes => i \in DOMAIN votes /\ votes[i] < votes[j]
    <3> SUFFICES ASSUME j \in DOMAIN votes
                 PROVE  i \in DOMAIN votes /\ votes[i] < votes[j]
      OBVIOUS
    <3>1. score[j] > 0
      BY <1>3, <1>4
    <3>2. score[i] > 0
      BY <1>7, <2>3, <3>1
    <3>3. i \in DOMAIN votes
      BY <1>3, <1>4, <3>2
    <3> QED
      BY <1>5, <2>1, <3>3
  <2>5. score[i] > score[j] => i \in DOMAIN votes
    BY <1>3, <1>4, <2>3
  <2> QED
    BY <1>5, <2>2, <2>4, <2>5 DEF NoWorse, Better
<1> QED
  BY <1>3, <1>4, <1>6, <1>7 DEF n, votes

\* The votes by engines: everybody has one, and they are shared.
LEMMA EnginesAre ==
  ASSUME NEW ds \in Docs
  PROVE  LET votes == engineVotes(ds)
             n == Len(ds)
         IN  /\ IsVotes(n, votes)
             /\ DOMAIN votes = 1 .. n
             /\ \A i, j \in 1 .. n :
                   /\ ds[i].engines >= ds[j].engines => NoWorse(votes, i, j)
                   /\ ds[i].engines > ds[j].engines => Better(votes, i, j)
                   /\ ds[i].engines = ds[j].engines => votes[i] = votes[j]
<1> DEFINE n == Len(ds)
           More_(i) == {k \in 1 .. n : ds[k].engines > ds[i].engines}
           votes == engineVotes(ds)
<1>1. n \in Nat /\ DOMAIN ds = 1 .. n /\ \A i \in 1 .. n : ds[i].engines \in Nat
  BY DocsAre
<1>2. votes = [i \in 1 .. n |-> 1 + Cardinality(More_(i))]
  BY <1>1 DEF engineVotes
<1> HIDE DEF n, votes
<1>3. DOMAIN votes = 1 .. n /\ \A i \in 1 .. n : votes[i] = 1 + Cardinality(More_(i))
  BY <1>2
<1>4. ASSUME NEW i \in 1 .. n PROVE votes[i] \in 1 .. n
  <2> DEFINE S == More_(i)
             T == 1 .. n
  <2>1. S \subseteq T /\ S # T
    BY <1>1
  <2> HIDE DEF S
  <2>2. Cardinality(S) \in Nat /\ Cardinality(S) < Cardinality(T) /\ Cardinality(T) <= n
        /\ Cardinality(T) \in Nat
    BY <1>1, <2>1, Fewer
  <2> QED
    BY <1>1, <1>3, <2>2 DEF S
<1>5. ASSUME NEW i \in 1 .. n, NEW j \in 1 .. n, ds[i].engines >= ds[j].engines
      PROVE  /\ votes[i] <= votes[j]
             /\ ds[i].engines > ds[j].engines => votes[i] < votes[j]
  <2> DEFINE S == More_(i)
             T == More_(j)
  <2>1. S \subseteq T /\ (ds[i].engines > ds[j].engines => i \in T /\ i \notin S)
    BY <1>1, <1>5
  <2>2. T \in SUBSET (1 .. n)
    OBVIOUS
  <2>3. votes[i] = 1 + Cardinality(S) /\ votes[j] = 1 + Cardinality(T)
    BY <1>3
  <2> HIDE DEF S, T
  <2>4. /\ Cardinality(S) \in Nat /\ Cardinality(T) \in Nat
        /\ Cardinality(S) <= Cardinality(T)
        /\ S # T => Cardinality(S) < Cardinality(T)
    BY <1>1, <2>1, <2>2, Fewer
  <2> QED
    BY <2>1, <2>3, <2>4
<1>6. \A i, j \in 1 .. n : ds[i].engines = ds[j].engines => votes[i] = votes[j]
  BY <1>1, <1>4, <1>5
<1>7. ASSUME NEW i \in 1 .. n, NEW j \in 1 .. n, ds[i].engines >= ds[j].engines
      PROVE  NoWorse(votes, i, j) /\ (ds[i].engines > ds[j].engines => Better(votes, i, j))
  BY <1>3, <1>5, <1>7 DEF NoWorse, Better
<1>8. IsVotes(n, votes)
  BY <1>3, <1>4 DEF IsVotes
<1>9. \A i, j \in 1 .. n : ds[i].engines > ds[j].engines => ds[i].engines >= ds[j].engines
  BY <1>1
<1> QED
  BY <1>3, <1>6, <1>7, <1>8, <1>9 DEF n, votes

\* The scores of an answer of the service.
LEMMA ScoresAre ==
  ASSUME NEW ds \in Docs, NEW ans \in Answers
  PROVE  \/ Score(ds, ans) = {}
         \/ \E s \in [1 .. Len(ds) -> Int] : Score(ds, ans) = {s}
<1> DEFINE n == Len(ds)
           Named(i) == {k \in DOMAIN ans : ans[k].index = i - 1}
           s == [i \in 1 .. n |-> IF Named(i) = {} THEN 0 ELSE ans[Max(Named(i))].score]
<1>1. n \in Nat /\ DOMAIN ds = 1 .. n
  BY DocsAre
<1>2. PICK m \in 0 .. MaxMentions : ans \in [1 .. m -> Mention]
  BY DEF Answers
<1>3. ASSUME NEW i \in 1 .. n, Named(i) # {} PROVE ans[Max(Named(i))].score \in Int
  <2> DEFINE T == Named(i)
  <2>1. T \in SUBSET (1 .. m) /\ T # {} /\ m \in Nat
    BY <1>2, <1>3, RankAssumption
  <2> HIDE DEF T
  <2>2. Sums!Max(T) \in T
    BY <2>1, Sums!MaxIs
  <2>3. Max(T) \in T
    BY <2>2 DEF Max, Sums!Max
  <2>4. ans[Max(T)] \in Mention
    BY <1>2, <2>1, <2>3
  <2> QED
    BY <2>4, RankAssumption DEF T, Mention
<1>4. s \in [1 .. n -> Int]
  BY <1>3
<1>5. CASE ans = NoAnswer
  BY <1>5 DEF Score
<1>6. CASE ans # NoAnswer
  <2>1. Score(ds, ans) = {s}
    BY <1>1, <1>6 DEF Score
  <2> QED
    BY <1>4, <2>1
<1> QED
  BY <1>5, <1>6

\* The votes by the scores of the service.
LEMMA SemanticIs ==
  ASSUME NEW n \in Nat, NEW s \in [1 .. n -> Int]
  PROVE  LET votes == semanticVotes(s)
         IN  /\ IsVotes(n, votes)
             /\ \A i, j \in 1 .. n : (s[i] >= s[j] /\ i < j) \/ s[i] > s[j] => NoWorse(votes, i, j)
<1> DEFINE votes == semanticVotes(s)
<1>1. votes = [i \in 1 .. n |-> Place(s, i)]
  BY DEF semanticVotes
<1> HIDE DEF votes
<1>2. \A i \in 1 .. n : votes[i] = Place(s, i) /\ votes[i] \in 1 .. n
  BY <1>1, PlaceRange
<1>3. IsVotes(n, votes)
  BY <1>1, <1>2 DEF IsVotes
<1>4. ASSUME NEW i \in 1 .. n, NEW j \in 1 .. n, (s[i] >= s[j] /\ i < j) \/ s[i] > s[j]
      PROVE  NoWorse(votes, i, j)
  <2>1. s[i] \in Int /\ s[j] \in Int
    OBVIOUS
  <2>2. Place(s, i) < Place(s, j)
    BY <1>4, <2>1, PlaceOrder
  <2>3. votes[i] < votes[j]
    BY <1>2, <2>2
  <2> QED
    BY <1>1, <1>2, <2>3 DEF NoWorse
<1> QED
  BY <1>3, <1>4 DEF votes

LEMMA SeqOfNone == SetToSeq({}) = <<>>
<1>1. <<>> \in [1 .. Cardinality({}) -> {}] /\ IsInjective(<<>>)
  BY FS_EmptySet DEF IsInjective
<1>2. SetToSeq({}) \in [1 .. Cardinality({}) -> {}]
  BY <1>1 DEF SetToSeq
<1> QED
  BY <1>2, FS_EmptySet

LEMMA SeqOfOne == ASSUME NEW x PROVE SetToSeq({x}) = <<x>>
<1> DEFINE F == [1 .. Cardinality({x}) -> {x}]
           g == [k \in 1 .. 1 |-> x]
<1>1. F = [1 .. 1 -> {x}]
  BY FS_Singleton
<1>2. g \in F
  BY <1>1
<1>3. IsInjective(g)
  <2>1. \A a, b \in 1 .. 1 : a = b
    OBVIOUS
  <2> QED
    BY <2>1 DEF IsInjective
<1>4. SetToSeq({x}) \in F
  BY <1>2, <1>3 DEF SetToSeq
<1>5. ASSUME NEW f \in F PROVE f = g
  <2>1. f \in [1 .. 1 -> {x}]
    BY <1>1
  <2>2. \A k \in 1 .. 1 : f[k] = x
    BY <2>1
  <2>3. f = [k \in 1 .. 1 |-> f[k]]
    BY <2>1
  <2> QED
    BY <2>2, <2>3
<1>6. g = <<x>>
  <2>1. g \in Seq({x}) /\ Len(g) = 1 /\ g[1] = x
    OBVIOUS
  <2>2. <<x>> \in Seq({x}) /\ Len(<<x>>) = 1 /\ <<x>>[1] = x
    OBVIOUS
  <2> HIDE DEF g
  <2> QED
    BY <2>1, <2>2, SeqEqual
<1> QED
  BY <1>4, <1>5, <1>6

-----------------------------------------------------------------------------
(* The lists that are fused.                                               *)

\* The votes of the service.
Semantic(ds, ans) == SetToSeq({semanticVotes(s) : s \in Score(ds, ans)})

\* There is at most one list of them.
LEMMA SemanticAre ==
  ASSUME NEW ds \in Docs, NEW ans \in Answers
  PROVE  \/ Score(ds, ans) = {} /\ Semantic(ds, ans) = <<>>
         \/ \E s \in [1 .. Len(ds) -> Int] :
               Score(ds, ans) = {s} /\ Semantic(ds, ans) = <<semanticVotes(s)>>
<1>1. CASE Score(ds, ans) = {}
  <2>1. {semanticVotes(s) : s \in Score(ds, ans)} = {}
    BY <1>1
  <2> QED
    BY <1>1, <2>1, SeqOfNone DEF Semantic
<1>2. ASSUME NEW s \in [1 .. Len(ds) -> Int], Score(ds, ans) = {s}
      PROVE  Semantic(ds, ans) = <<semanticVotes(s)>>
  <2>1. {semanticVotes(x) : x \in Score(ds, ans)} = {semanticVotes(s)}
    BY <1>2
  <2> QED
    BY <2>1, SeqOfOne DEF Semantic
<1> QED
  BY <1>1, <1>2, ScoresAre

LEMMA TwoLists ==
  ASSUME NEW n, NEW x, NEW y, IsVotes(n, x), IsVotes(n, y)
  PROVE  /\ AreLists(n, <<x>>) /\ <<x>> \o <<>> = <<x>>
         /\ AreLists(n, <<x, y>>) /\ <<x>> \o <<y>> = <<x, y>> /\ <<x, y>> \o <<>> = <<x, y>>
<1>1. AreLists(n, <<x>>)
  BY DEF AreLists
<1>2. AreLists(n, <<x, y>>)
  BY DEF AreLists
<1>3. <<x>> \o <<>> = <<x>> /\ <<x, y>> \o <<>> = <<x, y>>
  OBVIOUS
<1>4. <<x>> \o <<y>> = <<x, y>>
  <2> DEFINE S == {x, y}
             s == <<x>> \o <<y>>
  <2>1. <<x>> \in Seq(S) /\ <<y>> \in Seq(S) /\ <<x, y>> \in Seq(S)
    OBVIOUS
  <2>2. s \in Seq(S) /\ Len(s) = 2 /\ s[1] = x /\ s[2] = y
    BY <2>1
  <2>3. Len(<<x, y>>) = 2 /\ <<x, y>>[1] = x /\ <<x, y>>[2] = y
    OBVIOUS
  <2> HIDE DEF s, S
  <2>4. \A k \in 1 .. Len(s) : s[k] = <<x, y>>[k]
    BY <2>2, <2>3
  <2>5. s = <<x, y>>
    BY <2>1, <2>2, <2>3, <2>4, SeqEqual
  <2> QED
    BY <2>5 DEF s
<1> QED
  BY <1>1, <1>2, <1>3, <1>4

LEMMA ThreeLists ==
  ASSUME NEW n, NEW x, NEW y, NEW z, IsVotes(n, x), IsVotes(n, y), IsVotes(n, z)
  PROVE  AreLists(n, <<x, y, z>>) /\ <<x, y>> \o <<z>> = <<x, y, z>>
<1>1. AreLists(n, <<x, y, z>>)
  BY DEF AreLists
<1>2. <<x, y>> \o <<z>> = <<x, y, z>>
  <2> DEFINE S == {x, y, z}
             s == <<x, y>> \o <<z>>
             r == <<x, y, z>>
  <2>1. <<x, y>> \in Seq(S) /\ <<z>> \in Seq(S) /\ r \in Seq(S)
    OBVIOUS
  <2>2. s \in Seq(S) /\ Len(s) = 3 /\ s[1] = x /\ s[2] = y /\ s[3] = z
    BY <2>1
  <2>3. Len(r) = 3 /\ r[1] = x /\ r[2] = y /\ r[3] = z
    OBVIOUS
  <2> HIDE DEF s, S, r
  <2>4. \A k \in 1 .. Len(s) : s[k] = r[k]
    BY <2>2, <2>3
  <2>5. s = r
    BY <2>1, <2>2, <2>3, <2>4, SeqEqual
  <2> QED
    BY <2>5 DEF s, r
<1> QED
  BY <1>1, <1>2

-----------------------------------------------------------------------------
(* What Rank returns.                                                      *)

\* What is ranked, and how.
RankInv ==
    /\ docs \in Docs
    /\ answer \in Answers
    /\ ranked = RankSemantic(docs, blank, answer)

LEMMA AlwaysRanked == RankSpec => []RankInv
<1>1. RankInit => RankInv
  BY DEF RankInit, RankInv, Docs, Answers
<1>2. RankInv /\ [RankNext]_rankVars => RankInv'
  <2> SUFFICES ASSUME RankInv, [RankNext]_rankVars PROVE RankInv'
    OBVIOUS
  <2>1. PICK n \in 1 .. MaxDocs : docs \in [1 .. n -> Doc]
    BY DEF RankInv, Docs
  <2>2. PICK m \in 0 .. MaxMentions : answer \in [1 .. m -> Mention]
    BY DEF RankInv, Answers
  <2>3. ASSUME NEW i \in DOMAIN docs, Match(i) PROVE RankInv'
    <3> DEFINE new == [docs EXCEPT ![i].bm25 = @ + 1]
    <3>1. Becomes(new, answer) /\ docs[i].bm25 < MaxBm25
      BY <2>3 DEF Match
    <3>2. new \in [1 .. n -> Doc]
      <4>1. i \in 1 .. n /\ docs[i] \in Doc
        BY <2>1, <2>3
      <4>2. [docs[i] EXCEPT !.bm25 = @ + 1] \in Doc
        BY <3>1, <4>1, RankAssumption DEF Doc
      <4>3. new = [docs EXCEPT ![i] = [docs[i] EXCEPT !.bm25 = @ + 1]]
        BY <4>1
      <4> QED
        BY <2>1, <4>1, <4>2, <4>3
    <3> HIDE DEF new
    <3> QED
      BY <2>2, <3>1, <3>2 DEF RankInv, Becomes, Docs, Answers
  <2>4. ASSUME NEW i \in DOMAIN docs, Consensus(i) PROVE RankInv'
    <3> DEFINE new == [docs EXCEPT ![i].engines = @ + 1]
    <3>1. Becomes(new, answer) /\ docs[i].engines < MaxEngines
      BY <2>4 DEF Consensus
    <3>2. new \in [1 .. n -> Doc]
      <4>1. i \in 1 .. n /\ docs[i] \in Doc
        BY <2>1, <2>4
      <4>2. [docs[i] EXCEPT !.engines = @ + 1] \in Doc
        BY <3>1, <4>1, RankAssumption DEF Doc
      <4>3. new = [docs EXCEPT ![i] = [docs[i] EXCEPT !.engines = @ + 1]]
        BY <4>1
      <4> QED
        BY <2>1, <4>1, <4>2, <4>3
    <3> HIDE DEF new
    <3> QED
      BY <2>2, <3>1, <3>2 DEF RankInv, Becomes, Docs, Answers
  <2>5. ASSUME NEW i \in DOMAIN docs, Rescore(i) PROVE RankInv'
    <3>1. PICK k \in DOMAIN answer, s \in Scores : Becomes(docs, [answer EXCEPT ![k].score = s])
      BY <2>5 DEF Rescore
    <3> DEFINE new == [answer EXCEPT ![k].score = s]
    <3>2. new \in [1 .. m -> Mention]
      BY <2>2 DEF Mention
    <3>3. Becomes(docs, new)
      BY <3>1
    <3> HIDE DEF new
    <3> QED
      BY <2>1, <2>2, <3>2, <3>3 DEF RankInv, Becomes, Docs, Answers
  <2>6. CASE UNCHANGED rankVars
    BY <2>6 DEF RankInv, rankVars
  <2> QED
    BY <2>3, <2>4, <2>5, <2>6 DEF RankNext
<1> QED
  BY <1>1, <1>2, PTL DEF RankSpec

\* Of at least two results and a query with words.
LEMMA RankedIs ==
  ASSUME RankInv
  PROVE  /\ ranked.marked <=> Len(docs) >= 2 /\ ~blank
         /\ ranked.marked => ranked.orders = rrfFuse(Len(docs),
                <<bm25Votes(docs), engineVotes(docs)>> \o Semantic(docs, answer))
<1>1. Len(docs) \in Nat
  BY DocsAre DEF RankInv
<1>2. ranked = RankWith(docs, blank, Semantic(docs, answer))
  BY DEF RankInv, RankSemantic, Semantic
<1>3. CASE Len(docs) < 2 \/ blank
  BY <1>1, <1>2, <1>3 DEF RankWith
<1>4. CASE ~(Len(docs) < 2 \/ blank)
  BY <1>1, <1>2, <1>4 DEF RankWith
<1> QED
  BY <1>3, <1>4

\* A result that no signal holds to be worse, and that came first or that every
\* signal holds to be better, goes first (rerank.go:65-75, rerank.go:132-159): neither shared
\* ranks nor missing votes and scores nor the rounding of the sums play
\* against it.
THEOREM DominatedGoesBehind == RankSpec => []DominatedStaysBehind
<1>1. ASSUME RankInv PROVE DominatedStaysBehind
  <2> DEFINE n == Len(docs)
             a == bm25Votes(docs)
             b == engineVotes(docs)
             v == Semantic(docs, answer)
             S == Score(docs, answer)
             lists == <<a, b>> \o v
             NoSignalWorse(i, j) == /\ docs[i].bm25 >= docs[j].bm25
                                    /\ docs[i].engines >= docs[j].engines
                                    /\ \A s \in S : s[i] >= s[j]
             AllBetter(i, j) == /\ docs[i].bm25 > docs[j].bm25
                                /\ docs[i].engines > docs[j].engines
                                /\ \A s \in S : s[i] > s[j]
             Ahead(i, j) == \A order \in ranked.orders : \E p, q \in DOMAIN docs :
                                order[p] = i /\ order[q] = j /\ p < q
  <2>1. n \in Nat /\ DOMAIN docs = 1 .. n
        /\ \A i \in 1 .. n : docs[i].bm25 \in Nat /\ docs[i].engines \in Nat
    BY <1>1, DocsAre DEF RankInv
  <2>2. ASSUME ~blank, NEW i \in 1 .. n, NEW j \in 1 .. n,
               (NoSignalWorse(i, j) /\ i < j) \/ AllBetter(i, j),
               NEW order \in ranked.orders
        PROVE  \E p, q \in 1 .. n : order[p] = i /\ order[q] = j /\ p < q
    <3>1. i # j /\ n >= 2
      BY <2>1, <2>2
    <3>2. order \in rrfFuse(n, lists)
      BY <1>1, <2>2, <3>1, RankedIs
    <3>3. IsVotes(n, a) /\ NoWorse(a, i, j)
      BY <1>1, <2>1, <2>2, Bm25Is DEF RankInv
    <3>4. IsVotes(n, b) /\ NoWorse(b, i, j) /\ (i < j \/ Better(b, i, j))
      BY <1>1, <2>1, <2>2, EnginesAre DEF RankInv
    <3>5. AreLists(n, lists) /\ Leads(lists, i, j)
      <4>1. CASE v = <<>>
        <5> HIDE DEF a, b, n
        <5>1. lists = <<a, b>> /\ AreLists(n, <<a, b>>)
          BY <3>3, <3>4, <4>1, TwoLists
        <5> HIDE DEF lists
        <5> QED
          BY <3>1, <3>3, <3>4, <5>1 DEF Leads
      <4>2. ASSUME NEW s \in [1 .. n -> Int], S = {s}, v = <<semanticVotes(s)>>
            PROVE  AreLists(n, lists) /\ Leads(lists, i, j)
        <5> DEFINE c == semanticVotes(s)
        <5>1. IsVotes(n, c) /\ NoWorse(c, i, j)
          BY <2>1, <2>2, <4>2, SemanticIs
        <5>2. v = <<c>>
          BY <4>2
        <5> HIDE DEF a, b, c, n, v
        <5>3. lists = <<a, b, c>> /\ AreLists(n, <<a, b, c>>)
          BY <3>3, <3>4, <5>1, <5>2, ThreeLists
        <5> HIDE DEF lists
        <5> QED
          BY <3>1, <3>3, <3>4, <5>1, <5>3 DEF Leads
      <4> QED
        BY <1>1, <4>1, <4>2, SemanticAre DEF RankInv
    <3> HIDE DEF lists, n, NoSignalWorse, AllBetter
    <3>6. GoesBefore(n, order, i, j)
      BY <2>1, <2>2, <3>2, <3>5, GoesFirst, Zenon
    <3> QED
      BY <3>6, Zenon DEF GoesBefore
  <2>3. ASSUME ~blank, NEW i \in DOMAIN docs, NEW j \in DOMAIN docs,
               (NoSignalWorse(i, j) /\ i < j) \/ AllBetter(i, j)
        PROVE  Ahead(i, j)
    <3> HIDE DEF NoSignalWorse, AllBetter
    <3> SUFFICES ASSUME NEW order \in ranked.orders
                 PROVE  \E p, q \in DOMAIN docs : order[p] = i /\ order[q] = j /\ p < q
      OBVIOUS
    <3>1. i \in 1 .. n /\ j \in 1 .. n
      BY <2>1
    <3>2. \E p, q \in 1 .. n : order[p] = i /\ order[q] = j /\ p < q
      BY <2>2, <2>3, <3>1
    <3> HIDE DEF n
    <3> QED
      BY <2>1, <3>2
  <2> QED
    BY <2>3, Zenon DEF DominatedStaysBehind
<1> QED
  BY <1>1, AlwaysRanked, PTL

-----------------------------------------------------------------------------
(* Signals that tell nothing apart.                                        *)

\* The sums of few lists, by the votes in them.
LEMMA SumOfLists ==
  ASSUME NEW n \in Nat, NEW few, AreLists(n, few), NEW r
  PROVE  LET t(l) == Term(n, few[l], r)
         IN  /\ Len(few) = 1 => Fused(n, few, r) = t(1)
             /\ Len(few) = 2 => Fused(n, few, r) = t(1) + t(2)
             /\ Len(few) = 3 => Fused(n, few, r) = t(1) + t(2) + t(3)
<1> DEFINE s == Terms(n, few, r)
           f == Fused(n, few, r)
<1>1. Len(few) \in 1 .. 3 /\ DOMAIN few = 1 .. Len(few)
  BY DEF AreLists
<1>2. \A l \in DOMAIN few : s[l] = Term(n, few[l], r)
  BY TermsAre
<1>3. IsSum(f, Len(few), s)
  BY TermsAre
<1> HIDE DEF s, f
<1>4. /\ Len(few) = 1 => f = s[1]
      /\ Len(few) = 2 => f = s[1] + s[2]
      /\ Len(few) = 3 => f = s[1] + s[2] + s[3]
  BY <1>3 DEF IsSum
<1> QED
  BY <1>1, <1>2, <1>4 DEF f

LEMMA SumOfOne ==
  ASSUME NEW n \in Nat, NEW x, IsVotes(n, x), NEW r
  PROVE  Fused(n, <<x>>, r) = Term(n, x, r)
<1> DEFINE few == <<x>>
<1>1. Len(few) = 1 /\ few[1] = x /\ AreLists(n, few)
  BY TwoLists
<1> HIDE DEF few
<1>2. Fused(n, few, r) = Term(n, few[1], r)
  BY <1>1, SumOfLists
<1> QED
  BY <1>1, <1>2 DEF few

LEMMA SumOfTwo ==
  ASSUME NEW n \in Nat, NEW x, NEW y, IsVotes(n, x), IsVotes(n, y), NEW r
  PROVE  Fused(n, <<x, y>>, r) = Term(n, x, r) + Term(n, y, r)
<1> DEFINE few == <<x, y>>
<1>1. Len(few) = 2 /\ few[1] = x /\ few[2] = y /\ AreLists(n, few)
  BY TwoLists
<1> HIDE DEF few
<1>2. Fused(n, few, r) = Term(n, few[1], r) + Term(n, few[2], r)
  BY <1>1, SumOfLists
<1> QED
  BY <1>1, <1>2 DEF few

LEMMA SumOfThree ==
  ASSUME NEW n \in Nat, NEW x, NEW y, NEW z, IsVotes(n, x), IsVotes(n, y), IsVotes(n, z), NEW r
  PROVE  Fused(n, <<x, y, z>>, r) = Term(n, x, r) + Term(n, y, r) + Term(n, z, r)
<1> DEFINE few == <<x, y, z>>
<1>1. /\ Len(few) = 3 /\ few[1] = x /\ few[2] = y /\ few[3] = z
      /\ AreLists(n, few)
  BY ThreeLists
<1> HIDE DEF few
<1>2. Fused(n, few, r) = Term(n, few[1], r) + Term(n, few[2], r) + Term(n, few[3], r)
  BY <1>1, SumOfLists
<1> QED
  BY <1>1, <1>2 DEF few

\* The ranks of few lists.
LEMMA RanksOfOne ==
  ASSUME NEW y, NEW i
  PROVE  ~AddsThree(Ranks(<<y>>, i)) /\ Range(Ranks(<<y>>, i)) = {Vote(y, i)}
<1>1. Ranks(<<y>>, i) = <<Vote(y, i)>>
  BY DEF Ranks, Vote
<1> DEFINE s == Ranks(<<y>>, i)
<1>2. Len(s) = 1 /\ DOMAIN s = {1} /\ s[1] = Vote(y, i)
  BY <1>1
<1> HIDE DEF s
<1>3. Range(s) = {Vote(y, i)}
  BY <1>2 DEF Range
<1>4. ~AddsThree(s)
  BY <1>2 DEF AddsThree
<1> QED
  BY <1>3, <1>4 DEF s

LEMMA RanksOfTwo ==
  ASSUME NEW x, NEW y, NEW i
  PROVE  ~AddsThree(Ranks(<<x, y>>, i)) /\ Range(Ranks(<<x, y>>, i)) = {Vote(x, i), Vote(y, i)}
<1>1. Ranks(<<x, y>>, i) = <<Vote(x, i), Vote(y, i)>>
  BY DEF Ranks, Vote
<1> DEFINE s == Ranks(<<x, y>>, i)
<1>2. Len(s) = 2 /\ DOMAIN s = {1, 2} /\ s[1] = Vote(x, i) /\ s[2] = Vote(y, i)
  BY <1>1
<1> HIDE DEF s
<1>3. Range(s) = {Vote(x, i), Vote(y, i)}
  BY <1>2 DEF Range
<1>4. ~AddsThree(s)
  BY <1>2 DEF AddsThree
<1> QED
  BY <1>3, <1>4 DEF s

LEMMA RanksOfThree ==
  ASSUME NEW x, NEW y, NEW z, NEW i
  PROVE  LET s == Ranks(<<x, y, z>>, i)
         IN  /\ s[1] = Vote(x, i) /\ s[2] = Vote(y, i) /\ s[3] = Vote(z, i)
             /\ Range(s) = {Vote(x, i), Vote(y, i), Vote(z, i)}
             /\ AddsThree(s) <=> 0 \notin Range(s)
<1> DEFINE s == Ranks(<<x, y, z>>, i)
<1>1. s = <<Vote(x, i), Vote(y, i), Vote(z, i)>>
  BY DEF Ranks, Vote
<1>2. /\ Len(s) = 3 /\ DOMAIN s = 1 .. 3
      /\ s[1] = Vote(x, i) /\ s[2] = Vote(y, i) /\ s[3] = Vote(z, i)
  BY <1>1
<1> HIDE DEF s
<1>3. Range(s) = {s[1], s[2], s[3]}
  BY <1>2 DEF Range
<1>4. AddsThree(s) <=> 0 \notin Range(s)
  BY <1>2 DEF AddsThree
<1> QED
  BY <1>2, <1>3, <1>4 DEF s

\* A signal that adds c to every sum, and rounds nothing the others do not.
Shifts(n, full, others, c) ==
    /\ c \in Nat
    /\ \A i \in 1 .. n : /\ Fused(n, others, i) \in Nat
                         /\ Fused(n, full, i) = Fused(n, others, i) + c
    /\ \A i, j \in 1 .. n : Rounds(others, i, j) => Rounds(full, i, j)

\* Nor does it round more.
RoundsAlike(n, full, others) ==
    \A i, j \in 1 .. n : Rounds(full, i, j) => Rounds(others, i, j)

LEMMA ShiftKeepsOrders ==
  ASSUME NEW n \in Nat, NEW whole, NEW rest, NEW d, Shifts(n, whole, rest, d)
  PROVE  /\ rrfFuse(n, rest) \subseteq rrfFuse(n, whole)
         /\ RoundsAlike(n, whole, rest) => rrfFuse(n, whole) = rrfFuse(n, rest)
<1>1. /\ \A i, j \in 1 .. n : Rounds(rest, i, j) => Rounds(whole, i, j)
      /\ RoundsAlike(n, whole, rest) =>
             \A i, j \in 1 .. n : Rounds(whole, i, j) => Rounds(rest, i, j)
  BY DEF Shifts, RoundsAlike
<1>2. \A i, j \in 1 .. n :
        /\ Fused(n, whole, i) >= Fused(n, whole, j) <=> Fused(n, rest, i) >= Fused(n, rest, j)
        /\ Fused(n, whole, i) = Fused(n, whole, j) <=> Fused(n, rest, i) = Fused(n, rest, j)
  BY DEF Shifts
<1> DEFINE InOrderOf(lists, order) ==
      \A p, q \in 1 .. n : p < q =>
          /\ order[p] # order[q]
          /\ Fused(n, lists, order[p]) >= Fused(n, lists, order[q])
          /\ Fused(n, lists, order[p]) = Fused(n, lists, order[q])
                /\ ~Rounds(lists, order[p], order[q]) => order[p] < order[q]
<1>3. ASSUME NEW lists, NEW order
      PROVE  order \in rrfFuse(n, lists) <=>
                 order \in [1 .. n -> 1 .. n] /\ InOrderOf(lists, order)
  <2>1. ASSUME order \in [1 .. n -> 1 .. n]
        PROVE  \A p \in 1 .. n : [k \in 1 .. n |-> Fused(n, lists, k)][order[p]]
                                  = Fused(n, lists, order[p])
    BY <2>1
  <2> QED
    BY <2>1 DEF rrfFuse
<1>4. ASSUME NEW order \in [1 .. n -> 1 .. n]
      PROVE  /\ InOrderOf(rest, order) => InOrderOf(whole, order)
             /\ RoundsAlike(n, whole, rest) /\ InOrderOf(whole, order) => InOrderOf(rest, order)
  <2>1. \A p \in 1 .. n : order[p] \in 1 .. n
    OBVIOUS
  <2> QED
    BY <1>1, <1>2, <2>1
<1> HIDE DEF InOrderOf
<1> QED
  BY <1>3, <1>4

\* A signal is silent if its votes x give every result the rank t or, with t = 0,
\* none, and only one other list, y, may lack a vote; z does not.
Silent3(n, x, y, z, t) ==
    /\ n \in Nat /\ IsVotes(n, x) /\ IsVotes(n, y) /\ IsVotes(n, z)
    /\ \A i \in 1 .. n : Vote(x, i) = t /\ Vote(z, i) # 0
    /\ t = 0 => \A i \in 1 .. n : Vote(y, i) # 0

Silent2(n, x, y, t) ==
    /\ n \in Nat /\ IsVotes(n, x) /\ IsVotes(n, y)
    /\ \A i \in 1 .. n : Vote(x, i) = t

\* What it adds.
LEMMA SilentTerm ==
  ASSUME NEW n \in Nat, NEW x, IsVotes(n, x), NEW t, \A i \in 1 .. n : Vote(x, i) = t
  PROVE  \E c \in Nat : \A i \in 1 .. n : Term(n, x, i) = c
<1>1. CASE n = 0
  BY <1>1
<1>2. CASE n # 0
  <2>1. Term(n, x, 1) \in Nat
    BY TermIs
  <2>2. ASSUME NEW i \in 1 .. n PROVE Term(n, x, i) = Term(n, x, 1)
    <3>1. Vote(x, i) = Vote(x, 1)
      BY <1>2
    <3> QED
      BY <3>1, VoteIs, Zenon
  <2> QED
    BY <2>1, <2>2
<1> QED
  BY <1>1, <1>2

LEMMA SilentOfTwo ==
  ASSUME NEW n, NEW x, NEW y, NEW t, Silent2(n, x, y, t)
  PROVE  /\ \E c \in Nat : Shifts(n, <<x, y>>, <<y>>, c)
         /\ \E c \in Nat : Shifts(n, <<y, x>>, <<y>>, c)
         /\ RoundsAlike(n, <<x, y>>, <<y>>) /\ RoundsAlike(n, <<y, x>>, <<y>>)
<1> USE DEF Silent2
<1>1. PICK c \in Nat : \A i \in 1 .. n : Term(n, x, i) = c
  BY SilentTerm
<1>2. ASSUME NEW i \in 1 .. n
      PROVE  /\ Fused(n, <<y>>, i) \in Nat
             /\ Fused(n, <<x, y>>, i) = Fused(n, <<y>>, i) + c
             /\ Fused(n, <<y, x>>, i) = Fused(n, <<y>>, i) + c
  <2>1. Term(n, y, i) \in Nat /\ Term(n, x, i) = c
    BY <1>1, TermIs
  <2>2. Fused(n, <<y>>, i) = Term(n, y, i)
    BY SumOfOne
  <2>3. Fused(n, <<x, y>>, i) = Term(n, x, i) + Term(n, y, i)
    BY SumOfTwo
  <2>4. Fused(n, <<y, x>>, i) = Term(n, y, i) + Term(n, x, i)
    BY SumOfTwo
  <2> QED
    BY <2>1, <2>2, <2>3, <2>4
<1>3. ASSUME NEW i \in 1 .. n, NEW j \in 1 .. n
      PROVE  /\ Rounds(<<y>>, i, j) <=> Vote(y, i) # Vote(y, j)
             /\ Rounds(<<x, y>>, i, j) <=> Vote(y, i) # Vote(y, j)
             /\ Rounds(<<y, x>>, i, j) <=> Vote(y, i) # Vote(y, j)
  <2>1. ASSUME NEW lists, NEW a, NEW b,
               ~AddsThree(Ranks(lists, i)), ~AddsThree(Ranks(lists, j)),
               Range(Ranks(lists, i)) = a, Range(Ranks(lists, j)) = b
        PROVE  Rounds(lists, i, j) <=> a # b
    BY <2>1 DEF Rounds
  <2>2. Vote(x, i) = t /\ Vote(x, j) = t
    OBVIOUS
  <2>3. Rounds(<<y>>, i, j) <=> {Vote(y, i)} # {Vote(y, j)}
    BY <2>1, RanksOfOne
  <2>4. Rounds(<<x, y>>, i, j) <=> {Vote(x, i), Vote(y, i)} # {Vote(x, j), Vote(y, j)}
    BY <2>1, RanksOfTwo
  <2>5. Rounds(<<y, x>>, i, j) <=> {Vote(y, i), Vote(x, i)} # {Vote(y, j), Vote(x, j)}
    BY <2>1, RanksOfTwo
  <2> QED
    BY <2>2, <2>3, <2>4, <2>5
<1>4. \A i, j \in 1 .. n : /\ Rounds(<<y>>, i, j) <=> Rounds(<<x, y>>, i, j)
                           /\ Rounds(<<y>>, i, j) <=> Rounds(<<y, x>>, i, j)
  BY <1>3
<1> QED
  BY <1>1, <1>2, <1>4 DEF Shifts, RoundsAlike

LEMMA SilentOfThree ==
  ASSUME NEW n, NEW x, NEW y, NEW z, NEW t, Silent3(n, x, y, z, t)
  PROVE  /\ \E c \in Nat : Shifts(n, <<x, y, z>>, <<y, z>>, c)
         /\ \E c \in Nat : Shifts(n, <<y, x, z>>, <<y, z>>, c)
<1> USE DEF Silent3
<1>1. PICK c \in Nat : \A i \in 1 .. n : Term(n, x, i) = c
  BY SilentTerm
<1>2. ASSUME NEW i \in 1 .. n
      PROVE  /\ Fused(n, <<y, z>>, i) \in Nat
             /\ Fused(n, <<x, y, z>>, i) = Fused(n, <<y, z>>, i) + c
             /\ Fused(n, <<y, x, z>>, i) = Fused(n, <<y, z>>, i) + c
  <2>1. Term(n, y, i) \in Nat /\ Term(n, z, i) \in Nat /\ Term(n, x, i) = c
    BY <1>1, TermIs
  <2>2. Fused(n, <<y, z>>, i) = Term(n, y, i) + Term(n, z, i)
    BY SumOfTwo
  <2>3. Fused(n, <<x, y, z>>, i) = Term(n, x, i) + Term(n, y, i) + Term(n, z, i)
    BY SumOfThree
  <2>4. Fused(n, <<y, x, z>>, i) = Term(n, y, i) + Term(n, x, i) + Term(n, z, i)
    BY SumOfThree
  <2> QED
    BY <2>1, <2>2, <2>3, <2>4
<1>3. ASSUME NEW i \in 1 .. n, NEW j \in 1 .. n, Rounds(<<y, z>>, i, j)
      PROVE  Rounds(<<x, y, z>>, i, j) /\ Rounds(<<y, x, z>>, i, j)
  <2>1. {Vote(y, i), Vote(z, i)} # {Vote(y, j), Vote(z, j)}
    BY <1>3, RanksOfTwo DEF Rounds
  <2>2. /\ Vote(x, i) = t /\ Vote(x, j) = t /\ Vote(z, i) # 0 /\ Vote(z, j) # 0
        /\ t = 0 => Vote(y, i) # 0 /\ Vote(y, j) # 0
    OBVIOUS
  <2> DEFINE S(k) == {Vote(x, k), Vote(y, k), Vote(z, k)}
  <2>3. \/ 0 \notin S(i) \/ 0 \notin S(j) \/ S(i) # S(j)
    BY <2>1, <2>2
  <2>4. S(i) = {Vote(y, i), Vote(x, i), Vote(z, i)} /\ S(j) = {Vote(y, j), Vote(x, j), Vote(z, j)}
    OBVIOUS
  <2>5. Vote(y, i) # Vote(y, j) \/ Vote(z, i) # Vote(z, j)
    BY <2>1
  <2> HIDE DEF S
  <2>6. Rounds(<<x, y, z>>, i, j)
    BY <2>3, <2>5, RanksOfThree DEF Rounds, S
  <2>7. Rounds(<<y, x, z>>, i, j)
    BY <2>3, <2>4, <2>5, RanksOfThree DEF Rounds
  <2> QED
    BY <2>6, <2>7
<1> QED
  BY <1>1, <1>2, <1>3 DEF Shifts

\* The votes v of the service, if any, on top of the two others: it has one for
\* every result.
IsExtra(n, v) == v = <<>> \/ \E z : IsVotes(n, z) /\ DOMAIN z = 1 .. n /\ v = <<z>>

\* Of two signals the votes x give every result the rank t, or with t = 0 none.
IsSilent(n, x, y, v, t) ==
    /\ n \in Nat /\ IsVotes(n, x) /\ IsVotes(n, y) /\ IsExtra(n, v)
    /\ \A i \in 1 .. n : Vote(x, i) = t
    /\ t = 0 => DOMAIN y = 1 .. n

Both(x, y, v) == <<x, y>> \o v
Alone(y, v) == <<y>> \o v

\* The orders without some votes are orders of all, and all of them without more.
Kept(n, all, others, v) ==
    /\ rrfFuse(n, others) \subseteq rrfFuse(n, all)
    /\ v = <<>> => rrfFuse(n, all) = rrfFuse(n, others)

LEMMA SilentKeepsOrders ==
  ASSUME NEW m, NEW x, NEW y, NEW extra, NEW r, IsSilent(m, x, y, extra, r)
  PROVE  /\ Kept(m, Both(x, y, extra), Alone(y, extra), extra)
         /\ Kept(m, Both(y, x, extra), Alone(y, extra), extra)
<1> USE DEF IsSilent
<1>1. CASE extra = <<>>
  <2> DEFINE f1 == <<x, y>>
             f2 == <<y, x>>
             g == <<y>>
  <2>1. f1 \o extra = f1 /\ f2 \o extra = f2 /\ g \o extra = g
    BY <1>1, TwoLists
  <2>2. Silent2(m, x, y, r)
    BY DEF Silent2
  <2>3. /\ \E c \in Nat : Shifts(m, f1, g, c)
        /\ \E c \in Nat : Shifts(m, f2, g, c)
        /\ RoundsAlike(m, f1, g) /\ RoundsAlike(m, f2, g)
    BY <2>2, SilentOfTwo
  <2> HIDE DEF f1, f2, g
  <2>4. rrfFuse(m, f1) = rrfFuse(m, g)
    BY <2>3, ShiftKeepsOrders, Zenon
  <2>5. rrfFuse(m, f2) = rrfFuse(m, g)
    BY <2>3, ShiftKeepsOrders, Zenon
  <2>6. /\ rrfFuse(m, g \o extra) \subseteq rrfFuse(m, f1 \o extra)
        /\ rrfFuse(m, g \o extra) \subseteq rrfFuse(m, f2 \o extra)
        /\ rrfFuse(m, f1 \o extra) = rrfFuse(m, g \o extra)
        /\ rrfFuse(m, f2 \o extra) = rrfFuse(m, g \o extra)
    BY <2>1, <2>4, <2>5
  <2> QED
    BY <2>6 DEF f1, f2, g, Kept, Both, Alone
<1>2. ASSUME NEW z, IsVotes(m, z), DOMAIN z = 1 .. m, extra = <<z>>
      PROVE  /\ rrfFuse(m, <<y>> \o extra) \subseteq rrfFuse(m, <<x, y>> \o extra)
             /\ rrfFuse(m, <<y>> \o extra) \subseteq rrfFuse(m, <<y, x>> \o extra)
  <2> DEFINE f1 == <<x, y, z>>
             f2 == <<y, x, z>>
             g == <<y, z>>
  <2>1. <<x, y>> \o <<z>> = f1
    BY <1>2, ThreeLists
  <2>2. <<y, x>> \o <<z>> = f2
    BY <1>2, ThreeLists
  <2>3. <<y>> \o <<z>> = g
    BY <1>2, TwoLists
  <2>4. Silent3(m, x, y, z, r)
    <3>1. \A i \in 1 .. m : Vote(z, i) # 0
      BY <1>2 DEF Vote, IsVotes
    <3>2. r = 0 => \A i \in 1 .. m : Vote(y, i) # 0
      BY DEF Vote, IsVotes
    <3> QED
      BY <1>2, <3>1, <3>2 DEF Silent3
  <2>5. /\ \E c \in Nat : Shifts(m, f1, g, c)
        /\ \E c \in Nat : Shifts(m, f2, g, c)
    BY <2>4, SilentOfThree
  <2> HIDE DEF f1, f2, g
  <2>6. rrfFuse(m, g) \subseteq rrfFuse(m, f1)
    BY <2>5, ShiftKeepsOrders, Zenon
  <2>7. rrfFuse(m, g) \subseteq rrfFuse(m, f2)
    BY <2>5, ShiftKeepsOrders, Zenon
  <2> QED
    BY <1>2, <2>1, <2>2, <2>3, <2>6, <2>7
<1>3. CASE extra # <<>>
  <2>1. PICK z : IsVotes(m, z) /\ DOMAIN z = 1 .. m /\ extra = <<z>>
    BY <1>3 DEF IsExtra
  <2> QED
    BY <1>2, <1>3, <2>1 DEF Kept, Both, Alone
<1> QED
  BY <1>1, <1>3

\* All the votes on ds, with those of answer ans.
All(ds, ans) == Both(bm25Votes(ds), engineVotes(ds), Semantic(ds, ans))

LEMMA SilentLeavesOrders ==
  ASSUME NEW ds \in Docs, NEW ans \in Answers, Len(ds) >= 2
  PROVE  LET Left(votes) == Kept(Len(ds), All(ds, ans), Alone(votes, Semantic(ds, ans)),
                                 Semantic(ds, ans))
         IN  /\ (\A i, j \in DOMAIN ds : ds[i].engines = ds[j].engines) => Left(bm25Votes(ds))
             /\ (\A i \in DOMAIN ds : ds[i].bm25 = 0) => Left(engineVotes(ds))
<1> DEFINE n == Len(ds)
           a == bm25Votes(ds)
           b == engineVotes(ds)
           v == Semantic(ds, ans)
<1>1. n \in Nat /\ DOMAIN ds = 1 .. n
  BY DocsAre
<1>2. IsVotes(n, a) /\ DOMAIN a = {i \in 1 .. n : ds[i].bm25 > 0}
  BY Bm25Is
<1>3. /\ IsVotes(n, b) /\ DOMAIN b = 1 .. n
      /\ \A i, j \in 1 .. n : ds[i].engines = ds[j].engines => b[i] = b[j]
  BY EnginesAre
<1>4. IsExtra(n, v)
  <2>1. \A s \in [1 .. n -> Int] : IsVotes(n, semanticVotes(s)) /\ DOMAIN semanticVotes(s) = 1 .. n
    BY <1>1, SemanticIs DEF semanticVotes
  <2>2. v = <<>> \/ \E s \in [1 .. n -> Int] : v = <<semanticVotes(s)>>
    BY SemanticAre
  <2> HIDE DEF n, v
  <2> QED
    BY <2>1, <2>2 DEF IsExtra
<1>5. n >= 2
  OBVIOUS
<1> HIDE DEF n, a, b, v
<1>6. ASSUME \A i, j \in DOMAIN ds : ds[i].engines = ds[j].engines
      PROVE  Kept(n, Both(a, b, v), Alone(a, v), v)
  <2>1. \A i \in 1 .. n : Vote(b, i) = b[1]
    BY <1>1, <1>3, <1>5, <1>6 DEF Vote
  <2>2. b[1] # 0
    <3>1. 1 \in DOMAIN b /\ b[1] \in 1 .. n
      BY <1>1, <1>3, <1>5 DEF IsVotes
    <3> QED
      BY <1>1, <3>1
  <2>3. IsSilent(n, b, a, v, b[1])
    BY <1>1, <1>2, <1>3, <1>4, <2>1, <2>2 DEF IsSilent
  <2> QED
    BY <2>3, SilentKeepsOrders
<1>7. ASSUME \A i \in DOMAIN ds : ds[i].bm25 = 0
      PROVE  Kept(n, Both(a, b, v), Alone(b, v), v)
  <2>1. \A i \in 1 .. n : Vote(a, i) = 0
    BY <1>1, <1>2, <1>7 DEF Vote
  <2>2. IsSilent(n, a, b, v, 0)
    BY <1>1, <1>2, <1>3, <1>4, <2>1 DEF IsSilent
  <2> QED
    BY <2>2, SilentKeepsOrders
<1> QED
  BY <1>6, <1>7 DEF a, b, n, v, All

\* A signal that tells nothing apart adds the same to every sum (rerank.go:65-75,
\* rerank.go:132-159): the orders are those of the other votes.
THEOREM SilentSignalsAreSilent == RankSpec => []SilentSignals
<1>1. ASSUME RankInv PROVE SilentSignals
  <2>1. docs \in Docs /\ answer \in Answers
    BY <1>1 DEF RankInv
  <2>2. ranked.marked => Len(docs) >= 2 /\ ranked.orders = rrfFuse(Len(docs), All(docs, answer))
    BY <1>1, RankedIs DEF All, Both
  <2>3. ranked.marked =>
          /\ (\A i, j \in DOMAIN docs : docs[i].engines = docs[j].engines) =>
                 Kept(Len(docs), All(docs, answer),
                      Alone(bm25Votes(docs), Semantic(docs, answer)), Semantic(docs, answer))
          /\ (\A i \in DOMAIN docs : docs[i].bm25 = 0) =>
                 Kept(Len(docs), All(docs, answer),
                      Alone(engineVotes(docs), Semantic(docs, answer)), Semantic(docs, answer))
    BY <2>1, <2>2, SilentLeavesOrders
  <2> QED
    BY <2>2, <2>3 DEF SilentSignals, Semantic, Kept, Alone
<1> QED
  BY <1>1, AlwaysRanked, PTL

-----------------------------------------------------------------------------
(* The places a result may have.                                           *)

\* before[a] is the set of those of 1 .. n that must come before a.
IsBefore(n, before) ==
    /\ before \in [1 .. n -> SUBSET (1 .. n)]
    /\ \A a \in 1 .. n : /\ a \notin before[a]
                         /\ \A b \in before[a] : before[b] \subseteq before[a]

\* Of two one comes first.
IsTotal(n, before) ==
    /\ IsBefore(n, before)
    /\ \A a, b \in 1 .. n : a # b => a \in before[b] \/ b \in before[a]

\* Those after a.
After(n, before, a) == {b \in 1 .. n : a \in before[b]}

Respects(n, order, before) ==
    /\ IsOrder(n, order)
    /\ \A p, q \in 1 .. n : p < q => order[q] \notin before[order[p]]

\* Everything can be put in its place: behind as many as come before it.
LEMMA TotalIsSorted ==
  ASSUME NEW n \in Nat, NEW before, IsTotal(n, before)
  PROVE  \E order : /\ Respects(n, order, before)
                    /\ \A p \in 1 .. n : p = Cardinality(before[order[p]]) + 1
<1> DEFINE N == 1 .. n
           pos == [a \in N |-> Cardinality(before[a]) + 1]
<1> USE DEF IsTotal, IsBefore
<1>1. IsFiniteSet(N) /\ Cardinality(N) = n
  BY FS_Interval
<1>2. ASSUME NEW a \in N PROVE pos[a] \in N /\ pos[a] = Cardinality(before[a]) + 1
  <2> DEFINE S == before[a]
  <2>1. S \subseteq N /\ S # N
    OBVIOUS
  <2> HIDE DEF S
  <2>2. Cardinality(S) \in Nat /\ Cardinality(S) < Cardinality(N)
    BY <2>1, Fewer
  <2> QED
    BY <1>1, <2>2 DEF S
<1>3. ASSUME NEW a \in N, NEW b \in N, a \in before[b] PROVE pos[a] < pos[b]
  <2> DEFINE S == before[a]
             T == before[b]
  <2>1. S \subseteq T /\ T \subseteq N /\ a \in T /\ a \notin S
    BY <1>3
  <2> HIDE DEF S, T
  <2>2. Cardinality(S) < Cardinality(T) /\ Cardinality(S) \in Nat /\ Cardinality(T) \in Nat
    BY <2>1, Fewer
  <2> QED
    BY <1>2, <2>2 DEF S, T
<1>4. pos \in Injection(N, N)
  <2>1. pos \in [N -> N]
    BY <1>2
  <2>2. ASSUME NEW a \in N, NEW b \in N, pos[a] = pos[b] PROVE a = b
    BY <1>2, <1>3, <2>2
  <2> HIDE DEF pos
  <2> QED
    BY <2>1, <2>2 DEF Injection, IsInjective
<1>5. pos \in Surjection(N, N)
  <2> HIDE DEF N, pos
  <2> QED
    BY <1>1, <1>4, FS_Injection
<1> DEFINE order == [p \in N |-> CHOOSE a \in N : pos[a] = p]
<1>6. ASSUME NEW p \in N PROVE order[p] \in N /\ pos[order[p]] = p
  <2>1. \E a \in N : pos[a] = p
    BY <1>5 DEF Surjection
  <2> HIDE DEF pos
  <2> QED
    BY <2>1
<1>7. order \in [N -> N]
  BY <1>6
<1> HIDE DEF pos, order
<1>8. IsOrder(n, order)
  BY <1>6, <1>7 DEF IsOrder
<1>9. ASSUME NEW p \in N, NEW q \in N, p < q, order[q] \in before[order[p]] PROVE FALSE
  BY <1>3, <1>6, <1>9
<1>10. \A p \in N : p = Cardinality(before[order[p]]) + 1
  BY <1>2, <1>6
<1> QED
  BY <1>8, <1>9, <1>10 DEF Respects

\* Wherever a comes, those before it fit in front of it and those after it behind it.
LEMMA PlaceBounds ==
  ASSUME NEW n \in Nat, NEW before, IsBefore(n, before), NEW order, Respects(n, order, before),
         NEW p \in 1 .. n
  PROVE  /\ Cardinality(before[order[p]]) + 1 <= p
         /\ p <= n - Cardinality(After(n, before, order[p]))
<1> DEFINE N == 1 .. n
           a == order[p]
           S == before[a]
           T == After(n, before, a)
           at(U) == {q \in N : order[q] \in U}
<1>1. order \in [N -> N] /\ \A x, y \in N : x # y => order[x] # order[y]
  BY DEF Respects, IsOrder
<1>2. a \in N /\ S \subseteq N /\ T \subseteq N
  BY <1>1 DEF IsBefore, After
<1>3. at(S) \subseteq 1 .. p - 1
  <2>1. ASSUME NEW q \in N, order[q] \in S PROVE q \in 1 .. p - 1
    <3>1. ~(p < q)
      BY <2>1 DEF Respects
    <3>2. q # p
      BY <1>2, <2>1 DEF IsBefore
    <3> QED
      BY <3>1, <3>2
  <2> QED
    BY <2>1
<1>4. at(T) \subseteq p + 1 .. n
  <2>1. ASSUME NEW q \in N, order[q] \in T PROVE q \in p + 1 .. n
    <3>1. a \in before[order[q]]
      BY <2>1 DEF After
    <3>2. ~(q < p)
      BY <3>1 DEF Respects
    <3>3. q # p
      BY <1>2, <3>1 DEF IsBefore
    <3> QED
      BY <3>2, <3>3
  <2> QED
    BY <2>1
<1>5. ASSUME NEW U \in SUBSET N
      PROVE  /\ IsFiniteSet(at(U)) /\ Cardinality(U) <= Cardinality(at(U))
             /\ Cardinality(U) \in Nat /\ Cardinality(at(U)) \in Nat
  <2> DEFINE A == at(U)
             f == [q \in A |-> order[q]]
  <2>1. IsFiniteSet(N) /\ A \in SUBSET N
    BY FS_Interval
  <2>2. f \in Surjection(A, U)
    <3>1. f \in [A -> U]
      BY <1>1
    <3>2. ASSUME NEW u \in U PROVE \E q \in A : f[q] = u
      <4>1. PICK q \in N : order[q] = u
        BY OrderNames DEF Respects
      <4>2. q \in A /\ f[q] = u
        BY <4>1
      <4> QED
        BY <4>2
    <3> HIDE DEF f, A
    <3> QED
      BY <3>1, <3>2 DEF Surjection
  <2> HIDE DEF A, N, f
  <2>3. IsFiniteSet(A)
    BY <2>1, FS_Subset
  <2>4. IsFiniteSet(U) /\ Cardinality(U) <= Cardinality(A)
    BY <2>2, <2>3, FS_Surjection
  <2> QED
    BY <2>3, <2>4, FS_CardinalityType DEF A
<1> HIDE DEF at, S, T
<1>6. /\ IsFiniteSet(1 .. p - 1) /\ Cardinality(1 .. p - 1) = p - 1
      /\ IsFiniteSet(p + 1 .. n) /\ Cardinality(p + 1 .. n) = n - p
  <2>1. p \in Nat /\ 1 <= p /\ p <= n
    OBVIOUS
  <2>2. 1 \in Int /\ p - 1 \in Int /\ p + 1 \in Int /\ n \in Int
    OBVIOUS
  <2>3. IsFiniteSet(1 .. p - 1)
        /\ Cardinality(1 .. p - 1) = IF 1 > p - 1 THEN 0 ELSE (p - 1) - 1 + 1
    BY <2>2, FS_Interval, Zenon
  <2>4. IsFiniteSet(p + 1 .. n)
        /\ Cardinality(p + 1 .. n) = IF p + 1 > n THEN 0 ELSE n - (p + 1) + 1
    BY <2>2, FS_Interval, Zenon
  <2> QED
    BY <2>1, <2>3, <2>4
<1>7. Cardinality(at(S)) <= p - 1 /\ Cardinality(at(T)) <= n - p
  <2>1. Cardinality(at(S)) <= Cardinality(1 .. p - 1)
    BY <1>3, <1>6, FS_Subset
  <2>2. Cardinality(at(T)) <= Cardinality(p + 1 .. n)
    BY <1>4, <1>6, FS_Subset
  <2> QED
    BY <1>6, <2>1, <2>2
<1>8. Cardinality(S) <= p - 1 /\ Cardinality(T) <= n - p
  BY <1>2, <1>5, <1>7
<1>9. Cardinality(S) \in Nat /\ Cardinality(T) \in Nat
  BY <1>2, <1>5
<1> QED
  BY <1>8, <1>9 DEF S, T

\* An order that puts all of S first, then i, then the others, each part in the
\* order of line.
Puts(n, line, S, i) ==
    [a \in 1 .. n |-> IF a \in S THEN S \cap line[a]
                       ELSE IF a = i THEN S ELSE S \cup {i} \cup line[a]]

\* S has with each result those before it, and all those before i.
IsFront(n, before, S, i) ==
    /\ S \subseteq 1 .. n /\ i \in 1 .. n /\ i \notin S
    /\ before[i] \subseteq S /\ \A a \in S : before[a] \subseteq S

LEMMA FrontIsReached ==
  ASSUME NEW n \in Nat, NEW before, IsBefore(n, before), NEW line, IsTotal(n, line),
         \A a \in 1 .. n : before[a] \subseteq line[a],
         NEW S, NEW i, IsFront(n, before, S, i)
  PROVE  \E order : Respects(n, order, before) /\ Cardinality(S) + 1 \in 1 .. n
                      /\ order[Cardinality(S) + 1] = i
<1> DEFINE N == 1 .. n
           R == Puts(n, line, S, i)
<1>1. /\ \A a \in S : R[a] = S \cap line[a]
      /\ R[i] = S
      /\ \A a \in N : a \notin S /\ a # i => R[a] = S \cup {i} \cup line[a]
      /\ R \in [N -> SUBSET N]
  BY DEF Puts, IsFront, IsTotal, IsBefore
<1> HIDE DEF R
<1>2. /\ \A a \in N : line[a] \subseteq N /\ a \notin line[a]
      /\ \A a \in N : \A b \in line[a] : line[b] \subseteq line[a]
      /\ \A a, b \in N : a # b => a \in line[b] \/ b \in line[a]
      /\ S \subseteq N /\ i \in N /\ i \notin S
  BY DEF IsTotal, IsBefore, IsFront
<1>3. \A a \in N : a \notin R[a]
  BY <1>1, <1>2
<1>4. ASSUME NEW a \in N, NEW b \in R[a] PROVE R[b] \subseteq R[a]
  <2>1. CASE a \in S
    BY <1>1, <1>2, <1>4, <2>1
  <2>2. CASE a = i
    BY <1>1, <1>2, <1>4, <2>2
  <2>3. CASE a \notin S /\ a # i
    <3>1. R[a] = S \cup {i} \cup line[a]
      BY <1>1, <2>3
    <3>2. CASE b \in S \/ b = i
      BY <1>1, <3>1, <3>2
    <3>3. CASE b \notin S /\ b # i
      <4>1. b \in line[a] /\ b \in N
        BY <1>2, <1>4, <3>1, <3>3
      <4> QED
        BY <1>1, <1>2, <3>1, <3>3, <4>1
    <3> QED
      BY <3>2, <3>3
  <2> QED
    BY <2>1, <2>2, <2>3
<1>5. ASSUME NEW a \in N, NEW b \in N, a # b PROVE a \in R[b] \/ b \in R[a]
  <2>1. CASE a \in S /\ b \in S
    BY <1>1, <1>2, <1>5, <2>1
  <2>2. CASE a \in S /\ b \notin S
    BY <1>1, <2>2
  <2>3. CASE a \notin S /\ b \in S
    BY <1>1, <2>3
  <2>4. CASE a \notin S /\ b \notin S
    BY <1>1, <1>2, <1>5, <2>4
  <2> QED
    BY <2>1, <2>2, <2>3, <2>4
<1>6. IsTotal(n, R)
  BY <1>1, <1>3, <1>4, <1>5 DEF IsTotal, IsBefore
<1>7. PICK order : /\ Respects(n, order, R)
                   /\ \A p \in N : p = Cardinality(R[order[p]]) + 1
  BY <1>6, TotalIsSorted
<1>8. \A a \in N : before[a] \subseteq R[a]
  <2>1. \A a \in N : before[a] \subseteq line[a]
    OBVIOUS
  <2> QED
    BY <1>1, <2>1 DEF IsFront
<1>9. Respects(n, order, before)
  BY <1>7, <1>8 DEF Respects, IsOrder
<1>10. PICK p \in N : order[p] = i
  BY <1>2, <1>7, OrderNames DEF Respects
<1>11. p = Cardinality(S) + 1
  BY <1>1, <1>7, <1>10
<1> QED
  BY <1>9, <1>10, <1>11

\* The first and the last place a result may have.
FirstPlace(before, i) == Cardinality(before[i]) + 1
LastPlace(n, before, i) == n - Cardinality(After(n, before, i))

PlacesOf(n, orders, i) == {p \in 1 .. n : \E order \in orders : order[p] = i}

LEMMA PlacesBetween ==
  ASSUME NEW n \in Nat, NEW before, IsBefore(n, before), NEW line, IsTotal(n, line),
         \A a \in 1 .. n : before[a] \subseteq line[a],
         NEW orders, \A order : order \in orders <=> Respects(n, order, before),
         NEW i \in 1 .. n
  PROVE  /\ FirstPlace(before, i) \in PlacesOf(n, orders, i)
         /\ LastPlace(n, before, i) \in PlacesOf(n, orders, i)
         /\ \A p \in PlacesOf(n, orders, i) :
               FirstPlace(before, i) <= p /\ p <= LastPlace(n, before, i)
<1> DEFINE N == 1 .. n
           S == before[i]
           D == After(n, before, i)
           T == (N \ D) \ {i}
<1> USE DEF IsBefore, After
<1>1. IsFront(n, before, S, i)
  BY DEF IsFront
<1>2. FirstPlace(before, i) \in PlacesOf(n, orders, i)
  <2> HIDE DEF IsBefore, S
  <2>1. PICK order : /\ Respects(n, order, before) /\ Cardinality(S) + 1 \in N
                     /\ order[Cardinality(S) + 1] = i
    BY <1>1, FrontIsReached
  <2> QED
    BY <2>1 DEF FirstPlace, PlacesOf, S
<1>3. IsFront(n, before, T, i)
  BY DEF IsFront
<1>4. Cardinality(T) + 1 = n - Cardinality(D)
  <2>1. IsFiniteSet(N) /\ Cardinality(N) = n
    BY FS_Interval
  <2>2. D \subseteq N /\ i \in N /\ i \notin D
    OBVIOUS
  <2>3. /\ D \cup (T \cup {i}) = N /\ D \cap (T \cup {i}) = {}
        /\ i \notin T /\ T \subseteq N
    BY <2>2
  <2> HIDE DEF N, D, T, IsBefore, After
  <2>4. IsFiniteSet(D) /\ IsFiniteSet(T)
    BY <2>1, <2>2, <2>3, FS_Subset
  <2> DEFINE E == T \cup {i}
  <2>5. IsFiniteSet(E) /\ Cardinality(E) = Cardinality(T) + 1
    BY <2>3, <2>4, FS_AddElement
  <2>6. D \cup E = N /\ D \cap E = {}
    BY <2>3
  <2> HIDE DEF E
  <2>7. Cardinality(D \cup E) = Cardinality(D) + Cardinality(E) - Cardinality(D \cap E)
    BY <2>4, <2>5, FS_Union
  <2>8. Cardinality(D \cap E) = 0
    BY <2>6, FS_EmptySet
  <2>9. Cardinality(D) \in Nat /\ Cardinality(T) \in Nat
    BY <2>4, FS_CardinalityType
  <2>10. Cardinality(D \cup E) = n
    BY <2>1, <2>6
  <2>11. n = Cardinality(D) + (Cardinality(T) + 1)
    BY <2>5, <2>7, <2>8, <2>9, <2>10
  <2> QED
    BY <2>9, <2>11
<1>5. LastPlace(n, before, i) \in PlacesOf(n, orders, i)
  <2> HIDE DEF IsBefore, T, After, D
  <2>1. PICK order : /\ Respects(n, order, before) /\ Cardinality(T) + 1 \in N
                     /\ order[Cardinality(T) + 1] = i
    BY <1>3, FrontIsReached
  <2> QED
    BY <1>4, <2>1 DEF LastPlace, PlacesOf, D
<1>6. ASSUME NEW p \in PlacesOf(n, orders, i)
      PROVE  FirstPlace(before, i) <= p /\ p <= LastPlace(n, before, i)
  <2>1. PICK order : Respects(n, order, before) /\ order[p] = i
    BY DEF PlacesOf
  <2>2. p \in N
    BY DEF PlacesOf
  <2> HIDE DEF IsBefore, After
  <2> QED
    BY <2>1, <2>2, PlaceBounds DEF FirstPlace, LastPlace
<1> QED
  BY <1>2, <1>5, <1>6

-----------------------------------------------------------------------------
(* The places of the fusion.                                               *)

\* Whether result i comes before j in every order of the fusion.
Ahead(n, lists, i, j) ==
    \/ Fused(n, lists, i) > Fused(n, lists, j)
    \/ Fused(n, lists, i) = Fused(n, lists, j) /\ ~Rounds(lists, i, j) /\ i < j

Befores(n, lists) == [a \in 1 .. n |-> {b \in 1 .. n : Ahead(n, lists, b, a)}]

\* The order without rounding.
Line(n, lists) ==
    [a \in 1 .. n |->
        {b \in 1 .. n : \/ Fused(n, lists, b) > Fused(n, lists, a)
                        \/ Fused(n, lists, b) = Fused(n, lists, a) /\ b < a}]

\* Results whose floats are the same are alike to every third.
LEMMA RoundingIsShared ==
  ASSUME NEW lists, NEW a, NEW b, NEW c, ~Rounds(lists, a, b), ~Rounds(lists, b, c)
  PROVE  ~Rounds(lists, a, c) /\ ~Rounds(lists, b, a)
BY DEF Rounds

LEMMA BeforesAre ==
  ASSUME NEW n \in Nat, NEW lists, AreLists(n, lists)
  PROVE  LET before == Befores(n, lists)
             line == Line(n, lists)
         IN  /\ IsBefore(n, before) /\ IsTotal(n, line)
             /\ \A a \in 1 .. n : before[a] \subseteq line[a]
             /\ \A order : order \in rrfFuse(n, lists) <=> Respects(n, order, before)
<1> DEFINE N == 1 .. n
           f(a) == Fused(n, lists, a)
           before == Befores(n, lists)
           line == Line(n, lists)
<1>1. \A a : f(a) \in Int
  BY SumType
<1>2. /\ before \in [N -> SUBSET N] /\ line \in [N -> SUBSET N]
      /\ \A a, b \in N :
            /\ b \in before[a] <=> f(b) > f(a) \/ (f(b) = f(a) /\ ~Rounds(lists, b, a) /\ b < a)
            /\ b \in line[a] <=> f(b) > f(a) \/ (f(b) = f(a) /\ b < a)
  BY DEF Befores, Line, Ahead
<1> HIDE DEF before, line, f
<1>3. IsBefore(n, before)
  <2>1. \A a \in N : a \notin before[a]
    BY <1>1, <1>2
  <2>2. ASSUME NEW a \in N, NEW b \in before[a], NEW c \in before[b] PROVE c \in before[a]
    <3>1. b \in N /\ c \in N
      BY <1>2, <2>2
    <3>2. f(a) \in Int /\ f(b) \in Int /\ f(c) \in Int
      BY <1>1
    <3>3. /\ f(b) > f(a) \/ (f(b) = f(a) /\ ~Rounds(lists, b, a) /\ b < a)
          /\ f(c) > f(b) \/ (f(c) = f(b) /\ ~Rounds(lists, c, b) /\ c < b)
      BY <1>2, <2>2, <3>1
    <3>4. ~Rounds(lists, c, b) /\ ~Rounds(lists, b, a) => ~Rounds(lists, c, a)
      BY RoundingIsShared
    <3>5. f(c) > f(a) \/ (f(c) = f(a) /\ ~Rounds(lists, c, a) /\ c < a)
      BY <3>1, <3>2, <3>3, <3>4
    <3> QED
      BY <1>2, <3>1, <3>5
  <2> QED
    BY <1>2, <2>1, <2>2 DEF IsBefore
<1>4. IsTotal(n, line)
  <2>1. \A a \in N : a \notin line[a]
    BY <1>1, <1>2
  <2>2. ASSUME NEW a \in N, NEW b \in line[a], NEW c \in line[b] PROVE c \in line[a]
    <3>1. b \in N /\ c \in N
      BY <1>2, <2>2
    <3>2. f(a) \in Int /\ f(b) \in Int /\ f(c) \in Int
      BY <1>1
    <3>3. /\ f(b) > f(a) \/ (f(b) = f(a) /\ b < a)
          /\ f(c) > f(b) \/ (f(c) = f(b) /\ c < b)
      BY <1>2, <2>2, <3>1
    <3>4. f(c) > f(a) \/ (f(c) = f(a) /\ c < a)
      BY <3>1, <3>2, <3>3
    <3> QED
      BY <1>2, <3>1, <3>4
  <2>3. \A a, b \in N : a # b => a \in line[b] \/ b \in line[a]
    BY <1>1, <1>2
  <2> QED
    BY <1>2, <2>1, <2>2, <2>3 DEF IsTotal, IsBefore
<1>5. \A a \in N : before[a] \subseteq line[a]
  BY <1>2
<1>6. ASSUME NEW order
      PROVE  order \in rrfFuse(n, lists) <=> Respects(n, order, before)
  <2>1. CASE order \notin [N -> N]
    BY <2>1 DEF rrfFuse, Respects, IsOrder
  <2>2. CASE order \in [N -> N]
    <3>1. \A p \in N : [k \in N |-> Fused(n, lists, k)][order[p]] = Fused(n, lists, order[p])
      BY <2>2
    <3>2. \A p \in N : order[p] \in N
      BY <2>2
    <3>3. ASSUME NEW i \in N, NEW j \in N
          PROVE  i # j /\ f(i) >= f(j) /\ (f(i) = f(j) /\ ~Rounds(lists, i, j) => i < j)
                 <=> i # j /\ j \notin before[i]
      <4>1. Rounds(lists, i, j) <=> Rounds(lists, j, i)
        BY DEF Rounds
      <4>2. f(i) \in Int /\ f(j) \in Int
        BY <1>1
      <4> QED
        BY <1>2, <4>1, <4>2
    <3>4. order \in rrfFuse(n, lists) <=>
            \A p, q \in N : p < q =>
              /\ order[p] # order[q] /\ f(order[p]) >= f(order[q])
              /\ f(order[p]) = f(order[q]) /\ ~Rounds(lists, order[p], order[q])
                    => order[p] < order[q]
      BY <2>2, <3>1 DEF rrfFuse, f
    <3>5. Respects(n, order, before) <=>
            \A p, q \in N : p < q => order[p] # order[q] /\ order[q] \notin before[order[p]]
      BY <2>2 DEF Respects, IsOrder
    <3> HIDE DEF N
    <3> QED
      BY <3>2, <3>3, <3>4, <3>5
  <2> QED
    BY <2>1, <2>2
<1> QED
  BY <1>3, <1>4, <1>5, <1>6 DEF before, line

LEMMA ExtremePlaces ==
  ASSUME NEW n \in Nat, NEW lists, AreLists(n, lists), NEW i \in 1 .. n
  PROVE  /\ Min(PlacesOf(n, rrfFuse(n, lists), i)) = FirstPlace(Befores(n, lists), i)
         /\ Max(PlacesOf(n, rrfFuse(n, lists), i)) = LastPlace(n, Befores(n, lists), i)
<1> DEFINE P == PlacesOf(n, rrfFuse(n, lists), i)
           lo == FirstPlace(Befores(n, lists), i)
           hi == LastPlace(n, Befores(n, lists), i)
<1>1. lo \in P /\ hi \in P /\ \A p \in P : lo <= p /\ p <= hi
  BY BeforesAre, PlacesBetween
<1>2. P \subseteq Int
  BY DEF PlacesOf
<1> HIDE DEF P, lo, hi
<1>3. \A x \in P : (\A y \in P : x <= y) => x = lo
  BY <1>1, <1>2
<1>4. \A x \in P : (\A y \in P : x >= y) => x = hi
  BY <1>1, <1>2
<1>5. Min(P) = lo
  BY <1>1, <1>2, <1>3 DEF Min
<1>6. Max(P) = hi
  BY <1>1, <1>2, <1>4 DEF Max
<1> QED
  BY <1>5, <1>6 DEF P, lo, hi

-----------------------------------------------------------------------------
(* What a better signal of one result does.                                *)

\* From the votes x to the votes y only result i gets better or gets a vote.
FavorsIn(n, x, y, i) ==
    /\ IsVotes(n, x) /\ IsVotes(n, y)
    /\ i \in DOMAIN x => i \in DOMAIN y /\ y[i] <= x[i]
    /\ \A j \in 1 .. n : j # i =>
          /\ j \in DOMAIN x <=> j \in DOMAIN y
          /\ j \in DOMAIN x => x[j] <= y[j]

Favors(n, old, new, i) ==
    /\ AreLists(n, old) /\ AreLists(n, new) /\ DOMAIN old = DOMAIN new
    /\ \A l \in DOMAIN old : FavorsIn(n, old[l], new[l], i)

\* The terms of result r in x and of s in y, if x is no worse for r.
LEMMA TermByRank ==
  ASSUME NEW n \in Nat, NEW x, NEW y, IsVotes(n, x), IsVotes(n, y), NEW r, NEW s,
         s \in DOMAIN y => r \in DOMAIN x /\ x[r] <= y[s]
  PROVE  /\ Term(n, x, r) \in Nat /\ Term(n, y, s) \in Nat
         /\ Term(n, x, r) >= Term(n, y, s)
         /\ Term(n, x, r) = Term(n, y, s) => Vote(x, r) = Vote(y, s)
<1>1. Term(n, x, r) \in Nat /\ Term(n, y, s) \in Nat
  BY TermIs
<1>2. CASE s \notin DOMAIN y
  BY <1>1, <1>2, TermIs DEF Term, Vote
<1>3. CASE s \in DOMAIN y
  <2>1. r \in DOMAIN x /\ x[r] \in 1 .. n /\ y[s] \in 1 .. n /\ x[r] <= y[s]
    BY <1>3 DEF IsVotes
  <2>2. Term(n, x, r) = Weight(n, x[r]) /\ Term(n, y, s) = Weight(n, y[s])
    BY <1>3, <2>1 DEF Term
  <2>3. Vote(x, r) = x[r] /\ Vote(y, s) = y[s]
    BY <1>3, <2>1 DEF Vote
  <2> QED
    BY <1>1, <2>1, <2>2, <2>3, EqualWeights
<1> QED
  BY <1>2, <1>3

\* Result r of x has no less than result s of y.
NoLess(x, y, r, s) ==
    \A l \in DOMAIN x : s \in DOMAIN y[l] => r \in DOMAIN x[l] /\ x[l][r] <= y[l][s]

LEMMA SumByRanks ==
  ASSUME NEW n \in Nat, NEW x, NEW y, AreLists(n, x), AreLists(n, y), DOMAIN x = DOMAIN y,
         NEW r, NEW s, NoLess(x, y, r, s)
  PROVE  /\ Fused(n, x, r) \in Int /\ Fused(n, y, s) \in Int
         /\ Fused(n, x, r) >= Fused(n, y, s)
         /\ Fused(n, x, r) = Fused(n, y, s) => Ranks(x, r) = Ranks(y, s)
<1> DEFINE m == Len(x)
           t == Terms(n, x, r)
           u == Terms(n, y, s)
           A == Fused(n, x, r)
           B == Fused(n, y, s)
<1>1. m \in 1 .. 3 /\ DOMAIN x = 1 .. m /\ DOMAIN y = 1 .. m /\ Len(y) = m
  <2> DEFINE k == Len(y)
  <2>1. m \in 1 .. 3 /\ k \in 1 .. 3 /\ DOMAIN x = 1 .. m /\ DOMAIN y = 1 .. k
    BY DEF AreLists
  <2> HIDE DEF m, k
  <2>2. 1 .. m = 1 .. k
    BY <2>1
  <2>3. m \in Nat /\ k \in Nat /\ m >= 1 /\ k >= 1
    BY <2>1
  <2>4. m \in 1 .. k /\ k \in 1 .. m
    BY <2>2, <2>3
  <2>5. k = m
    BY <2>3, <2>4
  <2> QED
    BY <2>1, <2>5 DEF k
<1>2. ASSUME NEW l \in 1 .. m
      PROVE  /\ t[l] \in Nat /\ u[l] \in Nat /\ t[l] >= u[l]
             /\ t[l] = u[l] => Vote(x[l], r) = Vote(y[l], s)
  <2>1. /\ IsVotes(n, x[l]) /\ IsVotes(n, y[l])
        /\ s \in DOMAIN y[l] => r \in DOMAIN x[l] /\ x[l][r] <= y[l][s]
    BY <1>1 DEF AreLists, NoLess
  <2>2. t[l] = Term(n, x[l], r) /\ u[l] = Term(n, y[l], s)
    BY <1>1, TermsAre
  <2>3. /\ Term(n, x[l], r) \in Nat /\ Term(n, y[l], s) \in Nat
        /\ Term(n, x[l], r) >= Term(n, y[l], s)
        /\ Term(n, x[l], r) = Term(n, y[l], s) => Vote(x[l], r) = Vote(y[l], s)
    BY <2>1, TermByRank
  <2> QED
    BY <2>2, <2>3
<1>3. IsSum(A, m, t) /\ IsSum(B, m, u)
  BY <1>1, TermsAre
<1>4. A \in Int /\ B \in Int
  BY SumType
<1> HIDE DEF t, u, A, B, m
<1>5. AreSums(A, B, m, t, u)
  BY <1>1, <1>2, <1>3 DEF AtLeast, AreSums
<1>6. A >= B /\ (A = B => \A l \in 1 .. m : t[l] = u[l])
  BY <1>5, SumsOrder
<1>7. (\A l \in 1 .. m : Vote(x[l], r) = Vote(y[l], s)) => Ranks(x, r) = Ranks(y, s)
  BY <1>1 DEF Ranks, Vote
<1> QED
  BY <1>2, <1>4, <1>6, <1>7 DEF A, B

\* It comes no later: who came after it still does, and nobody new before it.
LEMMA FavoredComesNoLater ==
  ASSUME NEW n \in Nat, NEW old, NEW new, NEW i \in 1 .. n, Favors(n, old, new, i),
         NEW j \in 1 .. n, j # i
  PROVE  /\ Ahead(n, old, i, j) => Ahead(n, new, i, j)
         /\ Ahead(n, new, j, i) => Ahead(n, old, j, i)
<1>1. NoLess(new, old, i, i) /\ NoLess(old, new, j, j)
  BY DEF Favors, FavorsIn, NoLess
<1>2. /\ Fused(n, new, i) \in Int /\ Fused(n, old, i) \in Int
      /\ Fused(n, new, i) >= Fused(n, old, i)
      /\ Fused(n, new, i) = Fused(n, old, i) => Ranks(new, i) = Ranks(old, i)
  BY <1>1, SumByRanks DEF Favors
<1>3. /\ Fused(n, old, j) \in Int /\ Fused(n, new, j) \in Int
      /\ Fused(n, old, j) >= Fused(n, new, j)
      /\ Fused(n, old, j) = Fused(n, new, j) => Ranks(old, j) = Ranks(new, j)
  BY <1>1, SumByRanks DEF Favors
<1>4. Ranks(old, i) = Ranks(new, i) /\ Ranks(old, j) = Ranks(new, j) =>
          /\ Rounds(old, i, j) <=> Rounds(new, i, j)
          /\ Rounds(old, j, i) <=> Rounds(new, j, i)
  BY DEF Rounds
<1> QED
  BY <1>2, <1>3, <1>4 DEF Ahead

LEMMA FavoredHasBetterPlaces ==
  ASSUME NEW n \in Nat, NEW old, NEW new, NEW i \in 1 .. n, Favors(n, old, new, i)
  PROVE  LET P == PlacesOf(n, rrfFuse(n, old), i)
             Q == PlacesOf(n, rrfFuse(n, new), i)
         IN  Max(Q) <= Max(P) /\ Min(Q) <= Min(P)
<1> DEFINE b == Befores(n, old)
           c == Befores(n, new)
<1>1. \A j \in 1 .. n : j # i =>
          /\ Ahead(n, old, i, j) => Ahead(n, new, i, j)
          /\ Ahead(n, new, j, i) => Ahead(n, old, j, i)
  BY FavoredComesNoLater
<1>2. AreLists(n, old) /\ AreLists(n, new)
  BY DEF Favors
<1>3. IsBefore(n, b) /\ IsBefore(n, c)
  BY <1>2, BeforesAre
<1>4. i \notin b[i] /\ i \notin c[i] /\ b[i] \subseteq 1 .. n /\ c[i] \subseteq 1 .. n
  BY <1>3 DEF IsBefore
<1>5. \A j, k \in 1 .. n : /\ k \in b[j] <=> Ahead(n, old, k, j)
                           /\ k \in c[j] <=> Ahead(n, new, k, j)
  BY DEF Befores
<1> HIDE DEF b, c
<1>6. c[i] \subseteq b[i] /\ After(n, b, i) \subseteq After(n, c, i)
  BY <1>1, <1>4, <1>5 DEF After
<1>7. After(n, c, i) \subseteq 1 .. n
  BY DEF After
<1>8. /\ Cardinality(c[i]) <= Cardinality(b[i])
      /\ Cardinality(c[i]) \in Nat /\ Cardinality(b[i]) \in Nat
  BY <1>4, <1>6, Fewer
<1>9. /\ Cardinality(After(n, b, i)) <= Cardinality(After(n, c, i))
      /\ Cardinality(After(n, b, i)) \in Nat /\ Cardinality(After(n, c, i)) \in Nat
  BY <1>6, <1>7, Fewer
<1>10. FirstPlace(c, i) <= FirstPlace(b, i) /\ LastPlace(n, c, i) <= LastPlace(n, b, i)
  BY <1>8, <1>9 DEF FirstPlace, LastPlace
<1> QED
  BY <1>2, <1>10, ExtremePlaces DEF b, c

-----------------------------------------------------------------------------
(* The steps of RerankCheck.                                               *)

\* Signal s2 has result i no worse than s, and the others as s has them.
Lifts(n, s, s2, i) ==
    /\ s \in [1 .. n -> Int] /\ s2 \in [1 .. n -> Int]
    /\ s2[i] >= s[i]
    /\ \A j \in 1 .. n : j # i => s2[j] = s[j]

LEMMA LiftedPlace ==
  ASSUME NEW n \in Nat, NEW s, NEW s2, NEW i \in 1 .. n, Lifts(n, s, s2, i)
  PROVE  /\ Place(s2, i) <= Place(s, i)
         /\ \A j \in 1 .. n : j # i => Place(s, j) <= Place(s2, j)
<1> DEFINE N == 1 .. n
           S(f, k) == {q \in N : f[q] > f[k] \/ (f[q] = f[k] /\ q <= k)}
<1>1. /\ \A k \in N : s[k] \in Int /\ s2[k] \in Int
      /\ s2[i] >= s[i] /\ \A j \in N : j # i => s2[j] = s[j]
  BY DEF Lifts
<1>2. \A k \in N : Place(s, k) = Cardinality(S(s, k)) /\ Place(s2, k) = Cardinality(S(s2, k))
  BY DEF Place, Lifts
<1>3. S(s2, i) \subseteq S(s, i) /\ S(s, i) \subseteq N
  BY <1>1
<1>4. ASSUME NEW j \in N, j # i PROVE S(s, j) \subseteq S(s2, j) /\ S(s2, j) \subseteq N
  BY <1>1, <1>4
<1> HIDE DEF S
<1>5. Cardinality(S(s2, i)) <= Cardinality(S(s, i))
  BY <1>3, Fewer
<1>6. ASSUME NEW j \in N, j # i PROVE Cardinality(S(s, j)) <= Cardinality(S(s2, j))
  BY <1>4, <1>6, Fewer
<1> QED
  BY <1>2, <1>5, <1>6

LEMMA LiftedScores ==
  ASSUME NEW n \in Nat, NEW s, NEW s2, NEW i \in 1 .. n, Lifts(n, s, s2, i)
  PROVE  FavorsIn(n, semanticVotes(s), semanticVotes(s2), i)
<1> DEFINE x == semanticVotes(s)
           y == semanticVotes(s2)
<1>1. IsVotes(n, x) /\ IsVotes(n, y)
  BY SemanticIs DEF Lifts
<1>2. /\ DOMAIN x = 1 .. n /\ DOMAIN y = 1 .. n
      /\ \A k \in 1 .. n : x[k] = Place(s, k) /\ y[k] = Place(s2, k)
  BY DEF semanticVotes, Lifts
<1> HIDE DEF x, y
<1> QED
  BY <1>1, <1>2, LiftedPlace DEF FavorsIn, x, y

\* Of as many results only result i may have more words or engines.
LiftsDocs(ds, ds2, i) ==
    /\ ds \in Docs /\ ds2 \in Docs /\ Len(ds2) = Len(ds)
    /\ ds2[i].bm25 >= ds[i].bm25 /\ ds2[i].engines >= ds[i].engines
    /\ \A j \in 1 .. Len(ds) : j # i => ds2[j] = ds[j]

LEMMA LiftedWords ==
  ASSUME NEW ds, NEW ds2, NEW i \in 1 .. Len(ds), LiftsDocs(ds, ds2, i)
  PROVE  FavorsIn(Len(ds), bm25Votes(ds), bm25Votes(ds2), i)
<1> DEFINE n == Len(ds)
           s == [k \in 1 .. n |-> ds[k].bm25]
           s2 == [k \in 1 .. n |-> ds2[k].bm25]
           x == bm25Votes(ds)
           y == bm25Votes(ds2)
<1>1. /\ n \in Nat /\ DOMAIN ds = 1 .. n /\ DOMAIN ds2 = 1 .. n
      /\ \A k \in 1 .. n : ds[k].bm25 \in Nat /\ ds2[k].bm25 \in Nat
  BY DocsAre DEF LiftsDocs
<1>2. Lifts(n, s, s2, i)
  BY <1>1 DEF Lifts, LiftsDocs
<1>3. /\ \A k \in 1 .. n : s[k] = ds[k].bm25 /\ s2[k] = ds2[k].bm25
      /\ x = [k \in {k \in 1 .. n : s[k] > 0} |-> Place(s, k)]
      /\ y = [k \in {k \in 1 .. n : s2[k] > 0} |-> Place(s2, k)]
  BY <1>1 DEF bm25Votes
<1>4. IsVotes(n, x) /\ IsVotes(n, y)
  BY Bm25Is DEF LiftsDocs
<1> HIDE DEF s, s2, x, y, n
<1>5. /\ DOMAIN x = {k \in 1 .. n : s[k] > 0} /\ DOMAIN y = {k \in 1 .. n : s2[k] > 0}
      /\ \A k \in DOMAIN x : x[k] = Place(s, k)
      /\ \A k \in DOMAIN y : y[k] = Place(s2, k)
  BY <1>3
<1>6. /\ \A k \in 1 .. n : s[k] \in Nat /\ s2[k] \in Nat
      /\ s2[i] >= s[i] /\ \A j \in 1 .. n : j # i => s2[j] = s[j]
      /\ i \in 1 .. n
  BY <1>1, <1>2, <1>3 DEF Lifts, n
<1>7. /\ Place(s2, i) <= Place(s, i)
      /\ \A j \in 1 .. n : j # i => Place(s, j) <= Place(s2, j)
  BY <1>1, <1>2, <1>6, LiftedPlace
<1>8. FavorsIn(n, x, y, i)
  BY <1>4, <1>5, <1>6, <1>7 DEF FavorsIn
<1> QED
  BY <1>8 DEF n, x, y

LEMMA LiftedEngines ==
  ASSUME NEW ds, NEW ds2, NEW i \in 1 .. Len(ds), LiftsDocs(ds, ds2, i)
  PROVE  FavorsIn(Len(ds), engineVotes(ds), engineVotes(ds2), i)
<1> DEFINE n == Len(ds)
           More_(d, k) == {q \in 1 .. n : d[q].engines > d[k].engines}
           x == engineVotes(ds)
           y == engineVotes(ds2)
<1>1. /\ n \in Nat /\ DOMAIN ds = 1 .. n /\ DOMAIN ds2 = 1 .. n
      /\ \A k \in 1 .. n : ds[k].engines \in Nat /\ ds2[k].engines \in Nat
  BY DocsAre DEF LiftsDocs
<1>2. /\ IsVotes(n, x) /\ DOMAIN x = 1 .. n
      /\ IsVotes(n, y) /\ DOMAIN y = 1 .. n
  BY EnginesAre DEF LiftsDocs
<1>3. \A k \in 1 .. n : /\ x[k] = 1 + Cardinality(More_(ds, k))
                        /\ y[k] = 1 + Cardinality(More_(ds2, k))
  BY <1>1 DEF engineVotes
<1>4. /\ ds2[i].engines >= ds[i].engines
      /\ \A j \in 1 .. n : j # i => ds2[j].engines = ds[j].engines
  BY DEF LiftsDocs
<1>5. More_(ds2, i) \subseteq More_(ds, i) /\ More_(ds, i) \subseteq 1 .. n
  BY <1>1, <1>4
<1>6. ASSUME NEW j \in 1 .. n, j # i
      PROVE  More_(ds, j) \subseteq More_(ds2, j) /\ More_(ds2, j) \subseteq 1 .. n
  BY <1>1, <1>4, <1>6
<1> HIDE DEF n, x, y, More_
<1>7. y[i] <= x[i]
  <2>1. /\ Cardinality(More_(ds2, i)) <= Cardinality(More_(ds, i))
        /\ Cardinality(More_(ds2, i)) \in Nat /\ Cardinality(More_(ds, i)) \in Nat
    BY <1>1, <1>5, Fewer
  <2> QED
    BY <1>3, <2>1 DEF n
<1>8. ASSUME NEW j \in 1 .. n, j # i PROVE x[j] <= y[j]
  <2>1. /\ Cardinality(More_(ds, j)) <= Cardinality(More_(ds2, j))
        /\ Cardinality(More_(ds, j)) \in Nat /\ Cardinality(More_(ds2, j)) \in Nat
    BY <1>1, <1>6, <1>8, Fewer
  <2> QED
    BY <1>3, <2>1
<1>9. i \in 1 .. n
  BY DEF n
<1>10. FavorsIn(n, x, y, i)
  BY <1>2, <1>7, <1>8, <1>9 DEF FavorsIn
<1> QED
  BY <1>10 DEF n, x, y

\* A better score in an answer is a better score or, where a later one counts,
\* the same.
BetterAnswer(ds, ans, ans2, i) ==
    /\ ds \in Docs /\ ans \in Answers /\ ans2 \in Answers /\ i \in 1 .. Len(ds)
    /\ \E k \in DOMAIN ans, v \in Int :
          ans[k].index = i - 1 /\ v > ans[k].score /\ ans2 = [ans EXCEPT ![k].score = v]

LEMMA LiftedAnswer ==
  ASSUME NEW ds, NEW ans, NEW ans2, NEW i, BetterAnswer(ds, ans, ans2, i)
  PROVE  \E s, s2 : /\ Lifts(Len(ds), s, s2, i)
                     /\ Score(ds, ans) = {s} /\ Score(ds, ans2) = {s2}
<1>0. PICK k \in DOMAIN ans, v \in Int :
          /\ ans[k].index = i - 1 /\ v > ans[k].score
          /\ ans2 = [ans EXCEPT ![k].score = v]
  BY DEF BetterAnswer
<1>a. ds \in Docs /\ ans \in Answers /\ ans2 \in Answers /\ i \in 1 .. Len(ds)
  BY DEF BetterAnswer
<1> USE <1>0, <1>a
<1> DEFINE n == Len(ds)
           Named(a, r) == {q \in DOMAIN a : a[q].index = r - 1}
           Of(a, r) == IF Named(a, r) = {} THEN 0 ELSE a[Max(Named(a, r))].score
           Scored(a) == [r \in 1 .. n |-> Of(a, r)]
<1>1. n \in Nat /\ DOMAIN ds = 1 .. n
  BY DocsAre
<1>2. PICK m \in 0 .. MaxMentions : ans \in [1 .. m -> Mention]
  BY DEF Answers
<1>3. /\ DOMAIN ans2 = DOMAIN ans
      /\ ans2[k].index = ans[k].index /\ ans2[k].score = v
      /\ \A q \in DOMAIN ans : q # k => ans2[q] = ans[q]
  BY <1>2 DEF Mention
<1>4. ans # NoAnswer /\ ans2 # NoAnswer
  BY <1>3 DEF NoAnswer
<1>5. Score(ds, ans) = {Scored(ans)} /\ Score(ds, ans2) = {Scored(ans2)}
  BY <1>1, <1>4 DEF Score
<1>6. \A r \in 1 .. n : Named(ans2, r) = Named(ans, r)
  BY <1>3
<1>7. Scored(ans) \in [1 .. n -> Int] /\ Scored(ans2) \in [1 .. n -> Int]
  <2>1. /\ \E s \in [1 .. n -> Int] : Score(ds, ans) = {s}
        /\ \E s \in [1 .. n -> Int] : Score(ds, ans2) = {s}
    <3> HIDE DEF Scored, n
    <3>1. Score(ds, ans) # {} /\ Score(ds, ans2) # {}
      BY <1>5
    <3> QED
      BY <3>1, ScoresAre DEF n
  <2> HIDE DEF Scored
  <2> QED
    BY <1>5, <2>1
<1>8. ASSUME NEW r \in 1 .. n
      PROVE  /\ r # i => Of(ans2, r) = Of(ans, r)
             /\ r = i => Of(ans2, r) >= Of(ans, r)
  <2> DEFINE T == Named(ans, r)
             top == Max(T)
  <2>1. CASE T = {}
    BY <1>6, <2>1
  <2>2. CASE T # {}
    <3>1. T \in SUBSET (1 .. m) /\ m \in Nat
      BY <1>2, RankAssumption
    <3>2. top \in T
      <4> HIDE DEF T
      <4>1. Sums!Max(T) \in T
        BY <2>2, <3>1, Sums!MaxIs
      <4> QED
        BY <4>1 DEF Max, Sums!Max
    <3>3. Of(ans, r) = ans[top].score /\ Of(ans2, r) = ans2[top].score
      BY <1>6, <2>2
    <3>4. top \in DOMAIN ans /\ ans[top].index = r - 1 /\ ans[top].score \in Int
      BY <1>2, <3>1, <3>2, RankAssumption DEF Mention
    <3> HIDE DEF T, top, Of
    <3>5. CASE top = k
      <4>1. r = i
        BY <3>4, <3>5
      <4> QED
        BY <1>3, <3>3, <3>4, <3>5, <4>1
    <3>6. CASE top # k
      BY <1>3, <3>3, <3>4, <3>6
    <3> QED
      BY <3>5, <3>6
  <2> QED
    BY <2>1, <2>2
<1>9. \A r \in 1 .. n : Scored(ans)[r] = Of(ans, r) /\ Scored(ans2)[r] = Of(ans2, r)
  OBVIOUS
<1> HIDE DEF Scored, Of
<1>10. Lifts(n, Scored(ans), Scored(ans2), i)
  BY <1>7, <1>8, <1>9 DEF Lifts
<1> QED
  BY <1>5, <1>10

\* The votes of the service before and after.
FavorsExtra(n, v, w, i) ==
    \/ v = <<>> /\ w = <<>>
    \/ \E x, y : FavorsIn(n, x, y, i) /\ v = <<x>> /\ w = <<y>>

LEMMA UnchangedFavors ==
  ASSUME NEW n \in Nat, NEW x, IsVotes(n, x), NEW i
  PROVE  FavorsIn(n, x, x, i)
BY DEF FavorsIn, IsVotes

LEMMA AllFavors ==
  ASSUME NEW ds, NEW ds2, NEW i \in 1 .. Len(ds), LiftsDocs(ds, ds2, i),
         NEW v, NEW w, FavorsExtra(Len(ds), v, w, i)
  PROVE  Favors(Len(ds), Both(bm25Votes(ds), engineVotes(ds), v),
                Both(bm25Votes(ds2), engineVotes(ds2), w), i)
<1> DEFINE n == Len(ds)
           a == bm25Votes(ds)
           b == engineVotes(ds)
           c == bm25Votes(ds2)
           d == engineVotes(ds2)
<1>1. FavorsIn(n, a, c, i) /\ FavorsIn(n, b, d, i)
  BY LiftedWords, LiftedEngines
<1>2. FavorsExtra(n, v, w, i)
  OBVIOUS
<1> HIDE DEF n, a, b, c, d
<1>3. IsVotes(n, a) /\ IsVotes(n, b) /\ IsVotes(n, c) /\ IsVotes(n, d)
  BY <1>1 DEF FavorsIn
<1>4. CASE v = <<>> /\ w = <<>>
  <2> DEFINE f == <<a, b>>
             g == <<c, d>>
  <2>1. Both(a, b, v) = f /\ Both(c, d, w) = g
    BY <1>3, <1>4, TwoLists DEF Both
  <2>2. AreLists(n, f) /\ AreLists(n, g)
    BY <1>3, TwoLists
  <2>3. DOMAIN f = 1 .. 2 /\ DOMAIN g = 1 .. 2
        /\ f[1] = a /\ f[2] = b /\ g[1] = c /\ g[2] = d
    OBVIOUS
  <2> HIDE DEF f, g
  <2>4. \A l \in 1 .. 2 : FavorsIn(n, f[l], g[l], i)
    BY <1>1, <2>3
  <2>5. Favors(n, f, g, i)
    BY <2>2, <2>3, <2>4 DEF Favors
  <2> QED
    BY <2>1, <2>5 DEF n, a, b, c, d
<1>5. ASSUME NEW x, NEW y, FavorsIn(n, x, y, i), v = <<x>>, w = <<y>>
      PROVE  Favors(n, Both(a, b, v), Both(c, d, w), i)
  <2> DEFINE f == <<a, b, x>>
             g == <<c, d, y>>
  <2>1. IsVotes(n, x) /\ IsVotes(n, y)
    BY <1>5 DEF FavorsIn
  <2>2. Both(a, b, v) = f /\ Both(c, d, w) = g /\ AreLists(n, f) /\ AreLists(n, g)
    BY <1>3, <1>5, <2>1, ThreeLists DEF Both
  <2>3. DOMAIN f = 1 .. 3 /\ DOMAIN g = 1 .. 3
        /\ f[1] = a /\ f[2] = b /\ f[3] = x /\ g[1] = c /\ g[2] = d /\ g[3] = y
    OBVIOUS
  <2> HIDE DEF f, g
  <2>4. \A l \in 1 .. 3 : FavorsIn(n, f[l], g[l], i)
    BY <1>1, <1>5, <2>3
  <2>5. Favors(n, f, g, i)
    BY <2>2, <2>3, <2>4 DEF Favors
  <2> QED
    BY <2>2, <2>5
<1> QED
  BY <1>2, <1>4, <1>5 DEF FavorsExtra, n, a, b, c, d

\* From the results ds and the answer ans to ds2 and ans2 only result i is lifted.
StepLifts(ds, ans, ds2, ans2, i) ==
    /\ ds \in Docs /\ ds2 \in Docs /\ ans \in Answers /\ ans2 \in Answers
    /\ i \in 1 .. Len(ds) /\ LiftsDocs(ds, ds2, i)
    /\ \/ ans2 = ans
       \/ ds2 = ds /\ BetterAnswer(ds, ans, ans2, i)

LEMMA LiftFavors ==
  ASSUME NEW ds, NEW ans, NEW ds2, NEW ans2, NEW i, StepLifts(ds, ans, ds2, ans2, i)
  PROVE  Favors(Len(ds), All(ds, ans), All(ds2, ans2), i)
<1> DEFINE n == Len(ds)
           v == Semantic(ds, ans)
           w == Semantic(ds2, ans2)
<1> USE DEF StepLifts
<1>1. n \in Nat /\ DOMAIN ds = 1 .. n /\ DOMAIN ds2 = 1 .. n
  BY DocsAre DEF LiftsDocs
<1>2. FavorsExtra(n, v, w, i)
  <2>1. CASE ans2 = ans
    <3>1. Score(ds2, ans2) = Score(ds, ans)
      BY <1>1, <2>1 DEF Score
    <3>2. w = v
      BY <3>1 DEF Semantic
    <3>3. \/ v = <<>>
          \/ \E s \in [1 .. n -> Int] : v = <<semanticVotes(s)>>
      BY SemanticAre
    <3>4. \A s \in [1 .. n -> Int] : FavorsIn(n, semanticVotes(s), semanticVotes(s), i)
      BY <1>1, SemanticIs, UnchangedFavors
    <3> HIDE DEF n, v, w
    <3> QED
      BY <3>2, <3>3, <3>4 DEF FavorsExtra
  <2>2. CASE ds2 = ds /\ BetterAnswer(ds, ans, ans2, i)
    <3> HIDE DEF n, v, w
    <3>5. ds \in Docs /\ ans \in Answers /\ ans2 \in Answers /\ i \in 1 .. Len(ds)
      OBVIOUS
    <3>6. \E s, s2 : /\ Lifts(Len(ds), s, s2, i)
                      /\ Score(ds, ans) = {s} /\ Score(ds, ans2) = {s2}
      BY <2>2, LiftedAnswer
    <3>1. PICK s, s2 : /\ Lifts(n, s, s2, i)
                       /\ Score(ds, ans) = {s} /\ Score(ds, ans2) = {s2}
      BY <3>6 DEF n
    <3>2. /\ {semanticVotes(q) : q \in Score(ds, ans)} = {semanticVotes(s)}
          /\ {semanticVotes(q) : q \in Score(ds2, ans2)} = {semanticVotes(s2)}
      BY <2>2, <3>1
    <3>3. v = <<semanticVotes(s)>> /\ w = <<semanticVotes(s2)>>
      BY <3>2, SeqOfOne DEF Semantic, v, w
    <3>4. FavorsIn(n, semanticVotes(s), semanticVotes(s2), i)
      BY <1>1, <3>1, <3>5, LiftedScores DEF n
    <3> QED
      BY <3>3, <3>4 DEF FavorsExtra
  <2> QED
    BY <2>1, <2>2
<1>3. i \in 1 .. Len(ds) /\ LiftsDocs(ds, ds2, i)
  OBVIOUS
<1> HIDE DEF v, w
<1> QED
  BY <1>2, <1>3, AllFavors DEF All, v, w

LEMMA RankSemanticIs ==
  ASSUME NEW ds \in Docs, NEW ans, NEW bl
  PROVE  LET orders == RankSemantic(ds, bl, ans).orders
         IN  /\ Len(ds) < 2 \/ bl => orders = {InOrder(ds)}
             /\ ~(Len(ds) < 2 \/ bl) => orders = rrfFuse(Len(ds), All(ds, ans))
<1>1. RankSemantic(ds, bl, ans) = RankWith(ds, bl, Semantic(ds, ans))
  BY DEF RankSemantic, Semantic
<1> QED
  BY <1>1 DEF RankWith, All, Both

\* The places of result i do not get worse.
AreNoWorse(new, old) == Max(new) <= Max(old) /\ Min(new) <= Min(old)

NoWorsePlaces(ds, bl, ans, ds2, ans2, i) ==
    AreNoWorse(PlacesOf(Len(ds2), RankSemantic(ds2, bl, ans2).orders, i),
               PlacesOf(Len(ds), RankSemantic(ds, bl, ans).orders, i))

LEMMA LiftImproves ==
  ASSUME NEW ds, NEW ans, NEW ds2, NEW ans2, NEW i, StepLifts(ds, ans, ds2, ans2, i), NEW bl
  PROVE  NoWorsePlaces(ds, bl, ans, ds2, ans2, i)
<1> DEFINE n == Len(ds)
<1>1. /\ n \in Nat /\ i \in 1 .. n /\ Len(ds2) = n /\ DOMAIN ds = 1 .. n /\ DOMAIN ds2 = 1 .. n
      /\ ds \in Docs /\ ds2 \in Docs
  BY DocsAre DEF StepLifts, LiftsDocs
<1>2. CASE n < 2 \/ bl
  <2>1. /\ RankSemantic(ds, bl, ans).orders = {InOrder(ds)}
        /\ RankSemantic(ds2, bl, ans2).orders = {InOrder(ds2)}
    BY <1>1, <1>2, RankSemanticIs
  <2>2. PlacesOf(n, {InOrder(ds)}, i) = {i} /\ PlacesOf(n, {InOrder(ds2)}, i) = {i}
    BY <1>1 DEF PlacesOf, InOrder
  <2>3. Max({i}) = i /\ Min({i}) = i
    BY <1>1 DEF Max, Min
  <2>4. /\ PlacesOf(Len(ds), RankSemantic(ds, bl, ans).orders, i) = {i}
        /\ PlacesOf(Len(ds2), RankSemantic(ds2, bl, ans2).orders, i) = {i}
    BY <1>1, <2>1, <2>2
  <2>5. AreNoWorse({i}, {i})
    BY <1>1, <2>3 DEF AreNoWorse
  <2> QED
    BY <2>4, <2>5 DEF NoWorsePlaces
<1>3. CASE ~(n < 2 \/ bl)
  <2>1. /\ RankSemantic(ds, bl, ans).orders = rrfFuse(n, All(ds, ans))
        /\ RankSemantic(ds2, bl, ans2).orders = rrfFuse(n, All(ds2, ans2))
    BY <1>1, <1>3, RankSemanticIs
  <2>2. Favors(n, All(ds, ans), All(ds2, ans2), i)
    BY LiftFavors
  <2> DEFINE P == PlacesOf(n, rrfFuse(n, All(ds, ans)), i)
             Q == PlacesOf(n, rrfFuse(n, All(ds2, ans2)), i)
  <2>3. AreNoWorse(Q, P)
    <3> HIDE DEF n
    <3> QED
      BY <1>1, <2>2, FavoredHasBetterPlaces DEF AreNoWorse
  <2>4. /\ PlacesOf(Len(ds), RankSemantic(ds, bl, ans).orders, i) = P
        /\ PlacesOf(Len(ds2), RankSemantic(ds2, bl, ans2).orders, i) = Q
    BY <1>1, <2>1
  <2> HIDE DEF P, Q
  <2> QED
    BY <2>3, <2>4 DEF NoWorsePlaces
<1> QED
  BY <1>2, <1>3

\* Every step of RerankCheck lifts one result.
LEMMA EveryStepLifts ==
  ASSUME RankInv, RankInv', RankNext
  PROVE  /\ blank' = blank
         /\ \E i \in DOMAIN docs : StepLifts(docs, answer, docs', answer', i)
         /\ \A i \in DOMAIN docs : Raised(i) => StepLifts(docs, answer, docs', answer', i)
<1>1. /\ docs \in Docs /\ docs' \in Docs /\ answer \in Answers /\ answer' \in Answers
  BY DEF RankInv
<1>2. /\ Len(docs) \in Nat /\ DOMAIN docs = 1 .. Len(docs)
      /\ \A i \in DOMAIN docs : docs[i].bm25 \in Nat /\ docs[i].engines \in Nat
  BY <1>1, DocsAre
<1>3. PICK m \in 0 .. MaxMentions : answer \in [1 .. m -> Mention]
  BY <1>1 DEF Answers
<1>4. PICK n \in 1 .. MaxDocs : docs \in [1 .. n -> Doc]
  BY <1>1 DEF Docs
<1>5. ASSUME NEW i \in DOMAIN docs, Match(i) \/ Consensus(i)
      PROVE  /\ blank' = blank
             /\ StepLifts(docs, answer, docs', answer', i)
             /\ \A r \in DOMAIN docs : Raised(r) => r = i
  <2>1. /\ blank' = blank /\ answer' = answer
        /\ \/ docs' = [docs EXCEPT ![i].bm25 = @ + 1]
           \/ docs' = [docs EXCEPT ![i].engines = @ + 1]
    BY <1>5 DEF Match, Consensus, Becomes
  <2>2. DOMAIN docs' = DOMAIN docs /\ Len(docs') = Len(docs)
    BY <1>4, <2>1
  <2>3. \A r \in DOMAIN docs : r # i => docs'[r] = docs[r]
    BY <2>1
  <2>4. docs'[i].bm25 >= docs[i].bm25 /\ docs'[i].engines >= docs[i].engines
    <3>1. docs[i] \in Doc /\ docs[i].bm25 \in Nat /\ docs[i].engines \in Nat
      BY <1>2, <1>4
    <3>2. \/ docs'[i] = [docs[i] EXCEPT !.bm25 = @ + 1]
          \/ docs'[i] = [docs[i] EXCEPT !.engines = @ + 1]
      BY <1>4, <2>1
    <3> QED
      BY <3>1, <3>2 DEF Doc
  <2>5. LiftsDocs(docs, docs', i)
    BY <1>1, <1>2, <2>2, <2>3, <2>4 DEF LiftsDocs
  <2>6. StepLifts(docs, answer, docs', answer', i)
    BY <1>1, <1>2, <2>1, <2>5 DEF StepLifts
  <2>7. \A r \in DOMAIN docs : Raised(r) => r = i
    BY <2>1, <2>3 DEF Raised
  <2> QED
    BY <2>1, <2>6, <2>7
<1>6. ASSUME NEW i \in DOMAIN docs, Rescore(i)
      PROVE  /\ blank' = blank
             /\ StepLifts(docs, answer, docs', answer', i)
             /\ \A r \in DOMAIN docs : Raised(r) => r = i
  <2>1. PICK k \in DOMAIN answer, v \in Scores :
            /\ answer[k].index = i - 1 /\ v > answer[k].score
            /\ Becomes(docs, [answer EXCEPT ![k].score = v])
    BY <1>6 DEF Rescore
  <2>2. blank' = blank /\ docs' = docs /\ answer' = [answer EXCEPT ![k].score = v]
    BY <2>1 DEF Becomes
  <2>3. v \in Int
    BY RankAssumption
  <2>4. LiftsDocs(docs, docs', i)
    BY <1>1, <1>2, <2>2 DEF LiftsDocs
  <2>5. StepLifts(docs, answer, docs', answer', i)
    BY <1>1, <1>2, <2>1, <2>2, <2>3, <2>4 DEF StepLifts, BetterAnswer
  <2>6. ASSUME NEW r \in DOMAIN docs, Raised(r) PROVE r = i
    <3>1. PICK q \in DOMAIN answer : answer[q].index = r - 1 /\ answer'[q] # answer[q]
      BY <2>2, <2>6 DEF Raised
    <3>2. q = k
      BY <2>2, <3>1
    <3>3. r \in Int /\ i \in Int
      BY <1>2
    <3> QED
      BY <2>1, <3>1, <3>2, <3>3
  <2> QED
    BY <2>2, <2>5, <2>6
<1>7. PICK i \in DOMAIN docs : Match(i) \/ Consensus(i) \/ Rescore(i)
  BY DEF RankNext
<1>8. /\ blank' = blank
      /\ StepLifts(docs, answer, docs', answer', i)
      /\ \A r \in DOMAIN docs : Raised(r) => r = i
  BY <1>5, <1>6, <1>7
<1> QED
  BY <1>8

\* Whatever the scores, a better one of a result, where those of the others
\* stay, never costs it its place
\* (rerank.go:65-75, rerank.go:87-93, rerank.go:132-159, semantic.go:27-54),
\* although it changes the ranks of the others and who has a vote.
THEOREM BetterIsNoWorse == RankSpec => BetterNeverCosts
<1> DEFINE Costless(i) == Max(Places(i)') <= Max(Places(i)) /\ Min(Places(i)') <= Min(Places(i))
<1>1. ASSUME RankInv, RankInv', [RankNext]_rankVars
      PROVE  [\A i \in DOMAIN docs : Raised(i) => Costless(i)]_rankVars
  <2>1. CASE RankNext
    <3>1. ASSUME NEW i \in DOMAIN docs, Raised(i) PROVE Costless(i)
      <4>1. NoWorsePlaces(docs, blank, answer, docs', answer', i)
        BY <1>1, <2>1, <3>1, EveryStepLifts, LiftImproves
      <4>2. /\ ranked = RankSemantic(docs, blank, answer)
            /\ ranked' = RankSemantic(docs', blank, answer')
        BY <1>1, <2>1, EveryStepLifts DEF RankInv
      <4>3. DOMAIN docs = 1 .. Len(docs) /\ DOMAIN docs' = 1 .. Len(docs')
        BY <1>1, DocsAre DEF RankInv
      <4>4. /\ Places(i) = PlacesOf(Len(docs), RankSemantic(docs, blank, answer).orders, i)
            /\ Places(i)' = PlacesOf(Len(docs'), RankSemantic(docs', blank, answer').orders, i)
        BY <4>2, <4>3 DEF Places, PlacesOf
      <4> QED
        BY <4>1, <4>4 DEF NoWorsePlaces, AreNoWorse
    <3> QED
      BY <3>1
  <2> QED
    BY <1>1, <2>1
<1> QED
  BY <1>1, AlwaysRanked, PTL DEF RankSpec, BetterNeverCosts
=============================================================================
