------------------------------- MODULE Rerank -------------------------------
(* internal/rerank: the order in which the results of a search are returned. *)
(* A list of results is a sequence of [bm25, engines]: the BM25 score of a   *)
(* result for the query, 0 when it has none of its words, and the number of  *)
(* engines that found it.  Votes are a function from results to ranks; who   *)
(* is not in its domain has no vote.                                         *)
EXTENDS Integers, Sequences, SequencesExt

rrfK == 60

\* Seeded fault: of two results with the same score the later comes first.
PlaceUnstable(score, i) ==
    Cardinality({j \in DOMAIN score : score[j] > score[i] \/ (score[j] = score[i] /\ j >= i)})

\* The place of result i in a stable sort by falling score, and its rank in
\* positionalVotes.
Place(score, i) ==
    Cardinality({j \in DOMAIN score : score[j] > score[i] \/ (score[j] = score[i] /\ j <= i)})

\* The list of votes ends before the first result without a score.
bm25Votes(docs) ==
    LET bm25 == [i \in DOMAIN docs |-> docs[i].bm25]
    IN  [i \in {i \in DOMAIN docs : bm25[i] > 0} |-> Place(bm25, i)]

\* Seeded fault: results found by as many engines do not share a rank.
engineVotesPositional(docs) ==
    [i \in DOMAIN docs |-> Place([j \in DOMAIN docs |-> docs[j].engines], i)]

\* Seeded fault: the comparison is the wrong way round.
engineVotesAscending(docs) ==
    [i \in DOMAIN docs |->
        1 + Cardinality({j \in DOMAIN docs : docs[j].engines < docs[i].engines})]

\* Results found by as many engines share a rank, the next rank is a position.
engineVotes(docs) ==
    [i \in DOMAIN docs |->
        1 + Cardinality({j \in DOMAIN docs : docs[j].engines > docs[i].engines})]

-----------------------------------------------------------------------------
(* The reranking service.  An answer is a sequence of [index, score]; any    *)
(* failure is the answer NoAnswer.                                           *)

NoAnswer == <<>>

\* routerai.Score: at most one list of scores.  Indices out of range are left
\* out, the last score for an index counts, whoever is not named has 0.
Score(docs, answer) ==
    IF answer = NoAnswer
      THEN {}
      ELSE {[i \in DOMAIN docs |->
               LET named == {k \in DOMAIN answer : answer[k].index = i - 1}
               IN  IF named = {} THEN 0 ELSE answer[Max(named)].score]}

semanticVotes(scores) == [i \in DOMAIN scores |-> Place(scores, i)]

-----------------------------------------------------------------------------
(* The fusion.                                                               *)

\* 1 / (rrfK + rank), over a common denominator for n results.
Weight(n, rank) ==
    FoldLeft(LAMBDA x, y : x * y, 1,
             [k \in 1 .. n |-> IF k = rank THEN 1 ELSE rrfK + k])

Fused(n, lists, i) ==
    FoldLeft(LAMBDA x, y : x + y, 0,
             [l \in DOMAIN lists |->
                 IF i \in DOMAIN lists[l] THEN Weight(n, lists[l][i]) ELSE 0])

\* The ranks result i got from the lists, 0 from those without a vote for it.
Ranks(lists, i) ==
    [l \in DOMAIN lists |-> IF i \in DOMAIN lists[l] THEN lists[l][i] ELSE 0]

\* Three votes: their floats are added in the order of the lists.
AddsThree(ranks) == Len(ranks) > 2 /\ 0 \notin Range(ranks)

\* Of two results with the same sum, whether the floats of the code may come out
\* different: when the votes differ, and not only by the order of two of them.
Rounds(lists, i, j) ==
    LET a == Ranks(lists, i)
        b == Ranks(lists, j)
    IN  a # b /\ (AddsThree(a) \/ AddsThree(b) \/ Range(a) # Range(b))

\* The stable sort; where rounding decides either result may come first.
rrfFuse(n, lists) ==
    LET sum == [i \in 1 .. n |-> Fused(n, lists, i)]
    IN  {order \in [1 .. n -> 1 .. n] :
           \A p, q \in 1 .. n : p < q =>
              LET i == order[p]
                  j == order[q]
              IN  /\ i # j
                  /\ sum[i] >= sum[j]
                  /\ sum[i] = sum[j] /\ ~Rounds(lists, i, j) => i < j}

InOrder(docs) == [i \in DOMAIN docs |-> i]

\* Rank of rrf and of semantic (extra: its votes on top of the two others):
\* the orders it may return, and whether it marks the results as reranked.
RankWith(docs, blank, extra) ==
    IF Len(docs) < 2 \/ blank
      THEN [orders |-> {InOrder(docs)}, marked |-> FALSE]
      ELSE [orders |-> rrfFuse(Len(docs), <<bm25Votes(docs), engineVotes(docs)>> \o extra),
            marked |-> TRUE]

RankRRF(docs, blank) == RankWith(docs, blank, <<>>)

RankSemantic(docs, blank, answer) ==
    RankWith(docs, blank, SetToSeq({semanticVotes(s) : s \in Score(docs, answer)}))

\* passthrough
RankNone(docs) == [orders |-> {InOrder(docs)}, marked |-> FALSE]
=============================================================================
