----------------------------- MODULE RerankCheck ----------------------------
(* The rerankers of Rerank over all short lists of results and answers of    *)
(* the service.  A step gives one result a better signal, so that its places *)
(* before and after can be compared.                                         *)
EXTENDS Rerank

CONSTANTS
    MaxDocs,      \* results of a search
    MaxBm25,      \* BM25 scores, by their order
    MaxEngines,   \* engines
    MaxMentions,  \* entries of an answer of the service
    Scores        \* its scores

ASSUME RankAssumption ==
    /\ MaxDocs \in Nat /\ MaxBm25 \in Nat
    /\ MaxEngines \in Nat /\ MaxMentions \in Nat
    /\ Scores \subseteq Int

VARIABLES
    docs,    \* the results
    blank,   \* the query is blank
    answer,  \* the answer of the service
    ranked   \* what Rank returns

rankVars == <<docs, blank, answer, ranked>>

Doc == [bm25 : 0 .. MaxBm25, engines : 1 .. MaxEngines]

\* One index is out of range for every list.
Mention == [index : 0 .. MaxDocs, score : Scores]

RankInit ==
    /\ docs \in UNION {[1 .. n -> Doc] : n \in 1 .. MaxDocs}
    /\ blank \in BOOLEAN
    /\ blank => \A i \in DOMAIN docs : docs[i].bm25 = 0
    /\ answer \in UNION {[1 .. n -> Mention] : n \in 0 .. MaxMentions}
    /\ ranked = RankSemantic(docs, blank, answer)

Becomes(newDocs, newAnswer) ==
    /\ docs' = newDocs
    /\ answer' = newAnswer
    /\ ranked' = RankSemantic(newDocs, blank, newAnswer)
    /\ UNCHANGED blank

\* A better BM25 score for this result, the others' being what they are.  This
\* is about the fusion and not about texts: one more of the query's words in a
\* text also changes df and avgdl, and with them the others' scores
\* (rerank.go:96-130).
Match(i) ==
    /\ ~blank
    /\ docs[i].bm25 < MaxBm25
    /\ Becomes([docs EXCEPT ![i].bm25 = @ + 1], answer)

\* One more engine.
Consensus(i) ==
    /\ docs[i].engines < MaxEngines
    /\ Becomes([docs EXCEPT ![i].engines = @ + 1], answer)

\* A better score from the service.
Rescore(i) ==
    /\ \E k \in DOMAIN answer, s \in Scores :
         /\ answer[k].index = i - 1
         /\ s > answer[k].score
         /\ Becomes(docs, [answer EXCEPT ![k].score = s])

RankNext == \E i \in DOMAIN docs : Match(i) \/ Consensus(i) \/ Rescore(i)

RankSpec == RankInit /\ [][RankNext]_rankVars

\* A step has given result i a better signal.
Raised(i) ==
    \/ docs'[i] # docs[i]
    \/ \E k \in DOMAIN answer : answer[k].index = i - 1 /\ answer'[k] # answer[k]

\* The places result i may have.
Places(i) == {p \in DOMAIN docs : \E order \in ranked.orders : order[p] = i}

-----------------------------------------------------------------------------

\* A result that no signal holds to be worse than another, and that came first,
\* stays before it; one that every signal holds to be better goes before it.
\* Ties, shared ranks, missing votes and missing scores do not play against
\* each other, nor does the rounding of the sums.
DominatedStaysBehind ==
    ~blank => \A i, j \in DOMAIN docs :
        LET scores == Score(docs, answer)
            noWorse == /\ docs[i].bm25 >= docs[j].bm25
                       /\ docs[i].engines >= docs[j].engines
                       /\ \A s \in scores : s[i] >= s[j]
            better == /\ docs[i].bm25 > docs[j].bm25
                      /\ docs[i].engines > docs[j].engines
                      /\ \A s \in scores : s[i] > s[j]
        IN  (noWorse /\ i < j) \/ better =>
                \A order \in ranked.orders : \E p, q \in DOMAIN docs :
                    order[p] = i /\ order[q] = j /\ p < q

\* A better score of one result, the others' scores unchanged, never costs it
\* its place, although it changes the ranks of the others and who has a vote.
\* Scores are the inputs of the fusion here: how a text's words come to a score
\* is not modelled.
BetterNeverCosts ==
    [][\A i \in DOMAIN docs : Raised(i) =>
            Max(Places(i)') <= Max(Places(i)) /\ Min(Places(i)') <= Min(Places(i))]_rankVars

\* A signal that tells nothing apart changes nothing: results found by as many
\* engines are in the order of the other votes, and when no result has a word
\* of the query ("Results that match no query terms get no BM25 vote",
\* README.md:144) that vote is as if it had not been taken.  Only where three
\* votes round may it decide.
SilentSignals ==
    LET votes == SetToSeq({semanticVotes(s) : s \in Score(docs, answer)})
        Silent(others) ==
            /\ rrfFuse(Len(docs), others) \subseteq ranked.orders
            /\ votes = <<>> => ranked.orders = rrfFuse(Len(docs), others)
    IN  ranked.marked =>
          /\ (\A i, j \in DOMAIN docs : docs[i].engines = docs[j].engines) =>
                Silent(<<bm25Votes(docs)>> \o votes)
          /\ (\A i \in DOMAIN docs : docs[i].bm25 = 0) =>
                Silent(<<engineVotes(docs)>> \o votes)

-----------------------------------------------------------------------------
(* What the documentation says and the code does not do.                     *)

\* "Every result comes back with score (the fused RRF sum) and reranked: true"
\* (README.md:143).
EveryResultIsMarked == ranked.marked

\* "ties keep the original SearXNG order" (README.md:141-142).
TiesKeepTheOrder ==
    LET lists == <<bm25Votes(docs), engineVotes(docs)>>
                 \o SetToSeq({semanticVotes(s) : s \in Score(docs, answer)})
        n == Len(docs)
    IN  ranked.marked => \A order \in ranked.orders : \A p, q \in 1 .. n :
            p < q /\ Fused(n, lists, order[p]) = Fused(n, lists, order[q]) => order[p] < order[q]

\* The test ignores "out-of-bounds" indices (semantic_test.go:187): an answer
\* that names no result says nothing, and the order is that of rrf.
NothingSaidNothingDone ==
    (\A k \in DOMAIN answer : answer[k].index >= Len(docs)) => ranked = RankRRF(docs, blank)
=============================================================================
