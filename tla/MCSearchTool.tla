---------------------------- MODULE MCSearchTool ----------------------------
(* SearchTool with two callers, a few searches and answers.                  *)
EXTENDS SearchTool

CONSTANTS c1, c2

Callers == {c1, c2}

Asked(query, cats, range, max) ==
    [query |-> query, cats |-> cats, lang |-> <<>>, range |-> range, max |-> max]

\* A query with a bar, its second half as a category, a time range, a limit of
\* its own (2 is what no limit means).
Searches ==
    {Asked(<<"a", "|", "b">>, <<>>, <<>>, 0), Asked(<<"a">>, <<"b">>, <<>>, 2),
     Asked(<<"a">>, <<"b">>, <<"day">>, 0), Asked(<<"a">>, <<>>, <<>>, 1)}

\* The same with a bar in a category.
BarredSearches ==
    {Asked(<<"a", "|", "b">>, <<>>, <<>>, 0), Asked(<<"a">>, <<"b", "|">>, <<>>, 0)}

Found(page, bm25, engines) == [page |-> page, bm25 |-> bm25, engines |-> engines]

\* Three pages, one of them twice; one page, an engine down; nothing.
Webs ==
    {[results |-> <<Found("p", 0, 1), Found("p", 0, 2), Found("q", 1, 1), Found("r", 1, 2)>>,
      down |-> {}],
     [results |-> <<Found("q", 1, 1)>>, down |-> {"engine"}],
     [results |-> <<>>, down |-> {"engine"}]}

\* The service fails, or knows one result only, or one that is not there.
Answers == {<<>>, <<[index |-> 1, score |-> 1]>>, <<[index |-> 7, score |-> 1]>>}

Symmetry == Permutations(Callers)
=============================================================================
