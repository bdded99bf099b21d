----------------------------- MODULE SearchTool -----------------------------
(* internal/mcp/mcp.go and internal/search/search.go: concurrent calls of    *)
(* web_search over the Search cache.  SearXNG answers with whatever the web  *)
(* holds at the time: results, some of which are the same page, and the      *)
(* engines that did not respond.  The reranker is that of Rerank.            *)
EXTENDS Rerank

CONSTANTS
    Caller,       \* the goroutines that serve calls
    Search,       \* the searches asked for
    Web,          \* the answers SearXNG may give
    MaxResults,   \* MAX_RESULTS
    Mode,         \* RERANK
    Opinions,     \* the answers of the reranking service
    Entries,      \* places of deps.Search
    TTL,          \* SEARCH_CACHE_TTL, 0 for no cache
    MaxTime       \* bound on the clock

\* A string, as far as the key of the cache tells strings apart.
Text == Seq(STRING)

\* What a search is asked for: the query, its categories, language and time
\* range, and how many results.
Question == [query : Text, cats : Text, lang : Text, range : Text, max : Int]

\* A raw result: its page (what normalizeResultURL makes of its URL), and the
\* signals of Rerank.
IsResult(r) == DOMAIN r = {"page", "bm25", "engines"} /\ {r.bm25, r.engines} \subseteq Nat

ASSUME SearchAssumption ==
    /\ Search \subseteq Question /\ Search # {}
    /\ \A w \in Web :
         /\ w.results \in Seq({w.results[i] : i \in DOMAIN w.results})
         /\ \A i \in DOMAIN w.results : IsResult(w.results[i])
    /\ Mode \in {"none", "rrf", "semantic"}
    /\ Entries \in Nat \ {0}
    /\ {MaxResults, TTL, MaxTime} \subseteq Nat

VARIABLES
    now,    \* the clock
    items,  \* deps.Search
    pc,     \* pc[c]: the step caller c is at
    args,   \* args[c]: the search it was called with
    entry   \* entry[c]: the results and statuses it will reply with

vars == <<now, items, pc, args, entry>>

NoSearch == CHOOSE s \in Search : TRUE

Nothing == [results |-> <<>>, down |-> {}, web |-> "none", search |-> "none"]

Cache == INSTANCE CacheOps WITH MaxEntries <- Entries, EmptyKey <- <<>>

-----------------------------------------------------------------------------
(* The search client.                                                        *)

\* The first of the results on a page stands for all of them.
dedupResults(results) ==
    FoldLeft(LAMBDA out, r :
                 IF \E k \in DOMAIN out : out[k].page = r.page THEN out ELSE Append(out, r),
             <<>>, results)

Cut(results, max) ==
    IF max > 0 /\ max < Len(results) THEN SubSeq(results, 1, max) ELSE results

\* Seeded fault: the list is cut before its duplicates are dropped.
ResponseCutFirst(web, max) == dedupResults(Cut(web.results, max))

\* SearchIn: Response.Results.
Response(web, max) == Cut(dedupResults(web.results), max)

Limit(search) == IF search.max <= 0 THEN MaxResults ELSE search.max

\* Seeded fault: the time range is left out of the key.
cacheKeyNoRange(s) ==
    s.query \o <<"|">> \o s.cats \o <<"|">> \o s.lang \o <<"|">> \o <<ToString(Limit(s))>>

cacheKey(s) ==
    s.query \o <<"|">> \o s.cats \o <<"|">> \o s.lang \o <<"|">> \o s.range
            \o <<"|">> \o <<ToString(Limit(s))>>

-----------------------------------------------------------------------------

\* The shapes of the callers' state and of the cache, which holds no empty list
\* of results: "an empty result with engines_status means the web is
\* unreachable right now" (mcp.go:94).
TypeOK ==
    /\ now \in 0 .. MaxTime
    /\ \A k \in DOMAIN items :
         items[k].value.results # <<>> /\ items[k].value.web \in Web
    /\ pc \in [Caller -> {"idle", "lookup", "search", "rank", "store", "reply"}]
    /\ args \in [Caller -> Search]
    /\ \A c \in Caller :
         pc[c] \in {"rank", "store", "reply"} => entry[c].web \in Web /\ entry[c].search \in Search

Init ==
    /\ now = 0
    /\ items = [k \in {} |-> 0]
    /\ pc = [c \in Caller |-> "idle"]
    /\ args = [c \in Caller |-> NoSearch]
    /\ entry = [c \in Caller |-> Nothing]

Goto(c, label) == pc' = [pc EXCEPT ![c] = label]

Elapse ==
    /\ now < MaxTime
    /\ now' = now + 1
    /\ UNCHANGED <<items, pc, args, entry>>

Call(c, search) ==
    /\ pc[c] = "idle"
    /\ args' = [args EXCEPT ![c] = search]
    /\ Goto(c, "lookup")
    /\ UNCHANGED <<now, items, entry>>

Lookup(c) ==
    LET k == cacheKey(args[c])
    IN  /\ pc[c] = "lookup"
        /\ IF TTL # 0 /\ Cache!Served(items, k, now)
             THEN /\ Goto(c, "reply")
                  /\ entry' = [entry EXCEPT ![c] = items[k].value]
             ELSE Goto(c, "search") /\ UNCHANGED entry
        /\ items' = IF TTL # 0 THEN Cache!AfterGet(items, k, now) ELSE items
        /\ UNCHANGED <<now, args>>

\* SearXNG answers.
SearchIn(c) ==
    /\ pc[c] = "search"
    /\ \E web \in Web :
         entry' = [entry EXCEPT ![c] =
             [results |-> Response(web, Limit(args[c])), down |-> web.down, web |-> web,
              search |-> args[c]]]
    /\ Goto(c, "rank")
    /\ UNCHANGED <<now, items, args>>

\* The call fails, it is cancelled, or SearXNG refuses it: an error.
SearchFails(c) ==
    /\ pc[c] = "search"
    /\ Goto(c, "idle")
    /\ args' = [args EXCEPT ![c] = NoSearch]
    /\ UNCHANGED <<now, items, entry>>

\* The orders the reranker may give the results.
Orders(results) ==
    CASE Mode = "none" -> RankNone(results).orders
      [] Mode = "rrf" -> RankRRF(results, FALSE).orders
      [] Mode = "semantic" -> UNION {RankSemantic(results, FALSE, o).orders : o \in Opinions}

\* Seeded fault: an empty list of results is stored as well.
RankAndStore(c) ==
    /\ pc[c] = "rank"
    /\ \E order \in Orders(entry[c].results) :
         entry' = [entry EXCEPT ![c].results = [i \in DOMAIN @ |-> @[order[i]]]]
    /\ Goto(c, IF TTL # 0 THEN "store" ELSE "reply")
    /\ UNCHANGED <<now, items, args>>

\* Only results are worth storing.
Rank(c) ==
    /\ pc[c] = "rank"
    /\ \E order \in Orders(entry[c].results) :
         entry' = [entry EXCEPT ![c].results = [i \in DOMAIN @ |-> @[order[i]]]]
    /\ Goto(c, IF TTL # 0 /\ entry[c].results # <<>> THEN "store" ELSE "reply")
    /\ UNCHANGED <<now, items, args>>

Store(c) ==
    /\ pc[c] = "store"
    /\ items' \in Cache!Stored(items, cacheKey(args[c]), entry[c], now)
    /\ Goto(c, "reply")
    /\ UNCHANGED <<now, args, entry>>

Answer(c) ==
    /\ pc[c] = "reply"
    /\ Goto(c, "idle")
    /\ args' = [args EXCEPT ![c] = NoSearch]
    /\ entry' = [entry EXCEPT ![c] = Nothing]
    /\ UNCHANGED <<now, items>>

Next ==
    \/ Elapse
    \/ \E c \in Caller : \E search \in Search : Call(c, search)
    \/ \E c \in Caller :
         Lookup(c) \/ SearchIn(c) \/ SearchFails(c) \/ Rank(c) \/ Store(c) \/ Answer(c)

Spec == Init /\ [][Next]_vars

-----------------------------------------------------------------------------
(* Properties.  A caller at "reply" may answer now: what holds of it there   *)
(* holds of every reply.                                                     *)

\* A reply was found by the search asked for: two searches share an entry only
\* if they are the same for the client.  A query may hold the bar that joins
\* the fields of the key; the other fields may not.
ReplyMatchesSearch ==
    \A c \in Caller : pc[c] = "reply" =>
        /\ [entry[c].search EXCEPT !.max = 0] = [args[c] EXCEPT !.max = 0]
        /\ Limit(entry[c].search) = Limit(args[c])

\* A reply is one answer of SearXNG: its first pages, as many as asked for,
\* each once, none lost to the reranker, with the engines that failed then.
ReplyIsOneAnswer ==
    \A c \in Caller : pc[c] = "reply" =>
        LET web == entry[c].web.results
            results == entry[c].results
            first == {i \in DOMAIN web : \A j \in 1 .. i - 1 : web[j].page # web[i].page}
            wanted == IF Limit(args[c]) > 0
                        THEN {i \in first : Cardinality({j \in first : j < i}) < Limit(args[c])}
                        ELSE first
        IN  /\ {results[i] : i \in DOMAIN results} = {web[i] : i \in wanted}
            /\ Len(results) = Cardinality(wanted)
            /\ entry[c].down = entry[c].web.down
=============================================================================
