------------------------------- MODULE Paging -------------------------------
(* internal/mcp/mcp.go: agents that read a long page in chunks, "use         *)
(* start_index to read in chunks" (the tool's description), each call going  *)
(* through the cache of FetchTool while the page itself changes.  An agent   *)
(* asks for the end of the chunk before (content.go:136-137) and stops when  *)
(* it has total_chars of them.                                               *)
EXTENDS Chunk, FiniteSetsExt

CONSTANTS
    Agent,
    Skimmer,        \* the agents that stop after the first chunk
    Text,           \* Text[v]: what version v of the page converts to
    Lengths,        \* values of max_length, 0 when it is left out
    DefaultMaxLen,  \* DEFAULT_MAX_LEN
    TTL,            \* FETCH_CACHE_TTL
    Slack,          \* bound on the time from the site's answer to Set
    MaxTime         \* bound on the clock

ASSUME PagingAssumption ==
    /\ \A v \in DOMAIN Text : Text[v] \in Seq(BOOLEAN)
    /\ Len(Text) \in Nat \ {0} /\ DOMAIN Text = 1 .. Len(Text)
    /\ Skimmer \subseteq Agent
    /\ Lengths \subseteq Int /\ DefaultMaxLen \in Int
    /\ {TTL, Slack, MaxTime} \subseteq Nat

VARIABLES
    now,       \* the clock
    live,      \* the version the site serves
    items,     \* deps.Fetch
    pc,        \* pc[a]: the step the call of agent a is at
    entry,     \* entry[a]: its entry: the version and when the site served it
    age,       \* age[a]: how long ago that was when the call got it (history)
    gathered,  \* gathered[a]: what it has read, as <<version, position>>
    reply      \* reply[a]: the reply it has just had

vars == <<now, live, items, pc, entry, age, gathered, reply>>

Version == DOMAIN Text

Entry == [version : Version, asof : 0 .. MaxTime]

None == [version |-> 0, asof |-> 0]

Page == "page"   \* the one key

Cache == INSTANCE CacheOps WITH MaxEntries <- 1, EmptyKey <- ""

Longest == Max({Len(Text[v]) : v \in Version})

NoReply == [tag |-> "none"]
Failed == [tag |-> "error"]
Panic == [tag |-> "panic"]

\* A chunk of some size, the length it was cut for, and total_chars.
Piece(size, asked, total) == [tag |-> "chunk", size |-> size, asked |-> asked, total |-> total]

Replies == {NoReply, Failed, Panic}
           \cup [tag : {"chunk"}, size : 0 .. Longest, asked : Int, total : 0 .. Longest]

\* The shapes of the state; the cache holds no empty text.
TypeOK ==
    /\ now \in 0 .. MaxTime
    /\ live \in Version
    /\ \A k \in DOMAIN items :
         k = Page /\ items[k].value \in Entry /\ Text[items[k].value.version] # <<>>
    /\ pc \in [Agent -> {"idle", "lookup", "fetch", "store", "reply", "next"}]
    /\ entry \in [Agent -> Entry \cup {None}]
    /\ age \in [Agent -> 0 .. MaxTime]
    /\ \A a \in Agent :
         /\ gathered[a] \in Seq(Version \X (0 .. Longest - 1))
         /\ reply[a] \in Replies

Init ==
    /\ now = 0
    /\ live = 1
    /\ items = [k \in {} |-> 0]
    /\ pc = [a \in Agent |-> "idle"]
    /\ entry = [a \in Agent |-> None]
    /\ age = [a \in Agent |-> 0]
    /\ gathered = [a \in Agent |-> <<>>]
    /\ reply = [a \in Agent |-> NoReply]

Goto(a, label) == pc' = [pc EXCEPT ![a] = label]

-----------------------------------------------------------------------------
(* The rest of the world.                                                    *)

\* An entry is stored Slack after the site's answer at the latest.
Elapse ==
    /\ now < MaxTime
    /\ \A a \in Agent : pc[a] = "store" => now < entry[a].asof + Slack
    /\ now' = now + 1
    /\ UNCHANGED <<live, items, pc, entry, age, gathered, reply>>

\* The site has a new version.
Publish ==
    /\ live + 1 \in Version
    /\ live' = live + 1
    /\ UNCHANGED <<now, items, pc, entry, age, gathered, reply>>

\* Calls for other pages fill the cache.
OthersEvict ==
    /\ items # [k \in {} |-> 0]
    /\ items' \in Cache!EvictOldest(items)
    /\ UNCHANGED <<now, live, pc, entry, age, gathered, reply>>

-----------------------------------------------------------------------------
(* One call of web_fetch.                                                    *)

\* A new reading.
Begin(a) ==
    /\ pc[a] = "idle"
    /\ Goto(a, "lookup")
    /\ UNCHANGED <<now, live, items, entry, age, gathered, reply>>

Lookup(a) ==
    /\ pc[a] = "lookup"
    /\ IF Cache!Served(items, Page, now)
         THEN /\ Goto(a, "reply")
              /\ entry' = [entry EXCEPT ![a] = items[Page].value]
              /\ age' = [age EXCEPT ![a] = now - items[Page].value.asof]
         ELSE Goto(a, "fetch") /\ UNCHANGED <<entry, age>>
    /\ items' = Cache!AfterGet(items, Page, now)
    /\ UNCHANGED <<now, live, gathered, reply>>

\* Seeded fault: an empty text is stored as well.
FetchedIsStored(a) ==
    /\ pc[a] = "fetch"
    /\ entry' = [entry EXCEPT ![a] = [version |-> live, asof |-> now]]
    /\ Goto(a, "store")
    /\ UNCHANGED <<now, live, items, age, gathered, reply>>

\* The site answers and the page is converted; an empty text is not stored.
Fetched(a) ==
    /\ pc[a] = "fetch"
    /\ entry' = [entry EXCEPT ![a] = [version |-> live, asof |-> now]]
    /\ Goto(a, IF Text[live] # <<>> THEN "store" ELSE "reply")
    /\ UNCHANGED <<now, live, items, age, gathered, reply>>

FetchFails(a) ==
    /\ pc[a] = "fetch"
    /\ reply' = [reply EXCEPT ![a] = Failed]
    /\ Goto(a, "next")
    /\ UNCHANGED <<now, live, items, entry, age, gathered>>

Store(a) ==
    /\ pc[a] = "store"
    /\ items' \in Cache!Stored(items, Page, entry[a], now)
    /\ Goto(a, "reply")
    /\ UNCHANGED <<now, live, entry, age, gathered, reply>>

maxLen(asked) == IF asked > 0 THEN asked ELSE DefaultMaxLen

\* The chunk of the entry from the end of the chunk before, or an error when that
\* is not in the text.
Answer(a) ==
    LET v == entry[a].version
        total == Len(Text[v])
        startIndex == Len(gathered[a])
    IN  /\ pc[a] = "reply"
        /\ \E asked \in Lengths :
             \E chunk \in {ChunkOf(Text[v], startIndex, maxLen(asked))} :
               IF chunk.tag = "panic"
                 THEN reply' = [reply EXCEPT ![a] = Panic] /\ UNCHANGED gathered
               ELSE IF startIndex > 0 /\ startIndex >= total
                 THEN reply' = [reply EXCEPT ![a] = Failed] /\ UNCHANGED gathered
               ELSE /\ reply' = [reply EXCEPT ![a] =
                          Piece(chunk.to - chunk.from, maxLen(asked), total)]
                    /\ gathered' = [gathered EXCEPT ![a] =
                          @ \o [i \in 1 .. chunk.to - chunk.from |-> <<v, chunk.from + i - 1>>]]
        /\ Goto(a, "next")
        /\ entry' = [entry EXCEPT ![a] = None]
        /\ age' = [age EXCEPT ![a] = 0]
        /\ UNCHANGED <<now, live, items>>

-----------------------------------------------------------------------------
(* The agent.                                                                *)

\* It has all the characters that there are.
Complete(a) == reply[a].tag = "chunk" /\ Len(gathered[a]) >= reply[a].total

\* It asks for the next chunk.
Continue(a) ==
    /\ pc[a] = "next"
    /\ reply[a].tag = "chunk" /\ ~Complete(a)
    /\ a \notin Skimmer
    /\ Goto(a, "lookup")
    /\ reply' = [reply EXCEPT ![a] = NoReply]
    /\ UNCHANGED <<now, live, items, entry, age, gathered>>

\* It has what it wanted, or gives up.
Finish(a) ==
    /\ pc[a] = "next"
    /\ reply[a].tag # "chunk" \/ Complete(a) \/ a \in Skimmer
    /\ Goto(a, "idle")
    /\ reply' = [reply EXCEPT ![a] = NoReply]
    /\ gathered' = [gathered EXCEPT ![a] = <<>>]
    /\ UNCHANGED <<now, live, items, entry, age>>

Step(a) ==
    \/ Lookup(a) \/ Fetched(a) \/ FetchFails(a) \/ Store(a) \/ Answer(a)
    \/ Continue(a) \/ Finish(a)

Next ==
    \/ Elapse \/ Publish \/ OthersEvict
    \/ \E a \in Agent : Begin(a) \/ Step(a)

\* The server goes on with every call, and an agent with its reading.
Fairness == \A a \in Agent : WF_vars(Step(a))

Spec == Init /\ [][Next]_vars

FairSpec == Spec /\ Fairness

-----------------------------------------------------------------------------
(* Properties.                                                               *)

\* "the model can page through long documents with start_index=end of the
\* previous chunk" (content.go:136-137, TestChunkPagingLossless): whoever has
\* met one version only has read it without a gap or a repetition, wherever the
\* chunks were cut and whatever lengths were asked for.
PagingIsLossless ==
    \A a \in Agent : \A v \in Version :
        (\A i \in DOMAIN gathered[a] : gathered[a][i][1] = v) =>
            /\ \A i \in DOMAIN gathered[a] : gathered[a][i][2] = i - 1
            /\ Complete(a) /\ gathered[a] # <<>> => Len(gathered[a]) = Len(Text[v])

\* A chunk that is not the last keeps "at least half of the requested window
\* length" (content.go:157-158) and never exceeds it.
ChunksKeepHalf ==
    \A a \in Agent :
        reply[a].tag = "chunk" =>
            /\ reply[a].size <= reply[a].asked
            /\ Complete(a) \/ reply[a].size >= reply[a].asked \div 2

\* A page may change and calls may store it in any order, but what a call
\* shows is what the site served at most FETCH_CACHE_TTL before the call, and the
\* time it took to store it.
StaleAtMostTTL == \A a \in Agent : age[a] <= TTL + Slack

\* However the chunks are cut, each brings something: an agent that asks on
\* comes to the end, or to an error when the page has become shorter.
ReadingsEnd == \A a \in Agent : pc[a] # "idle" ~> pc[a] = "idle"

-----------------------------------------------------------------------------
(* What the documentation says and the code does not do.                     *)

\* "so the model can page through long documents" (content.go:136): what an
\* agent has when its reading is complete is one document.
OneDocument ==
    \A a \in Agent : Complete(a) => \A i, j \in DOMAIN gathered[a] :
        gathered[a][i][1] = gathered[a][j][1]

\* "maximum number of characters to return" (mcp.go:153): any positive number
\* is one, and Chunk returns.
ChunkReturns == \A a \in Agent : reply[a].tag # "panic"

\* "moves the window end back to the last paragraph boundary (blank line first,
\* single newline second) as long as at least half of the requested window
\* length is preserved" (content.go:156-158): when the last blank line leaves
\* too little, the last newline is the boundary.
SnapsToNewline ==
    \A a \in Agent : reply[a].tag = "chunk" /\ ~Complete(a) =>
        LET n == Len(gathered[a])
            text == Text[gathered[a][n][1]]
            first == gathered[a][n][2] + 1 - reply[a].size
            end == Min({first + reply[a].asked, Len(text)})
        IN  \A b \in first + 1 .. end :
                IsNewline(text, b - 1) /\ b - first >= reply[a].asked \div 2
                    => IsNewline(text, gathered[a][n][2])
=============================================================================
