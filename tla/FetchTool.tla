------------------------------ MODULE FetchTool -----------------------------
(* internal/mcp/mcp.go: concurrent calls of web_fetch over the Fetch and the *)
(* Render cache.  The fetch itself is FetchContract, which FetchClient       *)
(* implements; the caches are the operations of CacheOps (that the loop of   *)
(* TtlCache sweeps them is invisible, see TtlCacheProofs).  The caches hold  *)
(* pointers: an entry's Cached flag is shared by all who got the entry.      *)
EXTENDS Naturals, FiniteSets

CONSTANTS
    Caller,         \* the goroutines that serve calls
    URL,            \* the URLs asked for
    Form,           \* the pairs of format and extract
    EntryId,        \* addresses of entries, reused when free
    EmptyKey,       \* no key of fetchCacheKey is the empty string
    Mode,           \* JS_RENDER
    FetchEntries,   \* places of deps.Fetch
    RenderEntries,  \* places of deps.Render
    FetchTTL,       \* FETCH_CACHE_TTL, 0 for no cache
    RenderTTL,      \* RENDER_CACHE_TTL, 0 for no cache
    MaxTime         \* bound on the clock

ASSUME ToolAssumption ==
    /\ Mode \in {"never", "auto", "always"}
    /\ {FetchEntries, RenderEntries} \subseteq Nat \ {0}
    /\ {FetchTTL, RenderTTL, MaxTime} \subseteq Nat
    /\ URL # {} /\ Form # {}

VARIABLES
    now,     \* the clock
    items,   \* items[FALSE] is deps.Fetch, items[TRUE] is deps.Render
    flag,    \* flag[i]: the Cached field of the entry at address i
    pc,      \* pc[c]: the step caller c is at
    args,    \* args[c]: the arguments of its call
    entry,   \* entry[c]: its local variable entry
    hit,     \* hit[c]: the entry came from a cache (history)
    age,     \* age[c]: how long it had been there (history)
    stage,   \* stage[c], result[c]: the state of its FetchWithOptions
    result

vars == <<now, items, flag, pc, args, entry, hit, age, stage, result>>
fetchVars == <<stage, result>>

Args == [url : URL, render : BOOLEAN, form : Form]

NoArgs == CHOOSE a \in Args : TRUE

None == [id |-> "none"]

\* fetchCacheEntry: where it lies, the page it was made of, and when Set put
\* it into a cache (history).
Entry == [id : EntryId, url : URL, form : Form, rendered : BOOLEAN, at : 0 .. MaxTime]

\* Seeded fault: both caches are made with the longer life.
LifeOfPages(render) == FetchTTL

\* The caches' ttl.
Life(render) == IF render THEN RenderTTL ELSE FetchTTL

Cache(render) == INSTANCE CacheOps WITH
    MaxEntries <- IF render THEN RenderEntries ELSE FetchEntries,
    TTL <- Life(render)

Fetch(c) == INSTANCE FetchContract WITH
    Modes <- {Mode},
    mode <- Mode,
    forced <- args[c].render,
    stage <- stage[c],
    result <- result[c]

\* Seeded fault: the conversion is left out of the key.
fetchCacheKeyNoForm(a) == <<a.url, a.render>>

fetchCacheKey(a) == <<a.url, a.render, a.form>>

\* The types of the callers' state and of the two caches: a cache holds
\* entries and nothing else ("Errors and antibot blocks are never cached",
\* README.md:266).
TypeOK ==
    /\ now \in 0 .. MaxTime
    /\ \A r \in BOOLEAN : \A k \in DOMAIN items[r] :
         items[r][k].value \in Entry /\ items[r][k].expires \in Nat
    /\ flag \in [EntryId -> BOOLEAN]
    /\ pc \in [Caller -> {"idle", "lookup", "fetch", "store", "mark", "reply"}]
    /\ args \in [Caller -> Args]
    /\ entry \in [Caller -> Entry \cup {None}]
    /\ hit \in [Caller -> BOOLEAN]
    /\ age \in [Caller -> 0 .. MaxTime]
    /\ \A c \in Caller : stage[c] \in Fetch(c)!Stages /\ result[c] \in Fetch(c)!Results

Init ==
    /\ now = 0
    /\ items = [r \in BOOLEAN |-> [k \in {} |-> 0]]
    /\ flag = [i \in EntryId |-> FALSE]
    /\ pc = [c \in Caller |-> "idle"]
    /\ args = [c \in Caller |-> NoArgs]
    /\ entry = [c \in Caller |-> None]
    /\ hit = [c \in Caller |-> FALSE]
    /\ age = [c \in Caller |-> 0]
    /\ stage = [c \in Caller |-> "done"]
    /\ result = [c \in Caller |-> "none"]

Goto(c, label) == pc' = [pc EXCEPT ![c] = label]

Elapse ==
    /\ now < MaxTime
    /\ now' = now + 1
    /\ UNCHANGED <<items, flag, pc, args, entry, hit, age, fetchVars>>

-----------------------------------------------------------------------------
(* A call: the arguments and the lookup.                                     *)

Call(c, a) ==
    /\ pc[c] = "idle"
    /\ args' = [args EXCEPT ![c] = a]
    /\ Goto(c, "lookup")
    /\ UNCHANGED <<now, items, flag, entry, hit, age, fetchVars>>

\* FetchWithOptions begins.
Miss(c) ==
    /\ Goto(c, "fetch")
    /\ stage' = [stage EXCEPT ![c] = "direct"]
    /\ UNCHANGED <<result, entry, hit, age>>

Hit(c, e) ==
    /\ Goto(c, "mark")
    /\ hit' = [hit EXCEPT ![c] = TRUE]
    /\ age' = [age EXCEPT ![c] = now - e.at]
    /\ entry' = [entry EXCEPT ![c] = e]
    /\ UNCHANGED fetchVars

Lookup(c) ==
    LET r == args[c].render
        k == fetchCacheKey(args[c])
    IN  /\ pc[c] = "lookup"
        /\ IF Life(r) # 0 /\ Cache(r)!Served(items[r], k, now)
             THEN Hit(c, items[r][k].value)
             ELSE Miss(c)
        /\ items' = IF Life(r) # 0
                      THEN [items EXCEPT ![r] = Cache(r)!AfterGet(@, k, now)]
                      ELSE items
        /\ UNCHANGED <<now, flag, args>>

\* Seeded fault: the flag is not set.
MarkHitNot(c) ==
    /\ pc[c] = "mark"
    /\ Goto(c, "reply")
    /\ UNCHANGED <<now, items, flag, args, entry, hit, age, fetchVars>>

\* entry.Cached = true, through the shared pointer and under no lock.
MarkHit(c) ==
    /\ pc[c] = "mark"
    /\ flag' = [flag EXCEPT ![entry[c].id] = TRUE]
    /\ Goto(c, "reply")
    /\ UNCHANGED <<now, items, args, entry, hit, age, fetchVars>>

-----------------------------------------------------------------------------
(* The fetch, the conversion and the Set.                                    *)

FetchStep(c) ==
    /\ pc[c] = "fetch"
    /\ \E s \in Fetch(c)!Stages, o \in Fetch(c)!Results :
         /\ stage' = [stage EXCEPT ![c] = s]
         /\ result' = [result EXCEPT ![c] = o]
    /\ UNCHANGED <<now, items, flag, pc, args, entry, hit, age>>
    /\ Fetch(c)!Next

\* An address nobody refers to.
Free(i) ==
    /\ \A r \in BOOLEAN : \A k \in DOMAIN items[r] : items[r][k].value.id # i
    /\ \A c \in Caller : entry[c].id # i

\* convertPage makes a new entry; an empty text is not stored.
Convert(c, i) ==
    /\ pc[c] = "fetch"
    /\ result[c] \in {"page", "rendered page"}
    /\ Free(i)
    /\ flag' = [flag EXCEPT ![i] = FALSE]
    /\ entry' = [entry EXCEPT ![c] =
           [id |-> i, url |-> args[c].url, form |-> args[c].form,
            rendered |-> result[c] = "rendered page", at |-> 0]]
    /\ result' = [result EXCEPT ![c] = "none"]
    /\ \E empty \in BOOLEAN :
         Goto(c, IF Life(args[c].render) # 0 /\ ~empty THEN "store" ELSE "reply")
    /\ UNCHANGED <<now, items, args, hit, age, stage>>

Store(c) ==
    LET r == args[c].render
        e == [entry[c] EXCEPT !.at = now]
    IN  /\ pc[c] = "store"
        /\ \E left \in Cache(r)!Stored(items[r], fetchCacheKey(args[c]), e, now) :
             items' = [items EXCEPT ![r] = left]
        /\ Goto(c, "reply")
        /\ UNCHANGED <<now, flag, args, entry, hit, age, fetchVars>>

-----------------------------------------------------------------------------
(* The end of a call.                                                        *)

\* The locals are gone.
Return(c) ==
    /\ Goto(c, "idle")
    /\ args' = [args EXCEPT ![c] = NoArgs]
    /\ entry' = [entry EXCEPT ![c] = None]
    /\ hit' = [hit EXCEPT ![c] = FALSE]
    /\ age' = [age EXCEPT ![c] = 0]
    /\ result' = [result EXCEPT ![c] = "none"]

\* The reply is read from the entry through the pointer, or start_index is
\* beyond its end and the call fails.
Answer(c) ==
    /\ pc[c] = "reply"
    /\ Return(c)
    /\ UNCHANGED <<now, items, flag, stage>>

\* What the reply's field cached is, when the call answers now.
CachedField(c) == flag[entry[c].id]

\* Seeded fault: the failure is stored as well.
FailIsStored(c) ==
    /\ pc[c] = "fetch"
    /\ result[c] \in {"block", "error"}
    /\ \E left \in Cache(args[c].render)!Stored(items[args[c].render],
                       fetchCacheKey(args[c]), None, now) :
         items' = [items EXCEPT ![args[c].render] = left]
    /\ Return(c)
    /\ UNCHANGED <<now, flag, stage>>

Fail(c) ==
    /\ pc[c] = "fetch"
    /\ result[c] \in {"block", "error"}
    /\ Return(c)
    /\ UNCHANGED <<now, items, flag, stage>>

Serve(c) ==
    \/ Lookup(c)
    \/ MarkHit(c)
    \/ FetchStep(c)
    \/ \E i \in EntryId : Convert(c, i)
    \/ Store(c)
    \/ Answer(c)
    \/ Fail(c)

Next ==
    \/ Elapse
    \/ \E c \in Caller, a \in Args : Call(c, a)
    \/ \E c \in Caller : Serve(c)

Spec == Init /\ [][Next]_vars

-----------------------------------------------------------------------------
(* Properties.  A caller at "reply" may answer now: what holds of it there   *)
(* holds of every reply.                                                     *)

\* A reply is about the URL asked for, in the format and extraction asked
\* for, and from the browser when that was asked for: concurrent calls that
\* share caches and entries never get one another's page.
ReplyMatchesRequest ==
    \A c \in Caller : pc[c] = "reply" =>
        /\ entry[c].url = args[c].url
        /\ entry[c].form = args[c].form
        /\ args[c].render => entry[c].rendered

\* "Cache hits carry cached: true" (README.md:266), although the flag belongs
\* to an entry that other calls use and whose cache may have dropped it.
HitSaysCached ==
    \A c \in Caller : pc[c] = "reply" /\ hit[c] => CachedField(c)

\* A hit is no older than the TTL of the cache asked for.
HitIsFresh ==
    \A c \in Caller : hit[c] =>
        age[c] <= IF args[c].render THEN RenderTTL ELSE FetchTTL

\* "Fetch and Render are separate so browser renders can use a shorter TTL
\* (cookies/profiles drift over time)" (mcp.go:26-27): a page of the browser
\* is not served after RENDER_CACHE_TTL.
RendersUseRenderTTL ==
    \A c \in Caller : hit[c] /\ entry[c].rendered => age[c] <= RenderTTL

\* "Cached bool // true when served from cache" (mcp.go:270): a reply made of
\* the call's own fetch does not claim to be cached.
MissSaysNotCached ==
    \A c \in Caller : pc[c] = "reply" /\ ~hit[c] => ~CachedField(c)
=============================================================================
