------------------------------ MODULE CacheOps ------------------------------
(* The data operations of internal/cache/cache.go on one map of entries.     *)
(* A cache is a partial function from keys to [value, expires]; an instant   *)
(* is a natural number.  TtlCache drives these operations from concurrent    *)
(* callers and the background loop; FetchTool has two caches made of them.   *)
EXTENDS Naturals, FiniteSets, Functions

CONSTANTS
    EmptyKey,    \* the string "", which evictOldest uses for "nothing found"
    MaxEntries,  \* Cache.maxEntries, after New's default
    TTL          \* Cache.ttl

\* now.After(it.expires)
Expired(it, t) == t > it.expires

Live(items, t) == {k \in DOMAIN items : ~Expired(items[k], t)}

\* The loop over the map in Set and in evictLoop.
DropExpired(items, t) == Restrict(items, Live(items, t))

\* Seeded fault: the scan keeps the entry furthest from expiring.
OldestFurthest(items) ==
    {k \in DOMAIN items :
        \A j \in DOMAIN items : items[k].expires >= items[j].expires}

\* The keys the scan of evictOldest may end on: ties are broken by the order
\* of the map's iteration, which Go leaves open.
Oldest(items) ==
    {k \in DOMAIN items :
        \A j \in DOMAIN items : items[k].expires <= items[j].expires}

\* evictOldest: what may be left of items.  The empty key is never deleted.
EvictOldest(items) ==
    {Restrict(items, DOMAIN items \ ({k} \ {EmptyKey})) : k \in Oldest(items)}

Put(items, k, it) ==
    [j \in DOMAIN items \cup {k} |-> IF j = k THEN it ELSE items[j]]

\* Seeded fault: off by one in the test of the limit.
RoomOneTooLate(items) ==
    IF Cardinality(DOMAIN items) > MaxEntries
      THEN EvictOldest(items)
      ELSE {items}

\* The eviction of Set, after the expired entries are dropped.
Room(items) ==
    IF Cardinality(DOMAIN items) >= MaxEntries
      THEN EvictOldest(items)
      ELSE {items}

\* Set: the maps it may leave.
Stored(items, k, v, t) ==
    {Put(left, k, [value |-> v, expires |-> t + TTL]) :
        left \in Room(DropExpired(items, t))}

\* Seeded fault: an entry is served until something sweeps it.
ServedUntilSwept(items, k, t) == k \in DOMAIN items

\* Get: whether k is served, and what is left of the map (an entry found
\* expired is deleted on the way).
Served(items, k, t) == k \in DOMAIN items /\ ~Expired(items[k], t)

AfterGet(items, k, t) ==
    IF Served(items, k, t) THEN items ELSE Restrict(items, DOMAIN items \ {k})
=============================================================================
