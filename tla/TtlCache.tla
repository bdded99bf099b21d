------------------------------ MODULE TtlCache ------------------------------
(* internal/cache/cache.go: callers of Get and Set, which hold Cache.mu for  *)
(* their whole length and so are one step each, interleaved with the         *)
(* goroutine evictLoop.  That one is not atomic: the ticker puts an instant  *)
(* in its channel, the loop receives it, and only later gets the lock, so it *)
(* sweeps with an instant that may be long past.                             *)
EXTENDS CacheOps

CONSTANTS
    Key,       \* the keys callers use
    Value,     \* the values they store
    NoValue,   \* Get's nil
    MaxTime    \* bound on the clock

ASSUME CacheAssumption ==
    /\ MaxEntries \in Nat \ {0}
    /\ TTL \in Nat
    /\ MaxTime \in Nat
    /\ NoValue \notin Value

VARIABLES
    items,   \* Cache.items
    now,     \* the process's monotonic clock
    reply,   \* what the last Get returned
    ticks,   \* ticker.C, a channel of one instant: {} or {instant}
    loop,    \* "select": waiting; "sweep": a tick is received; "done"
    tick,    \* the instant the loop received last (evictLoop's local now)
    closed   \* c.stop is closed

vars == <<items, now, reply, ticks, loop, tick, closed>>

Item == [value : Value, expires : Nat]
Reply == [hit : {TRUE}, value : Value] \cup [hit : {FALSE}, value : {NoValue}]

\* The fields' types and the shape of the loop's state.
TypeOK ==
    /\ DOMAIN items \subseteq Key
    /\ items \in [DOMAIN items -> Item]
    /\ now \in Nat
    /\ reply \in Reply
    /\ ticks \in SUBSET Nat
    /\ loop \in {"select", "sweep", "done"}
    /\ tick \in Nat
    /\ closed \in BOOLEAN

Init ==
    /\ items = [k \in {} |-> 0]
    /\ now = 0
    /\ reply = [hit |-> FALSE, value |-> NoValue]
    /\ ticks = {}
    /\ loop = "select"
    /\ tick = 0
    /\ closed = FALSE

Get(k) ==
    /\ reply' = IF Served(items, k, now)
                  THEN [hit |-> TRUE, value |-> items[k].value]
                  ELSE [hit |-> FALSE, value |-> NoValue]
    /\ items' = AfterGet(items, k, now)
    /\ UNCHANGED <<now, ticks, loop, tick, closed>>

Set(k, v) ==
    /\ items' \in Stored(items, k, v, now)
    /\ UNCHANGED <<now, reply, ticks, loop, tick, closed>>

Elapse ==
    /\ now < MaxTime
    /\ now' = now + 1
    /\ UNCHANGED <<items, reply, ticks, loop, tick, closed>>

\* A tick that finds the channel full is dropped by the runtime.  The ticker
\* is stopped when the loop returns.
TickerFires ==
    /\ ticks = {}
    /\ loop # "done"
    /\ ticks' = {now}
    /\ UNCHANGED <<items, now, reply, loop, tick, closed>>

\* Seeded fault: the instant is read once, before the loop.
ReceiveTickOldInstant ==
    /\ loop = "select"
    /\ ticks # {}
    /\ ticks' = {}
    /\ loop' = "sweep"
    /\ UNCHANGED <<items, now, reply, tick, closed>>

ReceiveTick ==
    /\ loop = "select"
    /\ ticks # {}
    /\ tick' \in ticks
    /\ ticks' = {}
    /\ loop' = "sweep"
    /\ UNCHANGED <<items, now, reply, closed>>

\* The lock is taken here, with the instant received earlier.
SweepExpired ==
    /\ loop = "sweep"
    /\ items' = DropExpired(items, tick)
    /\ loop' = "select"
    /\ UNCHANGED <<now, reply, ticks, tick, closed>>

\* Seeded fault: break leaves the select and not the loop.
ObserveStopBreaks ==
    /\ loop = "select"
    /\ closed
    /\ ticks' = {}
    /\ UNCHANGED <<items, now, reply, loop, tick, closed>>

\* The other case of the select; when both are ready Go picks at random.
ObserveStop ==
    /\ loop = "select"
    /\ closed
    /\ loop' = "done"
    /\ ticks' = {}
    /\ UNCHANGED <<items, now, reply, tick, closed>>

\* Close panics when called twice, so callers call it at most once.  Get and
\* Set stay usable.
Close ==
    /\ ~closed
    /\ closed' = TRUE
    /\ UNCHANGED <<items, now, reply, ticks, loop, tick>>

Next ==
    \/ \E k \in Key : Get(k)
    \/ \E k \in Key, v \in Value : Set(k, v)
    \/ Elapse
    \/ TickerFires
    \/ ReceiveTick
    \/ SweepExpired
    \/ ObserveStop
    \/ Close

\* The ticker keeps firing and the loop's goroutine keeps running; callers
\* and Close owe nothing.  A select with both cases ready picks at random, so
\* a closed stop channel is not passed over forever: strong fairness.
Fairness ==
    /\ WF_vars(TickerFires)
    /\ WF_vars(ReceiveTick)
    /\ WF_vars(SweepExpired)
    /\ SF_vars(ObserveStop)

Spec == Init /\ [][Next]_vars

FairSpec == Spec /\ Fairness

-----------------------------------------------------------------------------
(* Properties.                                                               *)

\* The size limit of New: however Set, the lazy deletions and the stale sweep
\* interleave, the map never holds more than maxEntries entries, the expired
\* ones it has not noticed included.
SizeBound == Cardinality(DOMAIN items) <= MaxEntries

\* The laziness cannot be seen: a caller of Get and Set has the store that
\* drops an entry at its time and otherwise only to make room.  In particular
\* a sweep with an old instant loses nothing, a Set evicts a live entry only
\* when maxEntries live ones are there, and Get never serves a stale value.
Store == INSTANCE LossyStore WITH
    store <- DropExpired(items, now),
    answer <- reply

RefinesLossyStore == Store!Spec

\* What the background loop is for: an expired entry nobody asks for does not
\* stay in memory, as long as the cache is not closed.
Stale(k) == k \in DOMAIN items /\ Expired(items[k], now)

SweptEventually == \A k \in Key : Stale(k) ~> (~Stale(k) \/ closed)

\* Close stops the background goroutine, though a tick may be waiting or be
\* processed when it is called.
LoopStops == closed ~> loop = "done"
=============================================================================
