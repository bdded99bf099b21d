--------------------------- MODULE TtlCacheProofs ---------------------------
(* What is proved of TtlCache for every set of keys and values, every limit, *)
(* every life and every clock: the types, the size limit (when no caller     *)
(* uses the empty key), and that the lazy cache implements LossyStore.       *)
EXTENDS TtlCache, FiniteSetTheorems, TLAPS

-----------------------------------------------------------------------------
(* The operations on the map.                                                *)

LEMMA RestrictDomainIs ==
  ASSUME NEW m, NEW S
  PROVE  /\ DOMAIN Restrict(m, S) = S
         /\ \A k \in S : Restrict(m, S)[k] = m[k]
PROOF BY DEF Restrict

IsMap(m) == DOMAIN m \subseteq Key /\ m \in [DOMAIN m -> Item]

LEMMA RestrictIsMap ==
  ASSUME NEW m, IsMap(m), NEW S \in SUBSET DOMAIN m
  PROVE  IsMap(Restrict(m, S))
PROOF BY DEF IsMap, Restrict

LEMMA LiveInDomain ==
  ASSUME NEW m, NEW t
  PROVE  Live(m, t) \subseteq DOMAIN m
PROOF BY DEF Live

LEMMA PutIsMap ==
  ASSUME NEW m, IsMap(m), NEW k \in Key, NEW it \in Item
  PROVE  /\ IsMap(Put(m, k, it))
         /\ DOMAIN Put(m, k, it) = DOMAIN m \cup {k}
PROOF BY DEF IsMap, Put

\* What is left of m after the eviction of Set: some of its entries, and
\* fewer than the limit when the key evicted cannot be the empty one.
LEMMA RoomLeaves ==
  ASSUME NEW m, IsMap(m), NEW left \in Room(m)
  PROVE  \E S \in SUBSET DOMAIN m : left = Restrict(m, S)
<1>1. CASE left = m
  <2>1. m = Restrict(m, DOMAIN m)
    BY DEF Restrict, IsMap
  <2> QED
    BY <1>1, <2>1
<1>2. ASSUME NEW k \in Oldest(m),
             left = Restrict(m, DOMAIN m \ ({k} \ {EmptyKey}))
      PROVE  \E S \in SUBSET DOMAIN m : left = Restrict(m, S)
  BY <1>2
<1> QED
  BY <1>1, <1>2 DEF Room, EvictOldest

LEMMA RoomIsMap ==
  ASSUME NEW m, IsMap(m), NEW left \in Room(m)
  PROVE  IsMap(left) /\ DOMAIN left \subseteq DOMAIN m
BY RoomLeaves, RestrictIsMap, RestrictDomainIs

LEMMA RoomBelowLimit ==
  ASSUME NEW m, IsMap(m), IsFiniteSet(DOMAIN m),
         Cardinality(DOMAIN m) <= MaxEntries,
         EmptyKey \notin Key,
         NEW left \in Room(m)
  PROVE  /\ IsFiniteSet(DOMAIN left)
         /\ Cardinality(DOMAIN left) < MaxEntries
<1>1. Cardinality(DOMAIN m) \in Nat
  BY FS_CardinalityType
<1>2. CASE Cardinality(DOMAIN m) >= MaxEntries
  <2>1. PICK k \in Oldest(m) :
          left = Restrict(m, DOMAIN m \ ({k} \ {EmptyKey}))
    BY <1>2 DEF Room, EvictOldest
  <2>2. k \in DOMAIN m /\ k # EmptyKey
    BY DEF Oldest, IsMap
  <2>3. DOMAIN left = DOMAIN m \ {k}
    BY <2>1, <2>2, RestrictDomainIs
  <2>4. /\ IsFiniteSet(DOMAIN m \ {k})
        /\ Cardinality(DOMAIN m \ {k}) = Cardinality(DOMAIN m) - 1
    BY <2>2, FS_RemoveElement
  <2> QED
    BY <2>3, <2>4, <1>1, CacheAssumption
<1>3. CASE ~(Cardinality(DOMAIN m) >= MaxEntries)
  <2>1. left = m
    BY <1>3 DEF Room
  <2> QED
    BY <2>1, <1>1, <1>3, CacheAssumption
<1> QED
  BY <1>2, <1>3

-----------------------------------------------------------------------------
(* Type correctness.                                                         *)

LEMMA TypeInit == Init => TypeOK
<1> SUFFICES ASSUME Init PROVE TypeOK
  OBVIOUS
<1>1. DOMAIN items = {} /\ items \in [{} -> Item]
  <2>1. items = [k \in {} |-> 0]
    BY DEF Init
  <2> QED
    BY <2>1
<1>2. reply \in Reply
  BY DEF Init, Reply
<1> QED
  BY <1>1, <1>2 DEF Init, TypeOK

LEMMA TypeStep == TypeOK /\ [Next]_vars => TypeOK'
<1> SUFFICES ASSUME TypeOK, [Next]_vars PROVE TypeOK'
  OBVIOUS
<1>0. IsMap(items)
  BY DEF TypeOK, IsMap
<1> USE CacheAssumption
<1>1. ASSUME NEW k \in Key, Get(k) PROVE TypeOK'
  <2>1. IsMap(items')
    <3>1. IsMap(Restrict(items, DOMAIN items \ {k}))
      BY <1>0, RestrictIsMap
    <3> QED
      BY <1>0, <1>1, <3>1 DEF Get, AfterGet
  <2>2. reply' \in Reply
    <3>1. CASE Served(items, k, now)
      <4>1. items[k].value \in Value
        BY <3>1 DEF TypeOK, Item, Served
      <4> QED
        BY <1>1, <3>1, <4>1 DEF Get, Reply
    <3>2. CASE ~Served(items, k, now)
      BY <1>1, <3>2 DEF Get, Reply
    <3> QED
      BY <3>1, <3>2
  <2> QED
    BY <1>1, <2>1, <2>2 DEF TypeOK, Get, IsMap
<1>2. ASSUME NEW k \in Key, NEW v \in Value, Set(k, v) PROVE TypeOK'
  <2> DEFINE it == [value |-> v, expires |-> now + TTL]
  <2>1. PICK left \in Room(DropExpired(items, now)) : items' = Put(left, k, it)
    BY <1>2 DEF Set, Stored
  <2>2. IsMap(DropExpired(items, now))
    BY <1>0, RestrictIsMap, LiveInDomain DEF DropExpired
  <2>3. IsMap(left)
    BY <2>2, RoomIsMap
  <2>4. it \in Item
    BY DEF TypeOK, Item
  <2>5. IsMap(items')
    BY <2>1, <2>3, <2>4, PutIsMap
  <2> QED
    BY <1>2, <2>5 DEF TypeOK, Set, IsMap
<1>3. CASE Elapse
  BY <1>3 DEF TypeOK, Elapse
<1>4. CASE TickerFires
  BY <1>4 DEF TypeOK, TickerFires
<1>5. CASE ReceiveTick
  BY <1>5 DEF TypeOK, ReceiveTick
<1>6. CASE SweepExpired
  <2>1. IsMap(items')
    BY <1>0, <1>6, RestrictIsMap, LiveInDomain DEF SweepExpired, DropExpired
  <2> QED
    BY <1>6, <2>1 DEF TypeOK, SweepExpired, IsMap
<1>7. CASE ObserveStop
  BY <1>7 DEF TypeOK, ObserveStop
<1>8. CASE Close
  BY <1>8 DEF TypeOK, Close
<1>9. CASE UNCHANGED vars
  BY <1>9 DEF TypeOK, vars
<1> QED
  BY <1>1, <1>2, <1>3, <1>4, <1>5, <1>6, <1>7, <1>8, <1>9 DEF Next

\* The cache's state always has its type: a hit carries a stored value and
\* every entry has an expiry, whatever deletions came between.
THEOREM TypeCorrect == Spec => []TypeOK
PROOF BY TypeInit, TypeStep, PTL DEF Spec

-----------------------------------------------------------------------------
(* The size limit.  The bound alone is not inductive: that a Set makes room  *)
(* by deleting one entry needs the map to be finite and within the limit.    *)

Bounded == IsFiniteSet(DOMAIN items) /\ SizeBound

LEMMA ShrinkBounded ==
  ASSUME Bounded, NEW S \in SUBSET DOMAIN items, DOMAIN items' = S
  PROVE  Bounded'
<1>1. IsFiniteSet(S) /\ Cardinality(S) <= Cardinality(DOMAIN items)
  BY FS_Subset DEF Bounded
<1>2. Cardinality(S) \in Nat /\ Cardinality(DOMAIN items) \in Nat
  BY <1>1, FS_CardinalityType DEF Bounded
<1> QED
  BY <1>1, <1>2, CacheAssumption DEF Bounded, SizeBound

LEMMA BoundInit == Init => Bounded
<1> SUFFICES ASSUME Init PROVE Bounded
  OBVIOUS
<1>1. DOMAIN items = {}
  BY DEF Init
<1> QED
  BY <1>1, FS_EmptySet, CacheAssumption DEF Bounded, SizeBound

LEMMA BoundStep ==
  ASSUME EmptyKey \notin Key, TypeOK, Bounded, [Next]_vars
  PROVE  Bounded'
<1>0. IsMap(items)
  BY DEF TypeOK, IsMap
<1>1. ASSUME NEW k \in Key, Get(k) PROVE Bounded'
  <2>1. \/ DOMAIN items' = DOMAIN items
        \/ DOMAIN items' = DOMAIN items \ {k}
    BY <1>1, RestrictDomainIs DEF Get, AfterGet
  <2> QED
    BY <2>1, ShrinkBounded
<1>2. ASSUME NEW k \in Key, NEW v \in Value, Set(k, v) PROVE Bounded'
  <2> DEFINE live == DropExpired(items, now)
             it == [value |-> v, expires |-> now + TTL]
  <2>1. PICK left \in Room(live) : items' = Put(left, k, it)
    BY <1>2 DEF Set, Stored
  <2>2. IsMap(live) /\ DOMAIN live \subseteq DOMAIN items
    BY <1>0, RestrictIsMap, RestrictDomainIs, LiveInDomain DEF DropExpired
  <2>3. IsFiniteSet(DOMAIN live) /\ Cardinality(DOMAIN live) <= MaxEntries
    <3>1. /\ IsFiniteSet(DOMAIN live)
          /\ Cardinality(DOMAIN live) <= Cardinality(DOMAIN items)
      BY <2>2, FS_Subset DEF Bounded
    <3>2. Cardinality(DOMAIN live) \in Nat /\ Cardinality(DOMAIN items) \in Nat
      BY <3>1, FS_CardinalityType DEF Bounded
    <3> QED
      BY <3>1, <3>2, CacheAssumption DEF Bounded, SizeBound
  <2>4. IsFiniteSet(DOMAIN left) /\ Cardinality(DOMAIN left) < MaxEntries
    BY <2>2, <2>3, RoomBelowLimit
  <2>5. DOMAIN items' = DOMAIN left \cup {k}
    BY <2>1 DEF Put
  <2>6. /\ IsFiniteSet(DOMAIN left \cup {k})
        /\ \/ Cardinality(DOMAIN left \cup {k}) = Cardinality(DOMAIN left)
           \/ Cardinality(DOMAIN left \cup {k}) = Cardinality(DOMAIN left) + 1
    BY <2>4, FS_AddElement
  <2>7. Cardinality(DOMAIN left) \in Nat
    BY <2>4, FS_CardinalityType
  <2> QED
    BY <2>4, <2>5, <2>6, <2>7, CacheAssumption DEF Bounded, SizeBound
<1>3. CASE SweepExpired
  <2>1. DOMAIN items' = Live(items, tick)
    BY <1>3, RestrictDomainIs DEF SweepExpired, DropExpired
  <2> QED
    BY <2>1, LiveInDomain, ShrinkBounded
<1>4. CASE UNCHANGED items
  BY <1>4, ShrinkBounded
<1> QED
  BY <1>1, <1>2, <1>3, <1>4
  DEF Next, vars, Elapse, TickerFires, ReceiveTick, ObserveStop, Close

\* The map never exceeds the limit given to New, for any limit and any use,
\* provided the empty string is not a key (evictOldest never deletes it).
THEOREM SizeLimited ==
  ASSUME EmptyKey \notin Key
  PROVE  Spec => []SizeBound
<1>1. TypeOK /\ Bounded /\ [Next]_vars => (TypeOK /\ Bounded)'
  BY TypeStep, BoundStep
<1>2. Bounded => SizeBound
  BY DEF Bounded
<1> QED
  BY <1>1, <1>2, TypeInit, BoundInit, PTL DEF Spec

-----------------------------------------------------------------------------
(* The implementation of LossyStore.  Its store is the live part of the map, *)
(* so every step is compared on DropExpired(items, now).                     *)

LEMMA LiveIs ==
  ASSUME NEW m, NEW t
  PROVE  /\ DOMAIN DropExpired(m, t) = {k \in DOMAIN m : ~(t > m[k].expires)}
         /\ \A k \in DOMAIN DropExpired(m, t) : DropExpired(m, t)[k] = m[k]
BY DEF DropExpired, Live, Expired, Restrict

\* Two functions written as restrictions are equal when they agree.
LEMMA SameRestriction ==
  ASSUME NEW m, NEW n, NEW S, NEW T, S = T, \A k \in S : m[k] = n[k]
  PROVE  Restrict(m, S) = Restrict(n, T)
BY DEF Restrict

\* Both modules use the library's Cardinality.
LEMMA SameCardinality ==
  ASSUME NEW S
  PROVE  Store!Cardinality(S) = Cardinality(S)
BY DEF Cardinality, Store!Cardinality

LEMMA RefinesInit == Init => Store!Init
<1> SUFFICES ASSUME Init PROVE Store!Init
  OBVIOUS
<1>1. DOMAIN items = {}
  BY DEF Init
<1>2. Live(items, now) = {}
  BY <1>1 DEF Live
<1>3. DropExpired(items, now) = [k \in {} |-> 0]
  BY <1>2 DEF DropExpired, Restrict
<1> QED
  BY <1>3 DEF Init, Store!Init

\* A Get, with the deletion of the entry it finds expired, is a question.
LEMMA GetRefines ==
  ASSUME TypeOK, NEW k \in Key, Get(k)
  PROVE  Store!Ask(k)
<1>1. Served(items, k, now) <=> k \in DOMAIN DropExpired(items, now)
  BY LiveIs DEF Served, Expired
<1>2. Served(items, k, now) => DropExpired(items, now)[k] = items[k]
  BY <1>1, LiveIs
<1>3. DropExpired(items', now) = DropExpired(items, now)
  <2>1. CASE Served(items, k, now)
    BY <2>1 DEF Get, AfterGet
  <2>2. CASE ~Served(items, k, now)
    <3>1. items' = Restrict(items, DOMAIN items \ {k})
      BY <2>2 DEF Get, AfterGet
    <3>2. DOMAIN items' = DOMAIN items \ {k} /\ \A j \in DOMAIN items' : items'[j] = items[j]
      BY <3>1, RestrictDomainIs
    <3>3. k \notin Live(items, now)
      BY <2>2 DEF Served, Live
    <3>4. Live(items', now) = Live(items, now)
      BY <3>2, <3>3 DEF Live, Expired
    <3>5. \A j \in Live(items', now) : items'[j] = items[j]
      BY <3>2, LiveInDomain
    <3> QED
      BY <3>4, <3>5, SameRestriction DEF DropExpired
  <2> QED
    BY <2>1, <2>2
<1>4. now' = now
  BY DEF Get
<1>5. reply' = IF k \in DOMAIN DropExpired(items, now)
                 THEN [hit |-> TRUE, value |-> DropExpired(items, now)[k].value]
                 ELSE [hit |-> FALSE, value |-> NoValue]
  BY <1>1, <1>2 DEF Get
<1> QED
  BY <1>3, <1>4, <1>5 DEF Store!Ask

\* A Set drops the expired entries, which LossyStore does not have, and
\* evicts one that LossyStore may evict.
LEMMA SetRefines ==
  ASSUME EmptyKey \notin Key, TypeOK, NEW k \in Key, NEW v \in Value, Set(k, v)
  PROVE  Store!PutValue(k, v)
<1> DEFINE live == DropExpired(items, now)
           it == [value |-> v, expires |-> now + TTL]
<1>0. IsMap(items) /\ IsMap(live)
  BY RestrictIsMap, LiveInDomain DEF TypeOK, IsMap, DropExpired
<1>1. PICK left \in Room(live) : items' = Put(left, k, it)
  BY DEF Set, Stored
<1>2. \E S \in Store!Survivors : left = Restrict(live, S) /\ S \subseteq DOMAIN live
  <2>1. CASE Cardinality(DOMAIN live) >= MaxEntries
    <3>1. PICK e \in Oldest(live) :
            left = Restrict(live, DOMAIN live \ ({e} \ {EmptyKey}))
      BY <1>1, <2>1 DEF Room, EvictOldest
    <3>2. e \in DOMAIN live /\ e # EmptyKey
      BY <1>0 DEF Oldest, IsMap
    <3>3. left = Restrict(live, DOMAIN live \ {e})
      <4>1. {e} \ {EmptyKey} = {e}
        BY <3>2
      <4> QED
        BY <3>1, <4>1
    <3>4. DOMAIN live \ {e} \in Store!Survivors
      BY <2>1, <3>1, <3>2, SameCardinality
      DEF Store!Survivors, Store!Closest, Oldest
    <3> QED
      BY <3>3, <3>4
  <2>2. CASE ~(Cardinality(DOMAIN live) >= MaxEntries)
    <3>1. left = live
      BY <1>1, <2>2 DEF Room
    <3>2. live = Restrict(live, DOMAIN live)
      BY <1>0 DEF IsMap, Restrict
    <3>3. DOMAIN live \in Store!Survivors
      BY <2>2, SameCardinality DEF Store!Survivors
    <3> QED
      BY <3>1, <3>2, <3>3
  <2> QED
    BY <2>1, <2>2
<1>3. PICK S \in Store!Survivors : left = Restrict(live, S) /\ S \subseteq DOMAIN live
  BY <1>2
<1>4. /\ DOMAIN left = S
      /\ \A j \in S : left[j] = live[j]
  BY <1>3, RestrictDomainIs
<1>5. items' = [j \in S \cup {k} |-> IF j = k THEN it ELSE live[j]]
  BY <1>1, <1>4 DEF Put
<1>6. now' = now /\ reply' = reply
  BY DEF Set
<1>7. Live(items', now) = S \cup {k}
  <2>1. DOMAIN items' = S \cup {k}
    BY <1>5
  <2>2. ~Expired(items'[k], now)
    <3>1. items'[k].expires = now + TTL
      BY <1>5
    <3> QED
      BY <3>1, CacheAssumption DEF TypeOK, Expired
  <2>3. ASSUME NEW j \in S, j # k PROVE ~Expired(items'[j], now)
    <3>1. items'[j] = items[j] /\ j \in DOMAIN live
      BY <1>3, <1>5, <2>3, LiveIs
    <3>2. j \in Live(items, now)
      BY <3>1, RestrictDomainIs DEF DropExpired
    <3> QED
      BY <3>1, <3>2 DEF Live
  <2> QED
    BY <2>1, <2>2, <2>3 DEF Live
<1>8. DropExpired(items', now) = items'
  <2>1. items' = [j \in S \cup {k} |-> items'[j]]
    BY <1>5
  <2> QED
    BY <1>7, <2>1 DEF DropExpired, Restrict
<1>9. DropExpired(items', now') =
        [j \in S \cup {k} |-> IF j = k THEN [value |-> v, expires |-> now + TTL]
                                       ELSE DropExpired(items, now)[j]]
  BY <1>5, <1>6, <1>8
<1> QED
  BY <1>3, <1>6, <1>9 DEF Store!PutValue

LEMMA ElapseRefines ==
  ASSUME TypeOK, Elapse
  PROVE  Store!Pass
<1>1. now' = now + 1 /\ items' = items /\ reply' = reply
  BY DEF Elapse
<1>2. \A j \in DOMAIN items : items[j].expires \in Nat
  BY DEF TypeOK, Item
<1>3. \A j \in DOMAIN items :
        ~Expired(items[j], now + 1) =>
          ~Expired(items[j], now) /\ now + 1 <= items[j].expires
  BY <1>2 DEF Expired, TypeOK
<1>4. Store!Fresh(now + 1) = Live(items, now + 1)
  <2>1. Store!Fresh(now + 1) =
          {j \in DOMAIN DropExpired(items, now) :
             now + 1 <= DropExpired(items, now)[j].expires}
    BY DEF Store!Fresh
  <2>2. \A j \in DOMAIN items :
          (now + 1 <= items[j].expires) <=> ~Expired(items[j], now + 1)
    BY <1>2 DEF Expired, TypeOK
  <2>3. DOMAIN DropExpired(items, now) = Live(items, now)
    BY RestrictDomainIs DEF DropExpired
  <2>4. \A j \in Live(items, now) : DropExpired(items, now)[j] = items[j]
    BY <2>3, LiveIs
  <2> QED
    BY <1>3, <2>1, <2>2, <2>3, <2>4 DEF Live
<1>5. DropExpired(items, now + 1)
        = Restrict(DropExpired(items, now), Store!Fresh(now + 1))
  <2>1. \A j \in Live(items, now + 1) : DropExpired(items, now)[j] = items[j]
    <3>1. ASSUME NEW j \in Live(items, now + 1) PROVE j \in DOMAIN DropExpired(items, now)
      <4>1. j \in DOMAIN items /\ ~Expired(items[j], now)
        BY <1>3 DEF Live
      <4> QED
        BY <4>1, LiveIs DEF Expired
    <3> QED
      BY <3>1, LiveIs
  <2> QED
    BY <1>4, <2>1, SameRestriction DEF DropExpired
<1> QED
  BY <1>1, <1>5 DEF Store!Pass, Store!Restrict, Restrict

\* The sweep works with an instant that is not later than the present, so it
\* removes nothing that LossyStore still has.
LEMMA SweepStutters ==
  ASSUME TypeOK, tick <= now, SweepExpired
  PROVE  UNCHANGED Store!vars
<1>1. now' = now /\ reply' = reply /\ items' = DropExpired(items, tick)
  BY DEF SweepExpired
<1>2. \A j \in DOMAIN items : items[j].expires \in Nat
  BY DEF TypeOK, Item
<1>3. Live(items', now) = Live(items, now)
  <2>1. /\ DOMAIN items' = {j \in DOMAIN items : ~(tick > items[j].expires)}
        /\ \A j \in DOMAIN items' : items'[j] = items[j]
    BY <1>1, LiveIs
  <2>2. \A j \in DOMAIN items : ~(now > items[j].expires) => ~(tick > items[j].expires)
    BY <1>2 DEF TypeOK
  <2> QED
    BY <2>1, <2>2 DEF Live, Expired
<1>4. \A j \in Live(items', now) : items'[j] = items[j]
  BY <1>1, LiveIs, LiveInDomain
<1>5. DropExpired(items', now) = DropExpired(items, now)
  BY <1>3, <1>4, SameRestriction DEF DropExpired
<1> QED
  BY <1>1, <1>5 DEF Store!vars

\* The instants in the channel and in the loop are not from the future: the
\* strengthening the refinement needs.
NoFutureTick == tick <= now /\ \A t \in ticks : t <= now

LEMMA NoFutureTickStep == TypeOK /\ NoFutureTick /\ [Next]_vars => NoFutureTick'
<1> SUFFICES ASSUME TypeOK, NoFutureTick, [Next]_vars PROVE NoFutureTick'
  OBVIOUS
<1>1. tick \in Nat /\ now \in Nat /\ \A t \in ticks : t \in Nat
  BY DEF TypeOK
<1>2. CASE Elapse
  BY <1>1, <1>2 DEF Elapse, NoFutureTick
<1>3. CASE TickerFires
  BY <1>1, <1>3 DEF TickerFires, NoFutureTick
<1>4. CASE ReceiveTick
  BY <1>1, <1>4 DEF ReceiveTick, NoFutureTick
<1>5. CASE ObserveStop
  BY <1>1, <1>5 DEF ObserveStop, NoFutureTick
<1>6. CASE UNCHANGED <<now, ticks, tick>>
  BY <1>6 DEF NoFutureTick
<1> QED
  BY <1>2, <1>3, <1>4, <1>5, <1>6 DEF Next, vars, Get, Set, SweepExpired, Close

\* The cache implements LossyStore for all constants: lazy deletion, the
\* sweep with an old instant and the order of a Set's deletions are invisible.
THEOREM Implements ==
  ASSUME EmptyKey \notin Key
  PROVE  Spec => RefinesLossyStore
<1>1. Init => NoFutureTick
  BY DEF Init, NoFutureTick
<1>2. ASSUME TypeOK, NoFutureTick, [Next]_vars
      PROVE  [Store!Next]_Store!vars
  <2>1. ASSUME NEW k \in Key, Get(k) PROVE Store!Next
    BY <1>2, <2>1, GetRefines DEF Store!Next
  <2>2. ASSUME NEW k \in Key, NEW v \in Value, Set(k, v) PROVE Store!Next
    BY <1>2, <2>2, SetRefines DEF Store!Next
  <2>3. CASE Elapse
    BY <1>2, <2>3, ElapseRefines DEF Store!Next
  <2>4. CASE SweepExpired
    BY <1>2, <2>4, SweepStutters DEF NoFutureTick
  <2>5. CASE UNCHANGED <<items, now, reply>>
    BY <2>5 DEF Store!vars
  <2> QED
    BY <1>2, <2>1, <2>2, <2>3, <2>4, <2>5
    DEF Next, vars, TickerFires, ReceiveTick, ObserveStop, Close
<1>3. TypeOK /\ NoFutureTick /\ [Next]_vars => (TypeOK /\ NoFutureTick)'
  BY TypeStep, NoFutureTickStep
<1> QED
  BY <1>1, <1>2, <1>3, TypeInit, RefinesInit, PTL
  DEF Spec, RefinesLossyStore, Store!Spec

=============================================================================
