--------------------------- MODULE FetchToolProofs --------------------------
(* What is proved of FetchTool for every set of callers, URLs, formats and   *)
(* addresses, every size and life of the two caches, and every clock: the    *)
(* types, that a reply is about the page asked for, that a hit says so and   *)
(* that it is no older than the life of the cache asked for.                 *)
EXTENDS FetchTool, TLAPS

-----------------------------------------------------------------------------
(* The inductive invariant.                                                  *)

\* The entry is an answer to a call with these arguments.
Suits(e, a) ==
    /\ e.url = a.url
    /\ e.form = a.form
    /\ a.render => e.rendered

\* Every entry of a cache lies under the key of calls that it answers, and
\* expires one life of that cache after it was made.
Sound(r, m, t) ==
    \A k \in DOMAIN m :
        /\ m[k].value \in Entry
        /\ m[k].value.at <= t
        /\ m[k].expires = m[k].value.at + Life(r)
        /\ \E a \in Args : k = fetchCacheKey(a) /\ a.render = r /\ Suits(m[k].value, a)

CachesSound ==
    /\ items = [r \in BOOLEAN |-> items[r]]
    /\ \A r \in BOOLEAN : Sound(r, items[r], now)

\* A call has a page only while it fetches, and a call for the browser none of
\* a plain request.
FetchSound ==
    /\ stage \in [Caller -> {"direct", "render", "done"}]
    /\ result \in [Caller -> {"none", "page", "rendered page", "block", "error"}]
    /\ \A c \in Caller :
         IF pc[c] = "fetch" THEN args[c].render => result[c] # "page" ELSE result[c] = "none"

\* What a call holds answers it.
EntrySound ==
    \A c \in Caller :
        pc[c] \in {"mark", "store", "reply"} => entry[c] \in Entry /\ Suits(entry[c], args[c])

\* Only a call that found an entry is a hit; its entry is fresh and, once
\* marked, keeps the mark: its address is not free for another entry.
HitSound ==
    \A c \in Caller : hit[c] =>
        /\ pc[c] \in {"mark", "reply"}
        /\ age[c] <= Life(args[c].render)
        /\ pc[c] = "reply" => flag[entry[c].id]

IInv == TypeOK /\ CachesSound /\ FetchSound /\ EntrySound /\ HitSound

-----------------------------------------------------------------------------
(* The operations on a cache.                                                *)

LEMMA LifeIsNat ==
  ASSUME NEW r \in BOOLEAN
  PROVE  Life(r) \in Nat
BY ToolAssumption DEF Life

LEMMA ArgsNotEmpty == NoArgs \in Args
<1>1. \E a \in Args : TRUE
  <2>1. PICK u \in URL, f \in Form : TRUE
    BY ToolAssumption
  <2>2. [url |-> u, render |-> FALSE, form |-> f] \in Args
    BY DEF Args
  <2> QED
    BY <2>2
<1> QED
  BY <1>1 DEF NoArgs

\* Entries are only dropped.
LEMMA AfterGetSound ==
  ASSUME NEW r \in BOOLEAN, NEW m, NEW t, Sound(r, m, t), NEW k
  PROVE  Sound(r, Cache(r)!AfterGet(m, k, t), t)
BY DEF Cache!AfterGet, Cache!Restrict, Sound

\* What Set leaves is its new entry and some of the old ones.
LEMMA StoredIs ==
  ASSUME NEW r \in BOOLEAN, NEW m, NEW k, NEW v, NEW t,
         NEW left \in Cache(r)!Stored(m, k, v, t), NEW j \in DOMAIN left
  PROVE  IF j = k THEN left[j] = [value |-> v, expires |-> t + Life(r)]
                  ELSE j \in DOMAIN m /\ left[j] = m[j]
<1> DEFINE live == Cache(r)!DropExpired(m, t)
<1>1. DOMAIN live \subseteq DOMAIN m /\ \A x \in DOMAIN live : live[x] = m[x]
  BY DEF Cache!DropExpired, Cache!Restrict, Cache!Live
<1>2. PICK rest \in Cache(r)!Room(live) :
        left = Cache(r)!Put(rest, k, [value |-> v, expires |-> t + Life(r)])
  BY DEF Cache!Stored
<1> HIDE DEF live
<1>3. DOMAIN rest \subseteq DOMAIN live /\ \A x \in DOMAIN rest : rest[x] = live[x]
  BY DEF Cache!Room, Cache!EvictOldest, Cache!Restrict
<1> QED
  BY <1>1, <1>2, <1>3 DEF Cache!Put

LEMMA StoredSound ==
  ASSUME NEW r \in BOOLEAN, NEW m, NEW t, Sound(r, m, t),
         NEW a \in Args, a.render = r,
         NEW e \in Entry, e.at = t, e.at <= t, Suits(e, a),
         NEW left \in Cache(r)!Stored(m, fetchCacheKey(a), e, t)
  PROVE  Sound(r, left, t)
<1> SUFFICES ASSUME NEW j \in DOMAIN left
             PROVE  /\ left[j].value \in Entry
                    /\ left[j].value.at <= t
                    /\ left[j].expires = left[j].value.at + Life(r)
                    /\ \E b \in Args : /\ j = fetchCacheKey(b)
                                       /\ b.render = r
                                       /\ Suits(left[j].value, b)
  BY DEF Sound
<1>1. CASE j = fetchCacheKey(a)
  <2>1. left[j] = [value |-> e, expires |-> t + Life(r)]
    BY <1>1, StoredIs
  <2> QED
    BY <1>1, <2>1
<1>2. CASE j # fetchCacheKey(a)
  <2>1. j \in DOMAIN m /\ left[j] = m[j]
    BY <1>2, StoredIs
  <2> QED
    BY <2>1 DEF Sound
<1> QED
  BY <1>1, <1>2

\* A key tells the calls apart.
LEMMA KeyIsInjective ==
  ASSUME NEW a \in Args, NEW b \in Args, fetchCacheKey(a) = fetchCacheKey(b)
  PROVE  a = b
BY DEF fetchCacheKey, Args

-----------------------------------------------------------------------------
(* The invariant is kept, action by action.                                  *)

LEMMA InitIInv == Init => IInv
<1> SUFFICES ASSUME Init
             PROVE  IInv
  OBVIOUS
<1>1. TypeOK
  BY ArgsNotEmpty, ToolAssumption DEF Init, TypeOK, Fetch!Stages, Fetch!Results
<1>2. CachesSound
  BY DEF Init, CachesSound, Sound
<1>3. FetchSound /\ EntrySound /\ HitSound
  BY DEF Init, FetchSound, EntrySound, HitSound
<1> QED
  BY <1>1, <1>2, <1>3 DEF IInv

LEMMA ElapseKeeps ==
  ASSUME IInv, Elapse
  PROVE  IInv'
<1> USE DEF IInv, Elapse, fetchVars
<1>1. now \in Nat /\ now + 1 \in 0 .. MaxTime
  BY ToolAssumption DEF TypeOK
<1>2. TypeOK'
  BY <1>1 DEF TypeOK, Fetch!Stages, Fetch!Results
<1>3. CachesSound'
  <2>1. ASSUME NEW r \in BOOLEAN
        PROVE  Sound(r, items[r], now + 1)
    BY <1>1 DEF CachesSound, Sound, Entry
  <2> QED
    BY <2>1 DEF CachesSound
<1>4. FetchSound' /\ EntrySound' /\ HitSound'
  BY DEF FetchSound, EntrySound, HitSound, Life
<1> QED
  BY <1>2, <1>3, <1>4

LEMMA CallKeeps ==
  ASSUME IInv, NEW c \in Caller, NEW a \in Args, Call(c, a)
  PROVE  IInv'
<1> USE DEF IInv, Call, Goto, fetchVars
<1>1. TypeOK'
  BY DEF TypeOK, Fetch!Stages, Fetch!Results
<1>2. CachesSound'
  BY DEF CachesSound, Sound
<1>3. FetchSound' /\ EntrySound' /\ HitSound'
  BY DEF TypeOK, FetchSound, EntrySound, HitSound
<1> QED
  BY <1>1, <1>2, <1>3

LEMMA LookupKeeps ==
  ASSUME IInv, NEW c \in Caller, Lookup(c)
  PROVE  IInv'
<1> DEFINE r == args[c].render
           k == fetchCacheKey(args[c])
<1>1. r \in BOOLEAN /\ args[c] \in Args
  BY DEF IInv, TypeOK, Args
<1>2. CachesSound'
  <2>1. Sound(r, items[r], now) /\ items = [q \in BOOLEAN |-> items[q]]
    BY <1>1 DEF IInv, CachesSound
  <2>2. Sound(r, Cache(r)!AfterGet(items[r], k, now), now)
    BY <1>1, <2>1, AfterGetSound
  <2>3. \/ items' = items
        \/ items' = [items EXCEPT ![r] = Cache(r)!AfterGet(items[r], k, now)]
    BY DEF Lookup
  <2>4. now' = now
    BY DEF Lookup
  <2> HIDE DEF r, k
  <2>5. \A q \in BOOLEAN : Sound(q, items'[q], now)
    BY <1>1, <2>1, <2>2, <2>3 DEF IInv, CachesSound
  <2> QED
    BY <2>1, <2>3, <2>4, <2>5 DEF CachesSound
<1>3. CASE Life(r) # 0 /\ Cache(r)!Served(items[r], k, now)
  <2> DEFINE e == items[r][k].value
  <2>1. k \in DOMAIN items[r] /\ now <= items[r][k].expires
    <3>1. k \in DOMAIN items[r] /\ ~(now > items[r][k].expires)
      BY <1>3 DEF Cache!Served, Cache!Expired
    <3>2. Sound(r, items[r], now) /\ now \in Nat
      BY <1>1, ToolAssumption DEF IInv, CachesSound, TypeOK
    <3>3. items[r][k].expires \in Nat
      BY <1>1, <3>1, LifeIsNat DEF IInv, TypeOK
    <3> QED
      BY <3>1, <3>2, <3>3
  <2>2. e \in Entry /\ e.at <= now /\ now - e.at <= Life(r) /\ Suits(e, args[c])
    <3>1. Sound(r, items[r], now)
      BY <1>1 DEF IInv, CachesSound
    <3>2. /\ e \in Entry
          /\ e.at <= now
          /\ items[r][k].expires = e.at + Life(r)
          /\ \E a \in Args : k = fetchCacheKey(a) /\ a.render = r /\ Suits(e, a)
      BY <2>1, <3>1 DEF Sound
    <3>3. Suits(e, args[c])
      BY <1>1, <3>2, KeyIsInjective
    <3>4. now \in Nat /\ e.at \in Nat /\ Life(r) \in Nat
      BY <1>1, <3>2, LifeIsNat DEF IInv, TypeOK, Entry
    <3> QED
      BY <2>1, <3>2, <3>3, <3>4
  <2>3. now - e.at \in 0 .. MaxTime
    BY <2>2, ToolAssumption DEF IInv, TypeOK, Entry
  <2>4. Hit(c, e) /\ UNCHANGED <<now, flag, args>>
    BY <1>3 DEF Lookup
  <2> HIDE DEF r, k, e
  <2>5. TypeOK'
    <3>1. \A q \in BOOLEAN : \A j \in DOMAIN items'[q] :
            items'[q][j].value \in Entry /\ items'[q][j].expires \in Nat
      BY <1>2, LifeIsNat DEF CachesSound, Sound, Entry
    <3> QED
      BY <2>2, <2>3, <2>4, <3>1 DEF IInv, TypeOK, Hit, Goto, fetchVars, Fetch!Stages, Fetch!Results
  <2>6. FetchSound'
    BY <2>4 DEF IInv, TypeOK, FetchSound, Hit, Goto, fetchVars, Lookup
  <2>7. EntrySound'
    BY <2>2, <2>4 DEF IInv, TypeOK, EntrySound, Hit, Goto
  <2>8. HitSound'
    BY <2>2, <2>4 DEF IInv, TypeOK, HitSound, Hit, Goto, r
  <2> QED
    BY <1>2, <2>5, <2>6, <2>7, <2>8 DEF IInv
<1>4. CASE ~(Life(r) # 0 /\ Cache(r)!Served(items[r], k, now))
  <2>1. Miss(c) /\ UNCHANGED <<now, flag, args>> /\ pc[c] = "lookup"
    BY <1>4 DEF Lookup
  <2> HIDE DEF r, k
  <2>2. TypeOK'
    <3>1. \A q \in BOOLEAN : \A j \in DOMAIN items'[q] :
            items'[q][j].value \in Entry /\ items'[q][j].expires \in Nat
      BY <1>2, LifeIsNat DEF CachesSound, Sound, Entry
    <3> QED
      BY <2>1, <3>1 DEF IInv, TypeOK, FetchSound, Miss, Goto, Fetch!Stages, Fetch!Results
  <2>3. FetchSound'
    BY <2>1 DEF IInv, TypeOK, FetchSound, Miss, Goto
  <2>4. EntrySound' /\ HitSound'
    BY <2>1 DEF IInv, TypeOK, EntrySound, HitSound, Miss, Goto
  <2> QED
    BY <1>2, <2>2, <2>3, <2>4 DEF IInv
<1> QED
  BY <1>3, <1>4

LEMMA MarkHitKeeps ==
  ASSUME IInv, NEW c \in Caller, MarkHit(c)
  PROVE  IInv'
<1> USE DEF IInv, MarkHit, Goto, fetchVars
<1>1. TypeOK'
  BY DEF TypeOK, Fetch!Stages, Fetch!Results
<1>2. CachesSound'
  BY DEF CachesSound, Sound
<1>3. FetchSound' /\ EntrySound'
  BY DEF TypeOK, FetchSound, EntrySound
<1>4. HitSound'
  BY DEF TypeOK, HitSound, EntrySound, Entry
<1> QED
  BY <1>1, <1>2, <1>3, <1>4

LEMMA FetchStepKeeps ==
  ASSUME IInv, NEW c \in Caller, FetchStep(c)
  PROVE  IInv'
<1> USE DEF IInv
<1>1. UNCHANGED <<now, items, flag, pc, args, entry, hit, age>> /\ pc[c] = "fetch"
  BY DEF FetchStep
<1>2. PICK s \in Fetch(c)!Stages, o \in Fetch(c)!Results :
        /\ stage' = [stage EXCEPT ![c] = s]
        /\ result' = [result EXCEPT ![c] = o]
  BY DEF FetchStep
<1>3. args[c].render => result'[c] # "page"
  <2>1. Fetch(c)!Next
    BY DEF FetchStep
  <2> QED
    BY <1>1, <2>1 DEF FetchSound, Fetch!Next, Fetch!DirectPage, Fetch!DirectFails,
       Fetch!UseBrowser, Fetch!BrowserEnds, Fetch!BrowserOnly
<1>4. FetchSound'
  BY <1>1, <1>2, <1>3 DEF FetchSound, TypeOK, Fetch!Stages, Fetch!Results
<1>5. TypeOK'
  BY <1>1, <1>2, <1>4 DEF FetchSound, TypeOK, Fetch!Stages, Fetch!Results
<1>6. CachesSound'
  BY <1>1 DEF CachesSound, Sound
<1>7. EntrySound' /\ HitSound'
  BY <1>1 DEF EntrySound, HitSound
<1> QED
  BY <1>4, <1>5, <1>6, <1>7

LEMMA ConvertKeeps ==
  ASSUME IInv, NEW c \in Caller, NEW i \in EntryId, Convert(c, i)
  PROVE  IInv'
<1> USE DEF IInv
<1> DEFINE e == [id |-> i, url |-> args[c].url, form |-> args[c].form,
                 rendered |-> result[c] = "rendered page", at |-> 0]
<1>1. UNCHANGED <<now, items, args, hit, age, stage>>
  BY DEF Convert
<1>2. /\ pc[c] = "fetch"
      /\ result[c] \in {"page", "rendered page"}
      /\ flag' = [flag EXCEPT ![i] = FALSE]
      /\ entry' = [entry EXCEPT ![c] = e]
      /\ result' = [result EXCEPT ![c] = "none"]
  BY DEF Convert
<1>3. PICK label \in {"store", "reply"} : pc' = [pc EXCEPT ![c] = label]
  BY DEF Convert, Goto
<1>4. args[c] \in Args /\ e \in Entry /\ Suits(e, args[c])
  <2>1. args[c] \in Args /\ 0 \in 0 .. MaxTime
    BY ToolAssumption DEF TypeOK
  <2>2. e \in Entry
    BY <2>1 DEF Args, Entry
  <2>3. args[c].render => result[c] = "rendered page"
    BY <1>2 DEF FetchSound
  <2>4. Suits(e, args[c])
    BY <2>3 DEF Suits
  <2> QED
    BY <2>1, <2>2, <2>4
<1> HIDE DEF e
<1>5. TypeOK'
  BY <1>1, <1>2, <1>3, <1>4 DEF TypeOK, FetchSound, Fetch!Stages, Fetch!Results
<1>6. CachesSound'
  BY <1>1 DEF CachesSound, Sound
<1>7. FetchSound' /\ EntrySound'
  BY <1>1, <1>2, <1>3, <1>4 DEF TypeOK, FetchSound, EntrySound
<1>8. HitSound'
  <2>1. \A d \in Caller : entry[d].id # i
    BY DEF Convert, Free
  <2> QED
    BY <1>1, <1>2, <1>3, <2>1 DEF TypeOK, HitSound, EntrySound, Entry
<1> QED
  BY <1>5, <1>6, <1>7, <1>8

LEMMA StoreKeeps ==
  ASSUME IInv, NEW c \in Caller, Store(c)
  PROVE  IInv'
<1> USE DEF IInv
<1> DEFINE r == args[c].render
           e == [entry[c] EXCEPT !.at = now]
<1>1. UNCHANGED <<now, flag, args, entry, hit, age, stage, result>>
  BY DEF Store, fetchVars
<1>2. pc[c] = "store" /\ pc' = [pc EXCEPT ![c] = "reply"]
  BY DEF Store, Goto
<1>3. PICK left \in Cache(r)!Stored(items[r], fetchCacheKey(args[c]), e, now) :
        items' = [items EXCEPT ![r] = left]
  BY DEF Store
<1>4. /\ r \in BOOLEAN /\ args[c] \in Args /\ now \in 0 .. MaxTime
      /\ entry[c] \in Entry /\ Suits(entry[c], args[c])
  BY <1>2 DEF TypeOK, Args, EntrySound
<1>5. e \in Entry /\ e.at = now /\ e.at <= now /\ Suits(e, args[c])
  BY <1>4, ToolAssumption DEF Entry, Suits
<1>6. Sound(r, left, now)
  <2>1. Sound(r, items[r], now)
    BY <1>4 DEF CachesSound
  <2> HIDE DEF e
  <2> QED
    BY <1>3, <1>4, <1>5, <2>1, StoredSound
<1> HIDE DEF r, e
<1>7. CachesSound'
  <2>1. \A q \in BOOLEAN : Sound(q, items'[q], now)
    BY <1>3, <1>4, <1>6 DEF CachesSound
  <2> QED
    BY <1>1, <1>3, <2>1 DEF CachesSound
<1>8. TypeOK'
  <2>1. \A q \in BOOLEAN : \A j \in DOMAIN items'[q] :
          items'[q][j].value \in Entry /\ items'[q][j].expires \in Nat
    BY <1>7, LifeIsNat DEF CachesSound, Sound, Entry
  <2> QED
    BY <1>1, <1>2, <2>1 DEF TypeOK, FetchSound, Fetch!Stages, Fetch!Results
<1>9. FetchSound' /\ EntrySound' /\ HitSound'
  BY <1>1, <1>2 DEF TypeOK, FetchSound, EntrySound, HitSound
<1> QED
  BY <1>7, <1>8, <1>9

LEMMA ReturnKeeps ==
  ASSUME IInv, NEW c \in Caller, Return(c), UNCHANGED <<now, items, flag, stage>>
  PROVE  IInv'
<1> USE DEF IInv, Return, Goto
<1>1. TypeOK'
  <2>1. /\ pc' \in [Caller -> {"idle", "lookup", "fetch", "store", "mark", "reply"}]
        /\ args' \in [Caller -> Args]
        /\ entry' \in [Caller -> Entry \cup {None}]
        /\ hit' \in [Caller -> BOOLEAN]
    BY ArgsNotEmpty DEF TypeOK
  <2>2. age' \in [Caller -> 0 .. MaxTime]
    BY ToolAssumption DEF TypeOK
  <2>3. \A d \in Caller : stage'[d] \in Fetch(d)!Stages /\ result'[d] \in Fetch(d)!Results
    BY DEF FetchSound, Fetch!Stages, Fetch!Results
  <2> QED
    BY <2>1, <2>2, <2>3 DEF TypeOK, Fetch!Stages, Fetch!Results
<1>2. CachesSound'
  BY DEF CachesSound, Sound
<1>3. FetchSound' /\ EntrySound' /\ HitSound'
  BY DEF TypeOK, FetchSound, EntrySound, HitSound
<1> QED
  BY <1>1, <1>2, <1>3

LEMMA NextKeeps == IInv /\ [Next]_vars => IInv'
<1> SUFFICES ASSUME IInv, [Next]_vars
             PROVE  IInv'
  OBVIOUS
<1>1. CASE Elapse
  BY <1>1, ElapseKeeps
<1>2. ASSUME NEW c \in Caller, NEW a \in Args, Call(c, a)
      PROVE  IInv'
  BY <1>2, CallKeeps
<1>3. ASSUME NEW c \in Caller, Serve(c)
      PROVE  IInv'
  <2>1. CASE Lookup(c)
    BY <2>1, LookupKeeps
  <2>2. CASE MarkHit(c)
    BY <2>2, MarkHitKeeps
  <2>3. CASE FetchStep(c)
    BY <2>3, FetchStepKeeps
  <2>4. ASSUME NEW i \in EntryId, Convert(c, i)
        PROVE  IInv'
    BY <2>4, ConvertKeeps
  <2>5. CASE Store(c)
    BY <2>5, StoreKeeps
  <2>6. CASE Answer(c) \/ Fail(c)
    BY <2>6, ReturnKeeps DEF Answer, Fail
  <2> QED
    BY <1>3, <2>1, <2>2, <2>3, <2>4, <2>5, <2>6 DEF Serve
<1>4. CASE UNCHANGED vars
  BY <1>4 DEF vars, IInv, TypeOK, CachesSound, Sound, FetchSound, EntrySound, HitSound,
     Fetch!Stages, Fetch!Results
<1> QED
  BY <1>1, <1>2, <1>3, <1>4 DEF Next

LEMMA Inductive == Spec => []IInv
<1> QED
  BY InitIInv, NextKeeps, PTL DEF Spec

-----------------------------------------------------------------------------
(* What follows from it.                                                     *)

\* The caches hold entries and nothing else, whatever the calls do at once:
\* no error and no block is ever stored (TypeOK).
THEOREM TypeCorrect == Spec => []TypeOK
<1>1. IInv => TypeOK
  BY DEF IInv
<1> QED
  BY <1>1, Inductive, PTL

\* Calls that share the caches and their entries never get one another's page:
\* every reply is about the URL, the format and the extraction asked for, and
\* from the browser when that was asked for.
THEOREM NoCallGetsAnothersPage == Spec => []ReplyMatchesRequest
<1>1. IInv => ReplyMatchesRequest
  BY DEF IInv, EntrySound, Suits, ReplyMatchesRequest
<1> QED
  BY <1>1, Inductive, PTL

\* A call served from a cache says so, although it reads the flag of an entry
\* that others read and write and whose address is used again: the call's own
\* reference keeps the address.
THEOREM EveryHitSaysCached == Spec => []HitSaysCached
<1>1. IInv => HitSaysCached
  BY DEF IInv, HitSound, HitSaysCached, CachedField
<1> QED
  BY <1>1, Inductive, PTL

\* No call is served a page that was stored longer ago than the life of the
\* cache it asked.
THEOREM EveryHitIsFresh == Spec => []HitIsFresh
<1>1. IInv => HitIsFresh
  BY DEF IInv, HitSound, HitIsFresh, Life
<1> QED
  BY <1>1, Inductive, PTL

\* If FETCH_CACHE_TTL is no longer than RENDER_CACHE_TTL no rendered page is
\* served longer than a render may be, although mode auto puts it into the Fetch
\* cache (mcp.go:209): RendersUseRenderTTL fails only because the one may be
\* longer than the other.
THEOREM ShortFetchTTLKeepsRendersFresh ==
  ASSUME FetchTTL <= RenderTTL
  PROVE  Spec => []RendersUseRenderTTL
<1>1. IInv => RendersUseRenderTTL
  <2> SUFFICES ASSUME IInv, NEW c \in Caller, hit[c]
               PROVE  age[c] <= RenderTTL
    BY DEF RendersUseRenderTTL
  <2>1. age[c] \in Nat /\ age[c] <= Life(args[c].render)
    BY DEF IInv, HitSound, TypeOK
  <2> QED
    BY <2>1, ToolAssumption DEF Life
<1> QED
  BY <1>1, Inductive, PTL
=============================================================================
