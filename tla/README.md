# A verification development for web-fetch-server

TLA+ models of the concurrent and stateful core of the server, TLC
configurations that check them on small instances, and TLAPS proofs for all
instances. `PROJECT.json` maps every definition to the lines it models; line
numbers below are those of the files under `src/`.

Contents: [1 the system](#1-the-system), [2 the modules](#2-the-modules),
[3 the runs](#3-the-runs), [4 the disagreements found](#4-where-the-code-and-its-documentation-disagree),
[5 the proofs](#5-the-proofs), [6 not modelled](#6-what-is-not-modelled),
[7 the plan](#7-the-plan).

## 1. The system

An MCP server with two tools. `web_search` asks a SearXNG instance and reranks
its results; `web_fetch` gets a page, directly or through a headless browser,
and converts it to text. Requests are served by concurrent goroutines.

| component | state it keeps | operations | hard parts |
|---|---|---|---|
| TTL cache `cache/cache.go` | map of entries under a mutex, a background goroutine | Get, Set, Len, Close, `evictLoop` | sweep with a stale instant; eviction at the limit; stopping the goroutine |
| render pool `fetch/render.go`, `fetch/session.go` | lazily made manager, workers with slot, mutex and browser, profile directories on disk | Render, Close | two locks, a slot channel, browsers that crash, deadlines, Close while renders run, profiles that outlive the process |
| render in a tab `fetch/session.go`, `fetch/render.go` | per render: the tab, its document | `renderInTab`, `waitChallenge` | a page that goes on between two calls |
| stealth script `fetch/stealth/stealth.js` | per document: what it replaced | one evaluation | blocks that throw; proxies on proxies |
| block detection `fetch/detect.go` | none | `classifyPage`, `classifyStatus` | precedence and size caps that interact |
| fetch client `fetch/fetch.go` | HTTP clients; per call: attempt, budget, contexts | `FetchWithOptions` | retries within budgets, delays in machine integers, a deadline at any step, body caps, fallback to the browser |
| `web_fetch` `mcp/mcp.go` | two caches of shared entries | the handler, `convertPage` | entries shared by pointer; keys; which cache |
| `web_search` `mcp/mcp.go`, `search/search.go` | one cache | the handler, `SearchIn`, dedup | key not injective; truncation before ranking |
| reranker `rerank/*.go` | none | RRF, semantic vote | ties, partial answers |
| content `content/*.go` | none | conversion, `Chunk` | window arithmetic |
| network guard `security/network.go` | none | `ResolveAndValidateHost` | - |
| server `cmd/server/main.go`, `config/config.go` | none after start | authentication, request log | a cap on the logged body that is also a cap on the request |

How they interact: the `web_fetch` handler asks the cache chosen by the
argument `render`; on a miss it calls `FetchWithOptions`, which makes up to two
direct requests per budget, classifies what comes back, and may call
`chromeRenderer.Render`; the page is converted and stored. The caches, the
render pool and the cookie jar are the only state that calls share.

What makes each part correct:

- cache: what a caller sees is a store in which an entry disappears at its time
  and otherwise only to make room; the limit holds; nothing stale stays for ever.
- pool: one render per worker, one browser per profile, no browser that nobody
  can end, no cookies of an earlier run; renders and Close return.
- tab: the script runs before the page, its patches print as the engine's, a
  challenge is never content, the render ends.
- detection: more evidence never weakens a verdict.
- client: only readable content comes back; requests are bounded; a refusal has
  its kind; the mode decides about the browser; no server holds the call beyond
  its timeouts.
- tool: a reply is what was asked for, says whether it was cached, and is no
  older than its cache allows; a document read in chunks is read whole.
- search: a reply is one answer of SearXNG to the search asked for, first pages
  first found, none lost to the reranker.
- reranker: who is better in everything is not behind; signals that know nothing
  change nothing.

The hazards, each at its line and with the properties that cover it, are in
`PROJECT.json` under `hazards`.

## 2. The modules

```
LossyStore <--implements-- TtlCache --extends--> CacheOps <--instance-- FetchTool
                                                   ^  ^                     |
                                  Paging ----------+  +--- SearchTool       |
                                    |                        |              |
                                 extends                  extends           |
                                    v                        v              |
                                  Chunk                   Rerank <-- RerankCheck
                                    |                                       |
                                 extends                                    |
                                    v                                       |
                                MachineInt <--extends-- FetchClient         |
                                                          |   |             |
FetchContract <-------implements--------------------------+   | extends     |
      ^----------------------------instance------------------ | ------------+
                                                              v
DetectCheck --extends--> Detect <--extends-- RenderTab --extends--> Stealth
RenderPool (RenderTab is its steps TabCompletes and TabFails;
            FetchClient sees it as the one step RenderEnds)
```

**CacheOps** - the operations on one map, as pure operators: `DropExpired`,
`EvictOldest`, `Stored` (Set), `Served` and `AfterGet` (Get). Where Go's map
iteration decides (ties in `evictOldest`), an operator gives the set of possible
results.

**TtlCache** - the cache with concurrent callers. `Get` and `Set` hold the
mutex for their whole length and are one step each. `evictLoop` is not atomic:
`TickerFires` puts an instant in the ticker's channel, `ReceiveTick` takes it,
`SweepExpired` gets the lock later and sweeps with that old instant. When a tick
and the closed stop channel are both ready Go picks one at random, so
`ObserveStop` and `ReceiveTick` compete.

**LossyStore** - what the cache promises without its laziness.

**RenderPool** - `chromeRenderer`, its managers, their workers. A caller's `pc`
runs through `get` (sessionManager), `pick` (the check of closed and the round
robin), `wait` (the select on the slot), `ensure`, `boot` and `booting` (under
`w.mu`), `tab` (renderInTab). `handle[w]` is the process behind
`w.browserCtx`, `lost` the processes whose context has ended, `running` the ones
alive: a crashed browser is not yet noticed, and a lost one may still run for a
moment, as with chromedp. `Restart` ends the server process: everything goes
but the profile directories. A worker is a pair of manager and index because
after Close the next Render makes another manager over the same directories.
`at[c]` holds the manager and, from `pick` on, the worker.

**RenderTab** - one render in one tab: each call of `renderInTab` to the browser
is a step, and between two calls the document may be parsed (`Parse`), the page
may go to another (`PageNavigates`) and time may pass. A site has the facts of its
document and those of the first MaxBody bytes of it (`cut`), on which the verdict
is; the title is read by a call of its own and not cut. `steady` is a history
variable: the wait ended at a parsed document and the tab is still there.

**Stealth** - the script as a function on the window of a new document. It is one
expression of a dozen blocks (`Blocks`), each with its own copy of the helpers; what carries
over is the window and the tower of proxies over `Function.prototype.toString`.
`patchToString` adds a layer, `PrintedText` goes down the tower as a call does.
Every backquote of the original is three in this file, which is no syntax error:
a template literal that is tagged with a string throws when it runs. So
`makeNativeString`, which has none, works, and `ChromeApp` and the handler of
`document.createElement` throw.

**Detect**, **DetectCheck** - the classifiers as operators over six facts of a
page, and a state machine (`DetectSpec`) that adds facts to compare verdicts.
`PartOf` says what may be found in the first bytes of a page instead of the
whole: no marker more, no more bytes, and visible text that may be more or less.

**FetchClient** - one call of `FetchWithOptions`: checks, budgets, the loop of
`fetchWithRetry`, the two reads of `processResponse`, what follows an error. The
web answers as it likes; `DeadlinePasses` and `CallerCancels` may strike between
any two steps. Sizes are in units, so that the caps are 1 and 2 and a body may
have 0 to 3. Of an error page (`Refusal`) the first `SniffBytes` are read, or fewer if the
connection breaks, and the verdict is on what may be found in those; `got` counts
them as it counts the bytes of a body. The browser is one step with three outcomes. `wait` holds the delay
of the next attempt and the seconds a Retry-After header asked for. It is an
instant of Go's clock type, scaled down: **MachineInt** has the numbers to
`IntMax` and wraps sums and products, `Second` is the length of a second.

**FetchContract** - what the client promises `web_fetch`.

**FetchTool** - concurrent `web_fetch` handlers: `Lookup`, `MarkHit` (the write
to the shared flag), the steps of FetchContract for the fetch, `Convert`,
`Store`, `Answer`. Entries have addresses, reused when nobody refers to them, so
that sharing by pointer is visible. A caller at `reply` may answer in that very
state, so an invariant about callers at `reply` is one about every reply.

**Chunk** - `Chunk` and `snapBoundary` over texts of which only "is a newline"
counts. The scans from the end back are sets of positions (`Boundary`), the
window's end is a sum that wraps, a slice out of order is a panic.

**Paging** - agents that read one page chunk by chunk through the Fetch cache,
while the site publishes versions of it. The agent is the one of the tool's
description: it asks on with `start_index` at the end of the chunk before, with any
`max_length`, until it has `total_chars`. Calls whose fetches overlap may store
in any order.

**Rerank**, **RerankCheck** - the rerankers as operators on a list of results.
Scores are taken by their order and votes are ranks. `Fused` compares
the sums of weight / (60 + rank) as fractions; sums that are equal as fractions
are ordered both ways, because as floats they may differ in the last bit
(`Rounds`). They do not differ when the two results have the same ranks, or two
of them the other way round, since a sum of two floats does not depend on their
order. Sums that differ as fractions differ by more than the floats' error in
lists of up to some 490 results; SearXNG's pages are far shorter. RerankCheck
(variables `docs`, `blank`, `answer`, `ranked`) makes lists and answers and
improves one score of one result at a time, the others' unchanged. That is
about the fusion and not about texts: one more of the query's words in a text
changes df and avgdl, and with them the BM25 scores of the others.

**SearchTool** - concurrent `web_search` handlers over the Search cache. A string
is a sequence of its parts, so that joining the fields of the key by a bar is
what the code does. SearXNG answers what the web holds at the time; `Response`
dedups and cuts; `Orders` is what the configured reranker may return.

The `MC` modules hold only symmetry sets and the pages used as values. Operators
marked "Seeded fault" are plausible mistakes in the definition they stand next
to; nothing uses them, and each breaks the property it is paired with in
`PROJECT.json`, which shows that the property can fail on the given instance.

## 3. The runs

| run (cfg) | shows | instance | states |
|---|---|---|---|
| `cache` (`TtlCache`) | limit, refinement of LossyStore; expired entries are swept, the loop stops | 3 keys, 2 values, 2 places, life 1, clock to 3 | 39 720 |
| `pool_server` (`RenderPoolServer`) | the pool as the server uses it: one render per worker, one browser per profile, no cookies of an earlier run | 3 callers, 2 workers, 1 manager, 2 processes | 474 616, up to symmetry |
| `pool_close` (`RenderPoolClose`) | browsers stay reachable and tabs in their current one under Close; renders return if pages load; Close returns even if they hang | 2 callers, 1 worker, 2 managers, 3 processes | 295 356 |
| `tab` (`RenderTab`) | the script is on every document and prints as native; challenges are blocks; the render ends | 4 browsers, 6 documents, two of them longer than the cut, 3 loads, 2 turns of the wait | 15 840 |
| `detect` (`DetectCheck`) | more evidence never weakens a verdict | all 64 pages, 6 statuses | 384 |
| `client` (`FetchClient`) | readable content, request budget, capped delays, structured blocks, the mode, the caps; refinement of FetchContract; under a timeout the call returns or hands over to the browser | 4 pages, 5 statuses, caps 1 and 2, a prefix of 2, delays to 63 | 1 439 236 |
| `tool` (`FetchTool`) | replies match requests, hits are marked and fresh, only entries are stored | 2 callers, 1 URL, 2 forms, 1 place per cache, lives 2 and 1, mode auto | 2 563 028, up to symmetry |
| `paging` (`Paging`) | readings are lossless, chunks keep half, hits are recent, readings end | 2 agents, 3 versions of 7, 3 and 0 characters, lengths 1 and 4 | 245 959 |
| `search` (`SearchTool`) | replies match searches and are one answer; nothing empty is stored | 2 callers, 4 searches, 3 answers, 2 places, life 1, clock to 3 | 406 980, up to symmetry |
| `rerank` (`RerankCheck`) | who is dominated stays behind, silent signals change nothing, better never costs | lists of up to 3 results, 3 scores, 2 engine counts, answers of up to 2 mentions | 19 856 |
| `pool_hung_page` (`RenderPoolHungPage`) | a violation, section 4 | 1 caller, 1 worker | - |
| `tab_create_element` (`RenderTabCreateElement`) | a violation, section 4 | as `tab` | - |

The type invariants of TtlCache, RenderPool, FetchClient and RenderTab are proved
(section 5) and not run again. The other configurations reproduce the other
disagreements of section 4. `tool` has mode auto because its behaviours include those of the other modes.

Why the bounds are enough. *Cache*: three keys over two places exercise
eviction with a choice; a life of 1 and a clock to 3 let an entry expire, be
replaced and expire again between a tick and its sweep. *Pool*: two workers and
three callers give one contended and one free worker; with one worker, two
callers and three processes there is a holder, a waiter, and a leaked browser
next to its successor's. One manager is what the server does, since nothing in
`main.go` calls `Client.Close`; two show everything Close can disturb, the old
manager against the new. `MaxManagers` bounds the calls of Close. *Client*: the
attempts and budgets are those of the code, no bound; 403, 404, 408, 429 and 500 are
one status from each class the code tells apart (498 goes with 429). A second is
4, so that the cap of 5 s is 20 and the largest int 63 lies between it and twice
a Retry-After of 9; the headers are none, unreadable or 0, one below the cap, one
above it, one whose product overflows to a small delay. An error page of 3 does not
fit into the prefix of 2, one of 2 just does. The pages are such that a cut makes
a difference each way: a long text with a block message is a wall for a 403
alone, its beginning is one for any status, and a few words may be the beginning
of a challenge.
*Tool*: two callers suffice for every race on
one entry, one place per cache makes every Set an eviction, a clock of 2 passes
both lives. *Tab*: two documents are a challenge and what follows it, the third
lets a navigation come between any two calls; one of each kind of browser that
the script tells apart. *Paging*: of 7 characters in chunks of at most 4 the first
window is shortened to a blank line, one that begins inside of that blank line is
not, because the cut would leave less than half, and the last needs no cut; the
second version ends before the second chunk begins, the third is empty; the agent that stops early makes calls
that store behind the other's back. *Search*: the four searches differ in each
field of the key and share limits, with the default written out; two places and
four keys evict. *Rerank*: two results compare, the third gives them different
places to change; the scores have a tie, and one below and one above the 0 of
those the service leaves out. The clock bounds are the guards of `Elapse`.

Fairness. A goroutine that can take a step eventually does (weak fairness per
step). A mutex and a select are fair in the sense Go gives: a goroutine waiting
for `w.mu` gets it (Go's mutex hands over to starving waiters), a select with
several ready cases picks at random, so the closed stop channel is not passed
over for ever (strong fairness). A context with a deadline ends. chromedp bounds
the start of a browser and notices the end of its connection. Nothing is
assumed of callers, cookies, crashes, Close, restarts or servers on the web.
That pages load is no property of the code: `PagesLoad` is a premise of
`RendersReturn` alone. For the same reason nothing is assumed of the browser in
FetchClient, and `DirectPathEnds` says of a call with a timeout that it returns
or gets to the browser: there a page that never finishes loading may hold it past
every deadline (`pool_hung_page`). The resolver is assumed to give up by itself,
since the host is looked up before the budget's context exists.

For the tab: the browser answers, and a document that nobody leaves is parsed
(the premise `PagesLoad` of the pool, one level down; without it `RenderEnds`
would be false, and `pool_hung_page` is that case). For paging: the server goes on
with a call and an agent with its reading; that the site stops changing is not
assumed, since it has finitely many versions.

Deadlock is checked in every run but `rerank`, which stops when every signal is
at its best; `FetchClient` and `RenderTab` have the step `Returned` for a call
that is over.

## 4. Where the code and its documentation disagree

Each has a configuration with which TLC ends in a counterexample
(`tlc -config <cfg> MC<module>`). The first two are runs of the project, with the
quotations in `PROJECT.json` under `findings`; the others quote here or at their
property. A configuration named `...Claims` lists several properties, each of
which is violated: TLC stops at the first, so leave one in at a time.

| cfg: property | what happens |
|---|---|
| `RenderPoolHungPage`: `DeadlineEndsRender` | the render deadline does not reach the tab (`session.go:113`): a page that hangs keeps its slot for good |
| `RenderTabCreateElement`: `DynamicContentRenders` | in a browser with `chrome.app` every `document.createElement` of a page throws (`stealth.js:3`) |
| `RenderTabClaims`: `PatchesRan` | in one without it the script aborts at its first block: no later patch is there ("verifies the stealth patches actually ran before the page scripts", `render_stealth_test.go:32-35`) |
| `RenderTabClaims`: `PersonaIsCoherent` | the languages a page sees are en-US also for the persona of Moscow ("a mismatched combination (e.g. en-US locale + Moscow timezone) is itself a bot signal", `render.go:27-28`) |
| `RenderTabClaims`: `NeverAChallenge` | title and HTML are read by two calls, a navigation between them lets a challenge through (`session.go:144-145`) ("never passed to the agent as if it were content", `session.go:156-157`) |
| `RenderTabClaims`: `NoChallengeBehindTheCut` | the verdict is on the HTML cut at MaxBody, so a challenge whose title is no marker and whose markers come later passes, without any navigation (`session.go:151-154`) (the same promise) |
| `RenderPoolLeak` | a render with a slot starts a browser after Close has passed its worker (`session.go:106`) ("Close shuts down every browser and clears the wiped profiles", `session.go:251`) |
| `RenderPoolSharedProfile` | that browser and one of the next manager share a profile directory ("Each gets its own user-data-dir so profiles never lock", `session.go:29-30`) |
| `RenderPoolWipeFails` | a failed removal of the profiles is ignored (`session.go:74`) ("must never leak into the new run", `session.go:61-63`) |
| `FetchToolClaims`: `MissSaysNotCached` | a fresh fetch reports `cached: true` after another call hit its entry (`mcp.go:213`, `242`) ("true when served from cache", `mcp.go:270`) |
| `FetchToolClaims`: `RendersUseRenderTTL` | in mode auto rendered pages live as long as direct ones (`mcp.go:209`) ("so browser renders can use a shorter TTL", `mcp.go:26-27`) |
| `FetchClientClaims`: `TLSFailureFallsBack` | TLS failures do not fall back to the browser (`fetch.go:337`) ("only when it detects a bot block (403/429/498/5xx/TLS)", README.md:243-244) |
| `FetchClientClaims`: `DetectedBlockFallsBack` | a challenge with a status like 404 does not either (`fetch.go:348`) ("fallback when a bot block is detected", README.md:71) |
| `FetchClientClaims`: `BackoffKeepsTheError` | the end of the context does not always end the backoff (`fetch.go:393`) ("the last attempt error is the meaningful failure", `fetch.go:395-396`) |
| `FetchClientClaims`: `RetryAfterIsHonored` | a Retry-After that overflows is followed by no wait (`fetch.go:601`) ("honoring Retry-After (capped)", `fetch.go:596-597`) |
| `FetchClientClaims`: `RetriedAsDocumented` | rejected documents are downloaded twice (`fetch.go:552`) ("applied on 408/429/5xx/498 and network/TLS errors", README.md:196-197) |
| `FetchClientClaims`: `PDFCapIsForPDFs` | HTML at a PDF-looking URL gets the PDF cap (`fetch.go:456`) ("bounds the body size for PDF responses", `fetch.go:52`) |
| `FetchClientClaims`: `ErrorPagesWithinCap` | 256 KiB of an error page are read also where MAX_FETCH_BYTES is less (`fetch.go:433`) ("Max body size fetched from a page", README.md:65) |
| `FetchClientClaims`: `MarkersAreFound` | a marker behind the first 256 KiB of an error page, or behind where the connection broke, is not found: the refusal comes back as a bare status (`fetch.go:433`) ("block-wall markers ... sit deep in CSS-heavy denial pages", `fetch.go:430-432`) |
| `PagingMixed`: `OneDocument` | a reading may join two versions of a page (`mcp.go:245`) ("so the model can page through long documents", `content.go:136`) |
| `PagingOverflow`: `ChunkReturns` | a `max_length` near the largest int makes `Chunk` panic (`content.go:147`) ("maximum number of characters to return", `mcp.go:153`) |
| `PagingNewline`: `SnapsToNewline` | a blank line too early hides a newline late enough (`content.go:163-180`) ("blank line first, single newline second", `content.go:156-158`) |
| `RerankClaims`: `EveryResultIsMarked` | a result without a vote is not marked as ranked (`rerank.go:77-85`) (README.md:143) |
| `RerankClaims`: `TiesKeepTheOrder` | ties are broken by rounding before they are by position (`rerank.go:69`) (README.md:141-142) |
| `RerankClaims`: `NothingSaidNothingDone` | an answer that names no result still votes (`client.go:103`) (`semantic_test.go:187`) |
| `SearchToolBars`: `ReplyMatchesSearch` | a bar in a category makes two searches share an entry (`mcp.go:126`) |
| `TtlCacheEmptyKey` | an entry under the empty key is never evicted (`cache.go:85`); no tool uses such a key ("with a size limit", `cache.go:1`) |

The leak and the shared profile need `Client.Close` during a render, which the
server does not call today; they are about the API's own promise.

## 5. The proofs

TLAPS checks every theorem for all values of the constants that satisfy the
named assumptions: `CacheAssumption` (a positive limit, natural times),
`PoolAssumption` (a positive pool size, `Nobody` apart), `ClientAssumption` (the
caps and statuses), `TabAssumption` (what sites and browsers are: a browser's
window begins with nothing replaced), `IntAssumption` and `PagingAssumption`
(texts are sequences, times natural), `ToolAssumption` (there are a URL and a
form, caches have room), `SearchAssumption` (what searches and SearXNG's answers
are), `RankAssumption` (scores are integers, the bounds natural).

Every safety invariant and every safety action property of a passing run is
stated by a theorem.

**TtlCacheProofs**

- `TypeCorrect`. The lemmas `RoomLeaves` and `RoomIsMap` say what the eviction
  may leave.
- `SizeLimited`: `[]SizeBound`, if no key is empty. The induction needs that the
  map is finite, since a bound on the cardinality of an infinite set says
  nothing; and `RoomBelowLimit`, that after the eviction there is a place.
- `Implements`: `Spec => RefinesLossyStore`. The abstract store is the map
  without its expired entries. Get, Set and the clock map to abstract steps; a
  sweep must map to a stutter, and does only because the instant it uses is not
  from the future: the strengthening `NoFutureTick`.

**RenderPoolProofs**

- `TypeCorrect`, with the strengthening `ManagerLeft` (a manager can be created
  only while the bound leaves one).
- `RendersAreSerialized`: who is inside has filled the slot of its worker
  (`SlotInv`).
- `BrowsersAreReachable`, `TabsStayCurrent` from `BrowserInv`: a starting browser's render
  holds `w.mu` and the worker has no other browser; a worker's browser is one it
  launched. That a tab's browser stays current needs `SlotInv`: only the render
  in the slot replaces it.
- `ProfilesAreExclusive`, if there is one manager: a running browser is its
  worker's or is starting, never both, and at most one render is starting.
- `CookiesAreFresh`, if the removal of the profiles does not fail: cookies of an
  earlier run exist only before the first manager, and no browser does.

The two extra assumptions are exactly what the configurations
`RenderPoolSharedProfile` and `RenderPoolWipeFails` show to be necessary.

**FetchClientProofs**

- `TypeCorrect`, with what the program counter says of the locals (`Progress`): a
  response is there between its arrival and its verdict, an error after a failed
  attempt, a second budget only after the first.
- `BackoffsAreCapped`: whatever a product wraps to, the minimum with the cap is
  below it, and the exponential delay is for the two attempts there are.
- `RequestsAreBounded` from `BudgetInv`, which counts the requests by attempt and
  budget; the second budget starts at most once.
- `ReadsAreCapped` from `CapInv`: what is read does not exceed the limit in force,
  the larger limit is in force only for what looks like a PDF, and an error page
  has a limit of its own.
- `ContentIsReadable`, `RefusalsHaveTheirKind` from `SoundInv`: what has been
  accepted is readable, and a status error that waits for its retry or for the
  end of the call is about the last answer (`Judged`): its verdict is that on the
  whole error page if this came unbroken and is at most 256 KiB.
- `AutoAsksTheBrowser`: `Spec => AutoTriesTheBrowser`, about the steps that end a
  call in mode auto. Neither an answer with 403, 429, 498 or 5xx, as a block or
  as a bare status, nor a challenge that came with a 200 is among what they
  return before the browser has tried. A challenge with another status is
  (`DetectedBlockFallsBack`, section 4).
- `Implements`: `Spec => ImplementsContract`, each step a step of FetchContract
  or a stutter, under the mapping `ContractStage`, `ContractResult`; `DirectInv`
  says that who wants the browser only never sends a direct request.
- `MoreEvidenceSharpens`, about the classifiers: `PageSharpens` orders what classifyPage finds, `VerdictSharpens` what
  classifyStatus makes of it for any status code.

**RenderTabProofs**

- `TypeCorrect` with `DocInv`: there is a document from the navigation on.
- `ScriptIsFirst` from `InjectInv`: the script is registered before there is a
  document, so each one that opens has it.
- `ChallengesAreReported` from `SteadyInv`: while the tab stays, what was
  read of its document is its title and its cut.
- `ReplacedFunctionsPrintAsNative`, about the script from whatever window the
  browser makes: after each block every replaced function has a layer in the
  tower, and every layer prints with a name (`Covered`). The block after it
  makes its own helpers from what is there then, and gets named layers because
  those before it are (`UtilsAreNamed`): a block with nameless layers would spoil
  all that follow. The blocks are a fold, so this is an induction over them.

**PagingProofs**

- `ChunkIsAWindow`, about `Chunk` for every text and window that does not reach
  past the largest int. `BoundaryIsInside` says where a cut can be, `WrapIs` what
  a sum becomes.
- `TypeCorrect`: the positions an agent has gathered are inside some version.
- `HitsAreRecent` from `CacheInv`: an entry expires a life after its Set, and its
  Set came soon after the site's answer, in whatever order calls store.
- `ReadingsAreLossless` from `ReadInv`: what an agent has is without a gap whatever
  versions it is of, since each chunk starts where it was asked for.
- `HalfIsKept` and `FittingWindowsReturn`, if `WindowsFit`: no window reaches past
  the largest int and DEFAULT_MAX_LEN is positive. `PagingOverflow` shows that
  this is needed.

**FetchToolProofs**, from one inductive invariant `IInv` about the caches, the
entries that callers hold, and the fetches in progress.

- `TypeCorrect`: nothing but entries is ever stored.
- `NoCallGetsAnothersPage`: an entry lies under the key of calls it answers, and the
  key is injective (`KeyIsInjective`); a call for the browser never has a page
  of a direct request (`FetchSound`, which looks into the client's contract).
- `EveryHitSaysCached`: the entry of a hit stays marked, since nobody clears a
  flag but who makes an entry, and an address that a caller holds is not free.
- `EveryHitIsFresh`: an entry expires one life of its own cache after it was made.
- `ShortFetchTTLKeepsRendersFresh`: what `FetchToolClaims` shows of rendered pages
  in the Fetch cache needs a FETCH_CACHE_TTL longer than RENDER_CACHE_TTL.

**SearchToolProofs**, about the tool, from an invariant `IInv` that says of what
answer an entry is made and under which key it lies.

- `TypeCorrect`: no empty answer is stored.
- `NoCallGetsAnothersResults`, if no category, language or time range holds a bar
  (`NoBars`); a query may. The key is read back from its end: the limit has no
  bar, then three fields have none, and what is left is the query
  (`KeysTellApart`). `SearchToolBars` shows that the assumption is needed.
  `DecimalsDiffer` says of `ToString`, which stands for strconv.Itoa and has no
  definition the provers know, that different limits are written differently.
- `EveryReplyIsOneAnswer`: the dedup keeps the first result of each page in their
  order (`Lists`, an induction over its fold), the cut takes the first of those, and a
  reranker only permutes. It needs `DecimalsDiffer` for the length of a hit.

**SearchToolProofs**, about the reranker, for any number of results, scores and
engines.

- The weights of a list of n have the common denominator of `Weight`, a fold of
  products: `WeightTotal` says that (60 + rank) * Weight is the same for every rank,
  so an earlier rank weighs more and equal weights are equal ranks. `SumOrder`
  carries that to the sums, `PlaceOrder` to the ranks, which are cardinalities.
- `DominatedGoesBehind`: who leads in every list has the greater sum, or the same
  ranks, which do not round (`GoesFirst`).
- `SilentSignalsAreSilent`: a vote that gives all one rank shifts all sums by the
  same, and rounds no two that did not round before (`Shifts`, `RoundsAlike`).
- `BetterIsNoWorse`: the orders rrfFuse may return are the linear extensions of a partial
  order, in which a result has its best place behind those that must come before it and
  its worst before those that must come after (`FirstPlace`, `LastPlace`,
  `PlacesBetween`). A better score of i, where the others' stay, takes nobody to the first set
  and nobody out of the second (`FavoredComesNoLater`), because it
  gives no other an earlier rank (`LiftedPlace`, `LiftedEngines`, `LiftedWords`).
  The proof corrected the model: with rounding allowed for three votes only, as
  `Rounds` had it, "must come before" was not transitive, and results that have
  no BM25 vote could be caught between two that round.

**FoldLemmas** says what a fold of the community modules is, for any operator: one
step more is the operator once more (`FoldedAppend`), and what the operator keeps,
the fold keeps (`FoldedIn`). The induction is over data; it is done by the least
counterexample (`LeastNatural`), which needs no induction theorem with an
operator as parameter.

Only model-checked: the liveness properties (`SweptEventually`, `LoopStops`,
`RendersReturn`, `CloseReturns`, `RenderEnds`, `DirectPathEnds`, `ReadingsEnd`), since
the prover has no rules for fairness and ENABLED here; and that the disagreements
of section 4 occur.

## 6. What is not modelled

- The network guard, the headers, the TLS dial, the configuration: stateless;
  their verdicts are nondeterministic choices of FetchClient, their values
  constants. `DEFAULT_MAX_LEN` may be set to 0 or less, where `Chunk` panics or
  returns nothing; `WindowsFit` excludes it.
- Authentication and the request log (`main.go`): a stateless filter, and a logger
  that hands on only the first 8192 bytes of a request's body (`main.go:120`).
  The tools' models begin behind it, with arguments that have no length.
- The conversion to markdown and text, readability, PDF parsing: third-party
  libraries and string work; `Process` lets a PDF fail to parse, `Convert` lets
  a text be empty. The metadata that `convertPage` adds to an entry goes with
  the entry and is not looked at.
- The BM25 formula and tokenizing: RerankCheck has every order its scores can
  make, and not how the scores of all results move with one word of one text.
  `normalizeResultURL`: the field `page` of a result is what it makes of the URL.
- The values the stealth script answers with (plugin names, WebGL vendor, ...),
  beyond what its blocks test.
- Cookies that direct requests share through the client's jar.
- Cache `Len`, which only tests call.
- That the data race on the flag `Cached` is undefined under Go's memory model: the flag is one
  word, only ever set to true after its creation, so the outcomes are those of
  the interleavings.

## 7. The plan

Order of work, the most important behaviour first. Done: 1-10.

1. CacheOps, TtlCache, LossyStore; proofs of types, limit and refinement.
2. RenderPool; proofs of the safety properties.
3. Detect, DetectCheck.
4. FetchClient with FetchContract; proofs of all its safety properties.
5. FetchTool over CacheOps and FetchContract.
6. RenderTab with Stealth; proofs of its safety properties but the script's.
7. Chunk with machine integers and Paging over CacheOps; proofs of its safety
   properties.
8. Rerank, RerankCheck; SearchTool over CacheOps and Rerank.
9. The backoff's delays with machine integers.
10. Proofs of FetchTool, SearchTool, the rerankers, the classifiers, Paging's
    types and the stealth script's tower.
11. Left: that FetchTool and Paging use their caches as LossyStore promises; that
    Chunk's pieces of one version join to its text for readers that go on to the
    end.
