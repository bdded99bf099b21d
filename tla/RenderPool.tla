----------------------------- MODULE RenderPool -----------------------------
(* internal/fetch/render.go and session.go: a chromeRenderer that lazily     *)
(* creates a RenderSessionManager, whose workers each run one browser on one *)
(* profile directory.  Callers of Render, one caller of Close, the browser   *)
(* processes and restarts of the server take interleaved steps.              *)
(* A worker is a pair <<manager, index>>: after a Close the next Render      *)
(* makes another manager, over the same profile directories.                 *)
EXTENDS Naturals, FiniteSets

CONSTANTS
    Caller,       \* goroutines inside chromeRenderer.Render
    Pid,          \* names for browser processes, reused when free
    Nobody,       \* no caller, no process
    PoolSize,     \* RenderSessionOptions.PoolSize, after its default
    MaxManagers,  \* bound on the managers one server run creates; 1 when
                  \* nobody calls chromeRenderer.Close
    WipeMayFail   \* whether os.RemoveAll may fail

ASSUME PoolAssumption ==
    /\ PoolSize \in Nat \ {0}
    /\ MaxManagers \in Nat \ {0}
    /\ WipeMayFail \in BOOLEAN
    /\ Nobody \notin Caller \cup Pid

Index == 0 .. PoolSize - 1
Manager == 1 .. MaxManagers
Worker == Manager \X Index

VARIABLES
    manager,    \* chromeRenderer.manager, 0 for nil
    created,    \* managers created by this server run
    closed,     \* the managers whose closed channel is closed
    next,       \* RenderSessionManager.next, modulo the pool size
    slot,       \* slot[w]: the channel w.slots is full
    mu,         \* mu[w]: the caller that holds w.mu, or Nobody
    handle,     \* handle[w]: the process behind w.browserCtx, or Nobody
    lost,       \* the processes whose context has ended (Err() # nil)
    running,    \* the processes that are alive
    home,       \* home[p]: the worker that launched p
    cookies,    \* cookies[i]: whose cookies are in profile i, "old" or "new" run
    pc,         \* pc[c]: where caller c is in Render
    at,         \* at[c]: the worker c was given
    proc,       \* proc[c]: the process c boots or has a tab in
    expired,    \* the callers whose ctx is done
    closer,     \* where the caller of Close is: "idle" or "closing"
    closeNext   \* the index of the worker it closes next

managerVars == <<manager, created, closed, next>>
workerVars == <<slot, mu, handle>>
browserVars == <<lost, running, home, cookies>>
callerVars == <<pc, at, proc, expired>>
closerVars == <<closer, closeNext>>
vars == <<managerVars, workerVars, browserVars, callerVars, closerVars>>

\* The types, with the workers named by manager and index.
TypeOK ==
    /\ manager \in 0 .. MaxManagers
    /\ created \in 0 .. MaxManagers
    /\ manager <= created
    /\ closed \subseteq 1 .. created
    /\ next \in [Manager -> Index]
    /\ slot \in [Worker -> BOOLEAN]
    /\ mu \in [Worker -> Caller \cup {Nobody}]
    /\ handle \in [Worker -> Pid \cup {Nobody}]
    /\ lost \subseteq Pid
    /\ running \subseteq Pid
    /\ home \in [Pid -> Worker]
    /\ cookies \in [Index -> SUBSET {"old", "new"}]
    /\ pc \in [Caller -> {"idle", "get", "pick", "wait", "ensure", "boot",
                          "booting", "tab"}]
    /\ at \in [Caller -> Worker]
    /\ proc \in [Caller -> Pid \cup {Nobody}]
    /\ expired \subseteq Caller
    /\ closer \in {"idle", "closing"}
    /\ closeNext \in 0 .. PoolSize

Init ==
    /\ manager = 0
    /\ created = 0
    /\ closed = {}
    /\ next = [m \in Manager |-> 0]
    /\ slot = [w \in Worker |-> FALSE]
    /\ mu = [w \in Worker |-> Nobody]
    /\ handle = [w \in Worker |-> Nobody]
    /\ lost = {}
    /\ running = {}
    /\ home = [p \in Pid |-> <<1, 0>>]
    /\ cookies = [i \in Index |-> {}]
    /\ pc = [c \in Caller |-> "idle"]
    /\ at = [c \in Caller |-> <<1, 0>>]
    /\ proc = [c \in Caller |-> Nobody]
    /\ expired = {}
    /\ closer = "idle"
    /\ closeNext = 0

-----------------------------------------------------------------------------
(* Render: from the manager to a worker's slot.                              *)

Goto(c, label) == pc' = [pc EXCEPT ![c] = label]

\* A call whose ensureChrome succeeds; one that fails changes nothing.  Its
\* ctx carries the render deadline and the request's cancellation.
Call(c) ==
    /\ pc[c] = "idle"
    /\ Goto(c, "get")
    /\ expired' = expired \ {c}
    /\ UNCHANGED <<managerVars, workerVars, browserVars, at, proc, closerVars>>

ContextEnds(c) ==
    /\ pc[c] # "idle"
    /\ c \notin expired
    /\ expired' = expired \cup {c}
    /\ UNCHANGED <<managerVars, workerVars, browserVars, pc, at, proc, closerVars>>

\* Seeded fault: the profiles are not wiped.
WipeNothing(jars) == {jars}

\* RemoveAll of the whole profile directory, its error discarded.
Wipe(jars) ==
    {[i \in Index |-> {}]} \cup (IF WipeMayFail THEN {jars} ELSE {})

\* sessionManager: under chromeRenderer.mu, which Close holds for its length.
GetManager(c) ==
    /\ pc[c] = "get"
    /\ closer = "idle"
    /\ IF manager = 0
         THEN /\ created' = created + 1
              /\ manager' = created + 1
              /\ cookies' \in Wipe(cookies)
         ELSE UNCHANGED <<created, manager, cookies>>
    /\ at' = [at EXCEPT ![c] = <<manager', 0>>]
    /\ Goto(c, "pick")
    /\ UNCHANGED <<closed, next, workerVars, lost, running, home, proc, expired,
                   closerVars>>

\* The check of closed and the round robin over the workers.
PickWorker(c) ==
    LET m == at[c][1]
        i == (next[m] + 1) % PoolSize
    IN  /\ pc[c] = "pick"
        /\ IF m \in closed
             THEN /\ Goto(c, "idle")
                  /\ UNCHANGED <<next, at>>
             ELSE /\ next' = [next EXCEPT ![m] = i]
                  /\ at' = [at EXCEPT ![c] = <<m, i>>]
                  /\ Goto(c, "wait")
        /\ UNCHANGED <<manager, created, closed, workerVars, browserVars, proc,
                       expired, closerVars>>

\* The select: any of its ready cases may be taken.
TakeSlot(c) ==
    /\ pc[c] = "wait"
    /\ ~slot[at[c]]
    /\ slot' = [slot EXCEPT ![at[c]] = TRUE]
    /\ Goto(c, "ensure")
    /\ UNCHANGED <<managerVars, mu, handle, browserVars, at, proc, expired,
                   closerVars>>

\* Seeded fault: the deferred release is set up before the select.
GiveUpReleases(c) ==
    /\ pc[c] = "wait"
    /\ c \in expired \/ at[c][1] \in closed
    /\ slot' = [slot EXCEPT ![at[c]] = FALSE]
    /\ Goto(c, "idle")
    /\ UNCHANGED <<managerVars, mu, handle, browserVars, at, proc, expired,
                   closerVars>>

GiveUp(c) ==
    /\ pc[c] = "wait"
    /\ c \in expired \/ at[c][1] \in closed
    /\ Goto(c, "idle")
    /\ UNCHANGED <<managerVars, workerVars, browserVars, at, proc, expired,
                   closerVars>>

-----------------------------------------------------------------------------
(* ensure: under w.mu, the worker's live browser or a new one.               *)

Alive(w) == handle[w] # Nobody /\ handle[w] \notin lost

\* Seeded fault: the slot guards the start of the browser only.
UseBrowserFreesSlot(c) ==
    /\ pc[c] = "ensure"
    /\ mu[at[c]] = Nobody
    /\ Alive(at[c])
    /\ slot' = [slot EXCEPT ![at[c]] = FALSE]
    /\ proc' = [proc EXCEPT ![c] = handle[at[c]]]
    /\ Goto(c, "tab")
    /\ UNCHANGED <<managerVars, mu, handle, browserVars, at, expired, closerVars>>

\* The browser is live; w.mu is held for the check only.
UseBrowser(c) ==
    /\ pc[c] = "ensure"
    /\ mu[at[c]] = Nobody
    /\ Alive(at[c])
    /\ proc' = [proc EXCEPT ![c] = handle[at[c]]]
    /\ Goto(c, "tab")
    /\ UNCHANGED <<managerVars, workerVars, browserVars, at, expired, closerVars>>

\* Seeded fault: the old browser's cancel is forgotten, not called.
DiscardForgets(c) ==
    /\ pc[c] = "ensure"
    /\ mu[at[c]] = Nobody
    /\ ~Alive(at[c])
    /\ mu' = [mu EXCEPT ![at[c]] = c]
    /\ handle' = [handle EXCEPT ![at[c]] = Nobody]
    /\ Goto(c, "boot")
    /\ UNCHANGED <<managerVars, slot, browserVars, at, proc, expired, closerVars>>

\* No live browser: the old one's cancel waits until its process is gone.
Discard(c) ==
    /\ pc[c] = "ensure"
    /\ mu[at[c]] = Nobody
    /\ ~Alive(at[c])
    /\ mu' = [mu EXCEPT ![at[c]] = c]
    /\ handle' = [handle EXCEPT ![at[c]] = Nobody]
    /\ running' = running \ {handle[at[c]]}
    /\ lost' = lost \ {handle[at[c]]}
    /\ Goto(c, "boot")
    /\ UNCHANGED <<managerVars, slot, home, cookies, at, proc, expired, closerVars>>

Free(p) ==
    /\ p \notin running \cup lost
    /\ \A w \in Worker : handle[w] # p
    /\ \A c \in Caller : proc[c] # p

Launch(c, p) ==
    /\ pc[c] = "boot"
    /\ Free(p)
    /\ running' = running \cup {p}
    /\ home' = [home EXCEPT ![p] = at[c]]
    /\ proc' = [proc EXCEPT ![c] = p]
    /\ Goto(c, "booting")
    /\ UNCHANGED <<managerVars, workerVars, lost, cookies, at, expired, closerVars>>

\* Seeded fault: w.mu stays locked when the start succeeds.
BootOkKeepsLock(c) ==
    /\ pc[c] = "booting"
    /\ proc[c] \in running
    /\ handle' = [handle EXCEPT ![at[c]] = proc[c]]
    /\ Goto(c, "tab")
    /\ UNCHANGED <<managerVars, slot, mu, browserVars, at, proc, expired,
                   closerVars>>

BootOk(c) ==
    /\ pc[c] = "booting"
    /\ proc[c] \in running
    /\ handle' = [handle EXCEPT ![at[c]] = proc[c]]
    /\ mu' = [mu EXCEPT ![at[c]] = Nobody]
    /\ Goto(c, "tab")
    /\ UNCHANGED <<managerVars, slot, browserVars, at, proc, expired, closerVars>>

\* Seeded fault: the error path returns without the two cancels.
BootFailsLeaks(c) ==
    /\ pc[c] = "booting"
    /\ mu' = [mu EXCEPT ![at[c]] = Nobody]
    /\ slot' = [slot EXCEPT ![at[c]] = FALSE]
    /\ proc' = [proc EXCEPT ![c] = Nobody]
    /\ Goto(c, "idle")
    /\ UNCHANGED <<managerVars, handle, browserVars, at, expired, closerVars>>

\* Seeded fault: the error path returns without unlocking w.mu.
BootFailsLocked(c) ==
    /\ pc[c] = "booting"
    /\ running' = running \ {proc[c]}
    /\ slot' = [slot EXCEPT ![at[c]] = FALSE]
    /\ proc' = [proc EXCEPT ![c] = Nobody]
    /\ Goto(c, "idle")
    /\ UNCHANGED <<managerVars, mu, handle, lost, home, cookies, at, expired,
                   closerVars>>

\* Run fails: both contexts are cancelled, the slot is given back.
BootFails(c) ==
    /\ pc[c] = "booting"
    /\ running' = running \ {proc[c]}
    /\ mu' = [mu EXCEPT ![at[c]] = Nobody]
    /\ slot' = [slot EXCEPT ![at[c]] = FALSE]
    /\ proc' = [proc EXCEPT ![c] = Nobody]
    /\ Goto(c, "idle")
    /\ UNCHANGED <<managerVars, handle, lost, home, cookies, at, expired,
                   closerVars>>

-----------------------------------------------------------------------------
(* renderInTab: its context descends from the browser's, not from ctx.       *)

LeaveTab(c) ==
    /\ slot' = [slot EXCEPT ![at[c]] = FALSE]
    /\ proc' = [proc EXCEPT ![c] = Nobody]
    /\ Goto(c, "idle")
    /\ UNCHANGED <<managerVars, mu, handle, browserVars, at, expired, closerVars>>

VisitSetsCookie(c) ==
    /\ pc[c] = "tab"
    /\ proc[c] \in running
    /\ cookies' = [cookies EXCEPT ![at[c][2]] = @ \cup {"new"}]
    /\ UNCHANGED <<managerVars, workerVars, lost, running, home, callerVars,
                   closerVars>>

\* A page, a block or an error of the page: the load came to an end.
TabCompletes(c) ==
    /\ pc[c] = "tab"
    /\ proc[c] \in running
    /\ LeaveTab(c)

\* The browser's context ended, by itself or cancelled by Close.
TabFails(c) ==
    /\ pc[c] = "tab"
    /\ proc[c] \in lost \/ handle[at[c]] # proc[c]
    /\ LeaveTab(c)

-----------------------------------------------------------------------------
(* The browser processes.                                                    *)

Crash(p) ==
    /\ p \in running
    /\ running' = running \ {p}
    /\ UNCHANGED <<managerVars, workerVars, lost, home, cookies, callerVars,
                   closerVars>>

\* The connection to a crashed browser, or to a live one, is lost: its
\* context ends.
LoseConnection(p) ==
    /\ \E w \in Worker : handle[w] = p
    /\ p \notin lost
    /\ lost' = lost \cup {p}
    /\ UNCHANGED <<managerVars, workerVars, running, home, cookies, callerVars,
                   closerVars>>

\* The end of its context kills the process, a moment later.
KillLost(p) ==
    /\ p \in lost \cap running
    /\ running' = running \ {p}
    /\ UNCHANGED <<managerVars, workerVars, lost, home, cookies, callerVars,
                   closerVars>>

-----------------------------------------------------------------------------
(* Close, and the end of the server process.                                 *)

\* MaxManagers bounds the calls: after each one a new manager may be needed.
CloseBegin ==
    /\ closer = "idle"
    /\ manager # 0
    /\ created < MaxManagers
    /\ closed' = closed \cup {manager}
    /\ closer' = "closing"
    /\ closeNext' = 0
    /\ UNCHANGED <<manager, created, next, workerVars, browserVars, callerVars>>

\* renderWorker.close waits for w.mu, which a starting browser holds.
CloseWorker ==
    LET w == <<manager, closeNext>>
    IN  /\ closer = "closing"
        /\ closeNext < PoolSize
        /\ mu[w] = Nobody
        /\ handle' = [handle EXCEPT ![w] = Nobody]
        /\ running' = running \ {handle[w]}
        /\ lost' = lost \ {handle[w]}
        /\ closeNext' = closeNext + 1
        /\ UNCHANGED <<managerVars, slot, mu, home, cookies, callerVars, closer>>

CloseEnd ==
    /\ closer = "closing"
    /\ closeNext = PoolSize
    /\ manager' = 0
    /\ closer' = "idle"
    /\ UNCHANGED <<created, closed, next, workerVars, browserVars, callerVars,
                   closeNext>>

\* The server restarts: the browsers die with it, the profiles stay on disk.
Restart ==
    /\ cookies' = [i \in Index |-> IF cookies[i] = {} THEN {} ELSE {"old"}]
    /\ manager' = 0
    /\ created' = 0
    /\ closed' = {}
    /\ next' = [m \in Manager |-> 0]
    /\ slot' = [w \in Worker |-> FALSE]
    /\ mu' = [w \in Worker |-> Nobody]
    /\ handle' = [w \in Worker |-> Nobody]
    /\ lost' = {}
    /\ running' = {}
    /\ home' = [p \in Pid |-> <<1, 0>>]
    /\ pc' = [c \in Caller |-> "idle"]
    /\ at' = [c \in Caller |-> <<1, 0>>]
    /\ proc' = [c \in Caller |-> Nobody]
    /\ expired' = {}
    /\ closer' = "idle"
    /\ closeNext' = 0

CallerStep(c) ==
    \/ Call(c)
    \/ ContextEnds(c)
    \/ GetManager(c)
    \/ PickWorker(c)
    \/ TakeSlot(c)
    \/ GiveUp(c)
    \/ UseBrowser(c)
    \/ Discard(c)
    \/ \E p \in Pid : Launch(c, p)
    \/ BootOk(c)
    \/ BootFails(c)
    \/ VisitSetsCookie(c)
    \/ TabCompletes(c)
    \/ TabFails(c)

BrowserStep(p) == Crash(p) \/ LoseConnection(p) \/ KillLost(p)

CloserStep == CloseBegin \/ CloseWorker \/ CloseEnd

Next ==
    \/ \E c \in Caller : CallerStep(c)
    \/ \E p \in Pid : BrowserStep(p)
    \/ CloserStep
    \/ Restart

Spec == Init /\ [][Next]_vars

\* What the runtime and chromedp owe: a goroutine that can go on does, a start
\* ends (chromedp gives it 20 s), a context with a deadline ends, and the end
\* of a browser is noticed.  Callers, cookies, crashes, Close and Restart owe
\* nothing, and neither does a page: that a load comes to an end is up to the
\* site, and is a premise of its own.
Fairness ==
    /\ \A c \in Caller :
         /\ WF_vars(ContextEnds(c))
         /\ WF_vars(GetManager(c))
         /\ WF_vars(PickWorker(c))
         /\ WF_vars(TakeSlot(c) \/ GiveUp(c))
         /\ SF_vars(UseBrowser(c) \/ Discard(c))
         /\ WF_vars(\E p \in Pid : Launch(c, p))
         /\ WF_vars(BootOk(c) \/ BootFails(c))
         /\ WF_vars(TabFails(c))
    /\ \A p \in Pid : WF_vars(p \notin running /\ LoseConnection(p))
    /\ SF_vars(CloseWorker)
    /\ WF_vars(CloseEnd)

FairSpec == Spec /\ Fairness

-----------------------------------------------------------------------------
(* Safety.                                                                   *)

InSlot(c) == pc[c] \in {"ensure", "boot", "booting", "tab"}

\* The single-slot channel serializes the renders of a worker: from the start
\* of its browser to the end of its tab a render has the worker to itself.
OneRenderPerWorker ==
    \A c, d \in Caller :
        InSlot(c) /\ InSlot(d) /\ at[c] = at[d] => c = d

\* No two browsers on one user-data-dir, a crashed one's successor and one
\* that is still starting included.
OneBrowserPerProfile ==
    \A p, q \in running : home[p][2] = home[q][2] => p = q

\* A browser that runs is the one its worker knows, or is being started: there
\* is none that ensure and close could not reach.
NoStrayBrowser ==
    \A p \in running :
        \/ handle[home[p]] = p
        \/ \E c \in Caller : pc[c] = "booting" /\ proc[c] = p

\* ensure returns the browser's context and unlocks w.mu; the tab opened with
\* it later is still in the worker's current browser, or Close took it away.
TabInCurrentBrowser ==
    \A c \in Caller :
        pc[c] = "tab" => handle[at[c]] = proc[c] \/ at[c][1] \in closed

\* "cookies collected during the previous process lifetime must never leak
\* into the new run" (session.go:61-63).
CookiesFromThisRun ==
    \A p \in running : "old" \notin cookies[home[p][2]]

\* "Close terminates all pooled browsers and releases their profiles"
\* (session.go:251): with Close and every render returned, none is left.
CloseTerminates ==
    closer = "idle" /\ (\A c \in Caller : pc[c] = "idle") =>
        \A p \in running : home[p][1] \notin closed

-----------------------------------------------------------------------------
(* Liveness.                                                                 *)

\* No render is stuck behind the locks, the slot, a crashed browser or Close,
\* when pages load: then every load comes to an end.
PagesLoad == \A c \in Caller : WF_vars(TabCompletes(c))

RendersReturn ==
    PagesLoad => \A c \in Caller : pc[c] # "idle" ~> pc[c] = "idle"

\* Close returns, though starting browsers hold w.mu and pages may hang.
CloseReturns == closer = "closing" ~> closer = "idle"

\* "Timeout for a single browser render (Go duration)" (README.md:72): a
\* render whose deadline has passed returns.
DeadlineEndsRender == \A c \in Caller : c \in expired ~> pc[c] = "idle"
=============================================================================
