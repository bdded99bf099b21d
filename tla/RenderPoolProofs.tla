--------------------------- MODULE RenderPoolProofs -------------------------
(* What is proved of RenderPool for any number of callers, workers, managers *)
(* and processes.                                                            *)
EXTENDS RenderPool, TLAPS

USE DEF managerVars, workerVars, browserVars, callerVars, closerVars

-----------------------------------------------------------------------------
(* Type correctness.                                                         *)

LEMMA WorkerIs ==
  /\ 0 \in Index
  /\ 1 \in Manager
  /\ \A m \in Manager, i \in Index : <<m, i>> \in Worker
  /\ \A w \in Worker : w[1] \in Manager /\ w[2] \in Index /\ w = <<w[1], w[2]>>
BY PoolAssumption DEF Worker, Manager, Index

LEMMA TypeInit == Init => TypeOK
BY WorkerIs, PoolAssumption DEF Init, TypeOK

\* A manager can still be made whenever there is none: what keeps created in
\* its bound, and so the names of the workers in theirs.
ManagerLeft ==
    /\ manager = 0 \/ closer = "closing" => created < MaxManagers
    /\ closer = "closing" => manager \in closed /\ manager # 0

LEMMA ManagerLeftStep == TypeOK /\ ManagerLeft /\ [Next]_vars => ManagerLeft'
<1> SUFFICES ASSUME TypeOK, ManagerLeft, [Next]_vars PROVE ManagerLeft'
  OBVIOUS
<1> USE PoolAssumption
<1>1. ASSUME NEW c \in Caller, GetManager(c) PROVE ManagerLeft'
  BY <1>1 DEF TypeOK, ManagerLeft, GetManager
<1>2. CASE CloseBegin
  BY <1>2 DEF TypeOK, ManagerLeft, CloseBegin
<1>3. CASE CloseWorker
  BY <1>3 DEF TypeOK, ManagerLeft, CloseWorker
<1>4. CASE CloseEnd
  BY <1>4 DEF TypeOK, ManagerLeft, CloseEnd
<1>5. CASE Restart
  BY <1>5 DEF TypeOK, ManagerLeft, Restart
<1>6. CASE UNCHANGED <<manager, created, closed, closer>>
  BY <1>6 DEF ManagerLeft
<1> QED
  BY <1>1, <1>2, <1>3, <1>4, <1>5, <1>6
  DEF Next, CallerStep, BrowserStep, CloserStep, vars, Call, ContextEnds,
      PickWorker, TakeSlot, GiveUp, UseBrowser, Discard, Launch, BootOk,
      BootFails, VisitSetsCookie, TabCompletes, TabFails, LeaveTab, Crash,
      LoseConnection, KillLost

LEMMA TypeStep == TypeOK /\ ManagerLeft /\ [Next]_vars => TypeOK'
<1> SUFFICES ASSUME TypeOK, ManagerLeft, [Next]_vars PROVE TypeOK'
  OBVIOUS
<1> USE PoolAssumption, WorkerIs
<1>1. ASSUME NEW c \in Caller, Call(c) PROVE TypeOK'
  BY <1>1 DEF TypeOK, Call, Goto
<1>2. ASSUME NEW c \in Caller, ContextEnds(c) PROVE TypeOK'
  BY <1>2 DEF TypeOK, ContextEnds, Goto
<1>3. ASSUME NEW c \in Caller, GetManager(c) PROVE TypeOK'
  <2>1. manager' \in Manager /\ manager' <= created' /\ created' \in 0 .. MaxManagers
        /\ closed' \subseteq 1 .. created'
    <3>1. CASE manager = 0
      <4>1. created' = created + 1 /\ manager' = created + 1 /\ closed' = closed
        BY <1>3, <3>1 DEF GetManager
      <4> QED
        BY <3>1, <4>1 DEF TypeOK, ManagerLeft, Manager
    <3>2. CASE manager # 0
      BY <1>3, <3>2 DEF TypeOK, GetManager, Manager
    <3> QED
      BY <3>1, <3>2
  <2>2. cookies' \in [Index -> SUBSET {"old", "new"}]
    BY <1>3 DEF TypeOK, GetManager, Wipe
  <2>3. <<manager', 0>> \in Worker
    BY <2>1
  <2>4. at' \in [Caller -> Worker] /\ pc' \in [Caller -> {"idle", "get", "pick",
          "wait", "ensure", "boot", "booting", "tab"}]
    BY <1>3, <2>3 DEF TypeOK, GetManager, Goto
  <2> QED
    BY <1>3, <2>1, <2>2, <2>4 DEF TypeOK, GetManager, Manager
<1>4. ASSUME NEW c \in Caller, PickWorker(c) PROVE TypeOK'
  <2> DEFINE m == at[c][1]
             i == (next[m] + 1) % PoolSize
  <2>1. m \in Manager /\ next[m] \in Index
    BY DEF TypeOK
  <2>2. i \in Index
    BY <2>1 DEF Index
  <2>3. <<m, i>> \in Worker
    BY <2>1, <2>2
  <2> HIDE DEF m, i
  <2>4. CASE m \in closed
    BY <1>4, <2>4 DEF TypeOK, PickWorker, Goto, m
  <2>5. CASE m \notin closed
    <3>1. /\ next' = [next EXCEPT ![m] = i]
          /\ at' = [at EXCEPT ![c] = <<m, i>>]
          /\ Goto(c, "wait")
          /\ UNCHANGED <<manager, created, closed, workerVars, browserVars, proc,
                         expired, closerVars>>
      BY <1>4, <2>5 DEF PickWorker, m, i
    <3> QED
      BY <2>1, <2>2, <2>3, <3>1 DEF TypeOK, Goto
  <2> QED
    BY <2>4, <2>5
<1>5. ASSUME NEW c \in Caller, TakeSlot(c) PROVE TypeOK'
  BY <1>5 DEF TypeOK, TakeSlot, Goto
<1>6. ASSUME NEW c \in Caller, GiveUp(c) PROVE TypeOK'
  BY <1>6 DEF TypeOK, GiveUp, Goto
<1>7. ASSUME NEW c \in Caller, UseBrowser(c) PROVE TypeOK'
  BY <1>7 DEF TypeOK, UseBrowser, Goto
<1>8. ASSUME NEW c \in Caller, Discard(c) PROVE TypeOK'
  BY <1>8 DEF TypeOK, Discard, Goto
<1>9. ASSUME NEW c \in Caller, NEW p \in Pid, Launch(c, p) PROVE TypeOK'
  BY <1>9 DEF TypeOK, Launch, Goto
<1>10. ASSUME NEW c \in Caller, BootOk(c) PROVE TypeOK'
  BY <1>10 DEF TypeOK, BootOk, Goto
<1>11. ASSUME NEW c \in Caller, BootFails(c) PROVE TypeOK'
  BY <1>11 DEF TypeOK, BootFails, Goto
<1>12. ASSUME NEW c \in Caller, VisitSetsCookie(c) PROVE TypeOK'
  BY <1>12 DEF TypeOK, VisitSetsCookie, Goto
<1>13. ASSUME NEW c \in Caller, TabCompletes(c) PROVE TypeOK'
  BY <1>13 DEF TypeOK, TabCompletes, LeaveTab, Goto
<1>14. ASSUME NEW c \in Caller, TabFails(c) PROVE TypeOK'
  BY <1>14 DEF TypeOK, TabFails, LeaveTab, Goto
<1>15. ASSUME NEW p \in Pid, Crash(p) PROVE TypeOK'
  BY <1>15 DEF TypeOK, Crash
<1>16. ASSUME NEW p \in Pid, LoseConnection(p) PROVE TypeOK'
  BY <1>16 DEF TypeOK, LoseConnection
<1>17. ASSUME NEW p \in Pid, KillLost(p) PROVE TypeOK'
  BY <1>17 DEF TypeOK, KillLost
<1>18. CASE CloseBegin
  BY <1>18 DEF TypeOK, CloseBegin
<1>19. CASE CloseWorker
  <2>1. closeNext' \in 0 .. PoolSize
    BY <1>19 DEF TypeOK, CloseWorker
  <2> QED
    BY <1>19, <2>1 DEF TypeOK, CloseWorker
<1>20. CASE CloseEnd
  BY <1>20 DEF TypeOK, CloseEnd
<1>21. CASE Restart
  BY <1>21 DEF TypeOK, Restart
<1>22. CASE UNCHANGED vars
  BY <1>22 DEF TypeOK, vars
<1> QED
  BY <1>1, <1>2, <1>3, <1>4, <1>5, <1>6, <1>7, <1>8, <1>9, <1>10, <1>11, <1>12, <1>13, <1>14, <1>15, <1>16, <1>17, <1>18, <1>19, <1>20, <1>21, <1>22
  DEF Next, CallerStep, BrowserStep, CloserStep

TypeInv == TypeOK /\ ManagerLeft

LEMMA TypeInvInit == Init => TypeInv
BY TypeInit, PoolAssumption DEF Init, TypeInv, ManagerLeft

LEMMA TypeInvStep == TypeInv /\ [Next]_vars => TypeInv'
BY TypeStep, ManagerLeftStep DEF TypeInv

\* The pool's state always has its type, so every index into the pool is one
\* of its workers.
THEOREM TypeCorrect == Spec => []TypeOK
<1>1. TypeInv => TypeOK
  BY DEF TypeInv
<1> QED
  BY <1>1, TypeInvInit, TypeInvStep, PTL DEF Spec

-----------------------------------------------------------------------------
(* The slot.  A caller in the slot has filled its worker's channel, so       *)
(* nobody else can; and only the one inside ever empties it.                 *)

SlotInv ==
    /\ OneRenderPerWorker
    /\ \A c \in Caller : InSlot(c) => slot[at[c]]

LEMMA SlotInit == Init => SlotInv
BY DEF Init, SlotInv, OneRenderPerWorker, InSlot

LEMMA SlotStep == TypeOK /\ SlotInv /\ [Next]_vars => SlotInv'
<1> SUFFICES ASSUME TypeOK, SlotInv, [Next]_vars PROVE SlotInv'
  OBVIOUS
<1> USE DEF SlotInv, OneRenderPerWorker, InSlot, Goto, TypeOK
<1>1. ASSUME NEW c \in Caller, Call(c) PROVE SlotInv'
  BY <1>1 DEF Call
<1>2. ASSUME NEW c \in Caller, GetManager(c) PROVE SlotInv'
  BY <1>2 DEF GetManager
<1>3. ASSUME NEW c \in Caller, PickWorker(c) PROVE SlotInv'
  <2>1. /\ slot' = slot
        /\ ~InSlot(c) /\ ~InSlot(c)'
        /\ \A d \in Caller : d # c => pc'[d] = pc[d] /\ at'[d] = at[d]
    BY <1>3 DEF PickWorker
  <2> QED
    BY <2>1
<1>4. ASSUME NEW c \in Caller, TakeSlot(c) PROVE SlotInv'
  BY <1>4 DEF TakeSlot
<1>5. ASSUME NEW c \in Caller, GiveUp(c) PROVE SlotInv'
  BY <1>5 DEF GiveUp
<1>6. ASSUME NEW c \in Caller, UseBrowser(c) PROVE SlotInv'
  BY <1>6 DEF UseBrowser
<1>7. ASSUME NEW c \in Caller, Discard(c) PROVE SlotInv'
  BY <1>7 DEF Discard
<1>8. ASSUME NEW c \in Caller, NEW p \in Pid, Launch(c, p) PROVE SlotInv'
  BY <1>8 DEF Launch
<1>9. ASSUME NEW c \in Caller, BootOk(c) PROVE SlotInv'
  BY <1>9 DEF BootOk
<1>10. ASSUME NEW c \in Caller, BootFails(c) PROVE SlotInv'
  BY <1>10 DEF BootFails
<1>11. ASSUME NEW c \in Caller, TabCompletes(c) \/ TabFails(c) PROVE SlotInv'
  BY <1>11 DEF TabCompletes, TabFails, LeaveTab
<1>12. CASE Restart
  BY <1>12 DEF Restart
<1>13. CASE UNCHANGED <<slot, pc, at>>
  BY <1>13
<1> QED
  BY <1>1, <1>2, <1>3, <1>4, <1>5, <1>6, <1>7, <1>8, <1>9, <1>10, <1>11,
     <1>12, <1>13
  DEF Next, CallerStep, BrowserStep, CloserStep, vars, ContextEnds,
      VisitSetsCookie, Crash, LoseConnection, KillLost, CloseBegin,
      CloseWorker, CloseEnd

\* A worker serves one render at a time, for any number of callers, workers
\* and managers, whatever crashes, closes or times out.
THEOREM RendersAreSerialized == Spec => []OneRenderPerWorker
<1>1. TypeInv /\ SlotInv /\ [Next]_vars => (TypeInv /\ SlotInv)'
  BY TypeInvStep, SlotStep DEF TypeInv
<1>2. SlotInv => OneRenderPerWorker
  BY DEF SlotInv
<1> QED
  BY <1>1, <1>2, TypeInvInit, SlotInit, PTL DEF Spec

-----------------------------------------------------------------------------
(* The browsers.  w.mu is held while a browser starts, and then the worker   *)
(* has no other; a running browser is the worker's or is starting; and a     *)
(* browser in use is the worker's, because only the render in the slot, or   *)
(* Close, takes the worker's browser away.                                   *)

Starting(c) == pc[c] \in {"boot", "booting"}

BrowserInv ==
    /\ \A c \in Caller : Starting(c) => mu[at[c]] = c /\ handle[at[c]] = Nobody
    /\ \A c \in Caller : pc[c] = "booting" => proc[c] \in Pid /\ home[proc[c]] = at[c]
    /\ \A w \in Worker : handle[w] # Nobody => home[handle[w]] = w
    /\ NoStrayBrowser
    /\ TabInCurrentBrowser

LEMMA BrowserInit == Init => BrowserInv
<1> SUFFICES ASSUME Init PROVE BrowserInv
  OBVIOUS
<1>1. \A c \in Caller : pc[c] = "idle"
  BY DEF Init
<1>2. \A w \in Worker : handle[w] = Nobody
  BY DEF Init
<1>3. running = {}
  BY DEF Init
<1> QED
  BY <1>1, <1>2, <1>3
  DEF BrowserInv, Starting, NoStrayBrowser, TabInCurrentBrowser

\* A caller that is not at a browser, before or after the step, may move.
LEMMA SameBrowsers ==
  ASSUME BrowserInv, NEW c \in Caller,
         UNCHANGED <<closed, mu, handle, running, home>>,
         ~Starting(c), pc'[c] \in {"idle", "wait"},
         \A d \in Caller : d # c =>
            pc'[d] = pc[d] /\ at'[d] = at[d] /\ proc'[d] = proc[d]
  PROVE  BrowserInv'
<1> USE DEF BrowserInv, Starting
<1>1. \A d \in Caller : Starting(d)' => d # c /\ Starting(d)
  OBVIOUS
<1>2. \A d \in Caller : pc'[d] = "tab" => d # c /\ pc[d] = "tab"
  OBVIOUS
<1>3. NoStrayBrowser'
  <2> SUFFICES ASSUME NEW p \in running'
               PROVE  \/ handle'[home'[p]] = p
                      \/ \E d \in Caller : pc'[d] = "booting" /\ proc'[d] = p
    BY DEF NoStrayBrowser
  <2>1. CASE handle[home[p]] = p
    BY <2>1
  <2>2. ASSUME NEW d \in Caller, pc[d] = "booting", proc[d] = p
        PROVE  pc'[d] = "booting" /\ proc'[d] = p
    BY <2>2
  <2> QED
    BY <2>1, <2>2 DEF NoStrayBrowser
<1>4. TabInCurrentBrowser'
  BY <1>2 DEF TabInCurrentBrowser
<1> QED
  BY <1>1, <1>3, <1>4

LEMMA BrowserStepInv ==
  TypeInv /\ SlotInv /\ BrowserInv /\ [Next]_vars => BrowserInv'
<1> SUFFICES ASSUME TypeOK, ManagerLeft, SlotInv, BrowserInv, [Next]_vars
             PROVE  BrowserInv'
  BY DEF TypeInv
<1> USE PoolAssumption, WorkerIs
    DEF Goto, TypeOK, BrowserInv, Starting, NoStrayBrowser, TabInCurrentBrowser
<1>1. ASSUME NEW c \in Caller, Call(c) PROVE BrowserInv'
  BY <1>1 DEF Call
<1>2. ASSUME NEW c \in Caller, GetManager(c) PROVE BrowserInv'
  BY <1>2 DEF GetManager
<1>3. ASSUME NEW c \in Caller, PickWorker(c) PROVE BrowserInv'
  <2>1. /\ UNCHANGED <<closed, mu, handle, running, home, proc>>
        /\ pc[c] = "pick" /\ pc'[c] \in {"idle", "wait"}
        /\ \A d \in Caller : d # c => pc'[d] = pc[d] /\ at'[d] = at[d]
    BY <1>3 DEF PickWorker
  <2> QED
    BY <2>1, SameBrowsers
<1>4. ASSUME NEW c \in Caller, TakeSlot(c) \/ GiveUp(c) PROVE BrowserInv'
  BY <1>4 DEF TakeSlot, GiveUp
<1>5. ASSUME NEW c \in Caller, UseBrowser(c) PROVE BrowserInv'
  BY <1>5 DEF UseBrowser, Alive
<1>6. ASSUME NEW c \in Caller, Discard(c) PROVE BrowserInv'
  <2>1. \A d \in Caller : InSlot(d) /\ at[d] = at[c] => d = c
    BY <1>6 DEF SlotInv, OneRenderPerWorker, InSlot, Discard
  <2> QED
    BY <1>6, <2>1 DEF Discard, InSlot
<1>7. ASSUME NEW c \in Caller, NEW p \in Pid, Launch(c, p) PROVE BrowserInv'
  <2>1. /\ \A w \in Worker : handle[w] # p
        /\ \A d \in Caller : proc[d] # p
        /\ p \notin running
    BY <1>7 DEF Launch, Free
  <2> QED
    BY <1>7, <2>1 DEF Launch
<1>8. ASSUME NEW c \in Caller, BootOk(c) PROVE BrowserInv'
  <2>1. \A d \in Caller : InSlot(d) /\ at[d] = at[c] => d = c
    BY <1>8 DEF SlotInv, OneRenderPerWorker, InSlot, BootOk
  <2> QED
    BY <1>8, <2>1 DEF BootOk, InSlot
<1>9. ASSUME NEW c \in Caller, BootFails(c) PROVE BrowserInv'
  <2>1. \A d \in Caller : InSlot(d) /\ at[d] = at[c] => d = c
    BY <1>9 DEF SlotInv, OneRenderPerWorker, InSlot, BootFails
  <2> QED
    BY <1>9, <2>1 DEF BootFails, InSlot
<1>10. ASSUME NEW c \in Caller, TabCompletes(c) \/ TabFails(c) PROVE BrowserInv'
  <2>1. /\ UNCHANGED <<closed, mu, handle, running, home, at>>
        /\ pc[c] = "tab" /\ pc'[c] = "idle"
        /\ \A d \in Caller : d # c => pc'[d] = pc[d] /\ proc'[d] = proc[d]
    BY <1>10 DEF TabCompletes, TabFails, LeaveTab
  <2> QED
    BY <2>1, SameBrowsers
<1>11. ASSUME NEW p \in Pid, Crash(p) \/ KillLost(p) PROVE BrowserInv'
  BY <1>11 DEF Crash, KillLost
<1>12. CASE CloseBegin
  BY <1>12 DEF CloseBegin
<1>13. CASE CloseWorker
  <2> DEFINE w == <<manager, closeNext>>
  <2>1. w \in Worker /\ manager \in closed
    <3>1. manager \in Manager /\ closeNext \in Index /\ manager \in closed
      BY <1>13 DEF CloseWorker, ManagerLeft, Manager, Index
    <3> QED
      BY <3>1
  <2>2. /\ mu[w] = Nobody
        /\ \A c \in Caller : Starting(c) => at[c] # w
    <3>1. mu[w] = Nobody
      BY <1>13 DEF CloseWorker
    <3> HIDE DEF w
    <3> QED
      BY <3>1
  <2>3. \A v \in Worker : v # w => handle'[v] = handle[v]
    BY <1>13, <2>1 DEF CloseWorker
  <2>4. handle'[w] = Nobody /\ running' = running \ {handle[w]}
    BY <1>13, <2>1 DEF CloseWorker
  <2>5. UNCHANGED <<closed, mu, home, pc, at, proc>>
    BY <1>13 DEF CloseWorker
  <2>6. w[1] = manager
    OBVIOUS
  <2> HIDE DEF w
  <2>7. TabInCurrentBrowser'
    BY <2>1, <2>3, <2>5, <2>6
  <2>8. NoStrayBrowser'
    BY <2>1, <2>3, <2>4, <2>5
  <2>9. \A c \in Caller : Starting(c)' =>
            at[c] # w /\ at[c] \in Worker /\ mu[at[c]] = c /\ handle[at[c]] = Nobody
    BY <2>2, <2>5
  <2>10. \A c \in Caller : Starting(c)' => mu'[at'[c]] = c /\ handle'[at'[c]] = Nobody
    BY <2>3, <2>5, <2>9
  <2>11. \A c \in Caller : pc'[c] = "booting" => proc'[c] \in Pid /\ home'[proc'[c]] = at'[c]
    BY <2>5
  <2>12. \A v \in Worker : handle'[v] # Nobody => home'[handle'[v]] = v
    BY <2>1, <2>3, <2>4, <2>5
  <2> QED
    BY <2>7, <2>8, <2>10, <2>11, <2>12
<1>14. CASE Restart
  <2>1. \A c \in Caller : pc'[c] = "idle"
    BY <1>14 DEF Restart
  <2>2. \A w \in Worker : handle'[w] = Nobody
    BY <1>14 DEF Restart
  <2>3. running' = {}
    BY <1>14 DEF Restart
  <2> QED
    BY <2>1, <2>2, <2>3
<1>15. CASE UNCHANGED <<closed, mu, handle, running, home, pc, at, proc>>
  BY <1>15
<1> QED
  BY <1>1, <1>2, <1>3, <1>4, <1>5, <1>6, <1>7, <1>8, <1>9, <1>10, <1>11,
     <1>12, <1>13, <1>14, <1>15
  DEF Next, CallerStep, BrowserStep, CloserStep, vars, ContextEnds,
      VisitSetsCookie, LoseConnection, CloseEnd

PoolInv == TypeInv /\ SlotInv /\ BrowserInv

LEMMA PoolInvInit == Init => PoolInv
BY TypeInvInit, SlotInit, BrowserInit DEF PoolInv

LEMMA PoolInvStep == PoolInv /\ [Next]_vars => PoolInv'
BY TypeInvStep, SlotStep, BrowserStepInv DEF PoolInv, TypeInv

\* No browser process is out of reach of the worker that started it.
THEOREM BrowsersAreReachable == Spec => []NoStrayBrowser
<1>1. PoolInv => NoStrayBrowser
  BY DEF PoolInv, BrowserInv
<1> QED
  BY <1>1, PoolInvInit, PoolInvStep, PTL DEF Spec

\* A tab stays in its worker's current browser until Close takes it away,
\* although ensure gives the browser's context out and unlocks w.mu first.
THEOREM TabsStayCurrent == Spec => []TabInCurrentBrowser
<1>1. PoolInv => TabInCurrentBrowser
  BY DEF PoolInv, BrowserInv
<1> QED
  BY <1>1, PoolInvInit, PoolInvStep, PTL DEF Spec

\* As long as nobody calls Close, no two browsers share a profile directory:
\* with one manager, a profile is one worker's.
THEOREM ProfilesAreExclusive ==
  ASSUME MaxManagers = 1
  PROVE  Spec => []OneBrowserPerProfile
<1>1. PoolInv => OneBrowserPerProfile
  <2> SUFFICES ASSUME TypeOK, SlotInv, BrowserInv,
                      NEW p \in running, NEW q \in running,
                      home[p][2] = home[q][2]
               PROVE  p = q
    BY DEF PoolInv, TypeInv, OneBrowserPerProfile
  <2>1. /\ p \in Pid /\ q \in Pid
        /\ home[p] \in Worker /\ home[q] \in Worker
    BY DEF TypeOK
  <2>2. home[p] = home[q]
    <3>1. home[p][1] = 1 /\ home[q][1] = 1
      BY <2>1, WorkerIs DEF Manager
    <3> QED
      BY <2>1, <3>1, WorkerIs
  <2>3. CASE handle[home[p]] = p /\ handle[home[q]] = q
    BY <2>2, <2>3
  <2>4. ASSUME NEW c \in Caller, pc[c] = "booting", proc[c] = p
        PROVE  p = q
    <3>1. home[p] = at[c] /\ handle[at[c]] = Nobody /\ q # Nobody
      BY <2>1, <2>4, PoolAssumption DEF BrowserInv, Starting
    <3>2. PICK d \in Caller : pc[d] = "booting" /\ proc[d] = q
      <4>1. handle[home[q]] # q
        BY <2>2, <3>1
      <4>2. NoStrayBrowser
        BY DEF BrowserInv
      <4> QED
        BY <4>1, <4>2 DEF NoStrayBrowser
    <3>3. home[q] = at[d]
      BY <3>2 DEF BrowserInv
    <3>4. c = d
      BY <2>2, <2>4, <3>1, <3>2, <3>3 DEF SlotInv, OneRenderPerWorker, InSlot
    <3> QED
      BY <2>4, <3>2, <3>4
  <2>5. ASSUME NEW d \in Caller, pc[d] = "booting", proc[d] = q,
               handle[home[p]] = p
        PROVE  p = q
    <3>1. home[q] = at[d] /\ handle[at[d]] = Nobody /\ p # Nobody
      BY <2>1, <2>5, PoolAssumption DEF BrowserInv, Starting
    <3> QED
      BY <2>2, <2>5, <3>1
  <2> QED
    BY <2>3, <2>4, <2>5 DEF BrowserInv, NoStrayBrowser
<1> QED
  BY <1>1, PoolInvInit, PoolInvStep, PTL DEF Spec

-----------------------------------------------------------------------------
(* The profiles.  Only a manager's creation lets a render go on, and it      *)
(* wipes; the cookies of an earlier run are there only before it.            *)

CookieInv ==
    /\ \A i \in Index : "old" \in cookies[i] => created = 0
    /\ running # {} => created # 0
    /\ \A c \in Caller : pc[c] \notin {"idle", "get"} => created # 0

LEMMA CookieStep ==
  ASSUME ~WipeMayFail, TypeInv, CookieInv, [Next]_vars
  PROVE  CookieInv'
<1> USE DEF Goto, TypeInv, TypeOK, CookieInv
<1>1. ASSUME NEW c \in Caller, Call(c) PROVE CookieInv'
  BY <1>1 DEF Call
<1>2. ASSUME NEW c \in Caller, GetManager(c) PROVE CookieInv'
  <2>1. CASE manager = 0
    <3>1. created' # 0 /\ \A i \in Index : cookies'[i] = {}
      BY <1>2, <2>1 DEF GetManager, Wipe
    <3> QED
      BY <3>1
  <2>2. CASE manager # 0
    BY <1>2, <2>2 DEF GetManager
  <2> QED
    BY <2>1, <2>2
<1>3. ASSUME NEW c \in Caller, PickWorker(c) PROVE CookieInv'
  <2>1. /\ UNCHANGED <<cookies, created, running>>
        /\ pc[c] = "pick"
        /\ \A d \in Caller : d # c => pc'[d] = pc[d]
    BY <1>3 DEF PickWorker
  <2> QED
    BY <2>1
<1>4. ASSUME NEW c \in Caller, NEW p \in Pid, Launch(c, p) PROVE CookieInv'
  BY <1>4 DEF Launch
<1>5. ASSUME NEW c \in Caller,
             \/ TakeSlot(c) \/ GiveUp(c) \/ UseBrowser(c) \/ Discard(c)
             \/ BootOk(c) \/ BootFails(c) \/ TabCompletes(c) \/ TabFails(c)
      PROVE  CookieInv'
  BY <1>5 DEF TakeSlot, GiveUp, UseBrowser, Discard, BootOk, BootFails,
              TabCompletes, TabFails, LeaveTab
<1>6. ASSUME NEW c \in Caller, VisitSetsCookie(c) PROVE CookieInv'
  BY <1>6, WorkerIs DEF VisitSetsCookie
<1>7. ASSUME NEW p \in Pid, Crash(p) \/ KillLost(p) PROVE CookieInv'
  BY <1>7 DEF Crash, KillLost
<1>8. CASE CloseWorker
  BY <1>8 DEF CloseWorker
<1>9. CASE Restart
  BY <1>9 DEF Restart
<1>10. CASE UNCHANGED <<cookies, created, running, pc>>
  BY <1>10
<1> QED
  BY <1>1, <1>2, <1>3, <1>4, <1>5, <1>6, <1>7, <1>8, <1>9, <1>10
  DEF Next, CallerStep, BrowserStep, CloserStep, vars, ContextEnds,
      LoseConnection, CloseBegin, CloseEnd

\* No browser runs on a profile with cookies of an earlier server run, as long
\* as RemoveAll succeeds, through any number of restarts and crashes.
THEOREM CookiesAreFresh ==
  ASSUME ~WipeMayFail
  PROVE  Spec => []CookiesFromThisRun
<1>1. Init => CookieInv
  BY DEF Init, CookieInv
<1>2. TypeInv /\ CookieInv /\ [Next]_vars => (TypeInv /\ CookieInv)'
  BY TypeInvStep, CookieStep
<1>3. TypeInv /\ CookieInv => CookiesFromThisRun
  BY WorkerIs DEF TypeInv, TypeOK, CookieInv, CookiesFromThisRun
<1> QED
  BY <1>1, <1>2, <1>3, TypeInvInit, PTL DEF Spec

=============================================================================
