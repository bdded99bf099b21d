--------------------------- MODULE RenderTabProofs --------------------------
(* What is proved of RenderTab, and of the script of Stealth, for any sites, *)
(* browsers and waits.                                                       *)
EXTENDS RenderTab, TLAPS

-----------------------------------------------------------------------------
(* Type correctness.                                                         *)

\* From the navigation on there is a document, before it there is none.
DocInv ==
    /\ pc \in {"inject", "emulate", "navigate"} => doc = Blank /\ docs = 0
    /\ pc \notin {"inject", "emulate", "navigate", "done"} => doc # Blank

LEMMA FactsAre ==
  /\ NoFacts \in PageFacts
  /\ \A d \in Doc : SeenHTML(d) \in PageFacts /\ SeenTitle(d) \in Title
  /\ \A s \in Site : Open(s).site = s /\ Open(s).patched = injected /\ Open(s).parsed = FALSE
  /\ \A s \in Site : injected \in BOOLEAN => Open(s) \in Doc /\ Open(s) # Blank
  /\ \A d \in Doc : d # Blank
<1>1. NoFacts \in PageFacts
  BY DEF NoFacts, PageFacts
<1>2. ASSUME NEW d \in Doc PROVE SeenHTML(d) \in PageFacts /\ SeenTitle(d) \in Title
  <2>1. d.site.facts \in PageFacts /\ d.site.cut \in PageFacts
    BY TabAssumption DEF Doc
  <2> QED
    BY <1>1, <2>1 DEF SeenHTML, SeenTitle, Title
<1>3. \A s \in Site : Open(s).site = s /\ Open(s).patched = injected /\ Open(s).parsed = FALSE
  BY DEF Open
<1>4. ASSUME NEW d \in Doc PROVE d # Blank
  BY DEF Doc, Blank
<1>5. ASSUME NEW s \in Site, injected \in BOOLEAN PROVE Open(s) \in Doc
  BY <1>5 DEF Open, Doc
<1> QED
  BY <1>1, <1>2, <1>3, <1>4, <1>5

LEMMA VerdictIs ==
  \A f \in PageFacts, b \in BOOLEAN : ClassifyPage([f EXCEPT !.title = b]) \in PageBlock \cup {BlockNone}
BY DEF ClassifyPage, PageBlock

LEMMA TypeInit == Init => TypeOK /\ DocInv
<1> SUFFICES ASSUME Init PROVE TypeOK /\ DocInv
  OBVIOUS
<1>1. docs \in 0 .. MaxDocs /\ waited \in 0 .. MaxWait
  <2>1. docs = 0 /\ waited = 0
    BY DEF Init
  <2>2. MaxDocs \in Nat /\ MaxWait \in Nat
    BY TabAssumption
  <2> QED
    BY <2>1, <2>2
<1> QED
  BY <1>1, FactsAre DEF Init, TypeOK, DocInv, Title

LEMMA TypeStep == TypeOK /\ DocInv /\ [Next]_vars => TypeOK' /\ DocInv'
<1> SUFFICES ASSUME TypeOK, DocInv, [Next]_vars PROVE TypeOK' /\ DocInv'
  OBVIOUS
<1> USE TabAssumption
<1>1. CASE Inject
  BY <1>1 DEF Inject, TypeOK, DocInv
<1>2. CASE Emulate
  BY <1>2 DEF Emulate, TypeOK, DocInv
<1>3. CASE Navigate
  BY <1>3, FactsAre DEF Navigate, TypeOK, DocInv
<1>4. CASE Ready
  BY <1>4 DEF Ready, TypeOK, DocInv
<1>5. CASE Poll
  BY <1>5 DEF Poll, TypeOK, DocInv, Doc
<1>6. CASE Sleep
  BY <1>6 DEF Sleep, TypeOK, DocInv
<1>7. CASE ReadTitle
  BY <1>7, FactsAre DEF ReadTitle, TypeOK, DocInv
<1>8. CASE ReadHTML
  BY <1>8, FactsAre DEF ReadHTML, TypeOK, DocInv
<1>9. CASE Classify
  <2> DEFINE kind == ClassifyPage([html EXCEPT !.title = title = "challenge" \/ (title = "" /\ @)])
  <2>1. html \in PageFacts
    BY DEF TypeOK
  <2>2. kind \in PageBlock \cup {BlockNone}
    BY <2>1, VerdictIs DEF PageFacts
  <2>3. /\ out' = (IF kind = BlockNone THEN [tag |-> "page"] ELSE [tag |-> "block", kind |-> kind])
        /\ pc' = "done" /\ pc = "classify"
        /\ UNCHANGED <<browser, persona, injected, doc, docs, waited, title, html, steady>>
    BY <1>9 DEF Classify
  <2> HIDE DEF kind
  <2>4. /\ out' \in {[tag |-> "page"]} \cup {[tag |-> "block", kind |-> k] : k \in PageBlock}
        /\ out' # None
    BY <2>2, <2>3 DEF None
  <2> QED
    BY <2>3, <2>4 DEF TypeOK, DocInv
<1>10. CASE CallFails
  BY <1>10 DEF CallFails, TypeOK, DocInv, None
<1>11. CASE Parse
  <2>1. doc \in Doc
    BY <1>11 DEF Parse, TypeOK
  <2>2. (doc.site.dynamic => ~createElementThrows(Win(doc))) \in BOOLEAN
    BY <2>1 DEF Doc
  <2>3. doc' \in Doc
    BY <1>11, <2>1, <2>2 DEF Parse, Doc
  <2>4. doc' # Blank
    BY <2>3, FactsAre
  <2>5. doc # Blank /\ UNCHANGED <<pc, browser, persona, injected, docs, waited, title, html,
                                   steady, out>>
    BY <1>11 DEF Parse
  <2> QED
    BY <2>3, <2>4, <2>5 DEF TypeOK, DocInv
<1>12. CASE PageNavigates
  <2>1. docs' \in 0 .. MaxDocs
    BY <1>12 DEF PageNavigates, TypeOK
  <2>2. doc' \in Doc /\ doc' # Blank
    BY <1>12, FactsAre DEF PageNavigates, TypeOK
  <2>3. /\ doc # Blank /\ steady' = FALSE
        /\ UNCHANGED <<pc, browser, persona, injected, waited, title, html, out>>
    BY <1>12 DEF PageNavigates
  <2> QED
    BY <2>1, <2>2, <2>3 DEF TypeOK, DocInv
<1>13. CASE Elapse
  BY <1>13 DEF Elapse, TypeOK, DocInv
<1>14. CASE UNCHANGED vars
  BY <1>14 DEF vars, TypeOK, DocInv
<1> QED
  BY <1>1, <1>2, <1>3, <1>4, <1>5, <1>6, <1>7, <1>8, <1>9, <1>10, <1>11, <1>12, <1>13,
     <1>14 DEF Next, Returned

LEMMA AlwaysTyped == Spec => [](TypeOK /\ DocInv)
<1> QED
  BY TypeInit, TypeStep, PTL DEF Spec

\* The state of a render has its shape, and a render that is over has returned
\* something (session.go:119-175).
THEOREM TypeCorrect == Spec => []TypeOK
<1> QED
  BY AlwaysTyped, PTL

-----------------------------------------------------------------------------
(* The injection.                                                            *)

\* The script is registered before there is a document, and stays so.
InjectInv ==
    /\ pc \notin {"inject", "done"} => injected
    /\ doc # Blank => injected /\ doc.patched

LEMMA InjectInit == Init => InjectInv
BY DEF Init, InjectInv

LEMMA InjectStep == TypeOK /\ DocInv /\ InjectInv /\ [Next]_vars => InjectInv'
<1> SUFFICES ASSUME TypeOK, DocInv, InjectInv, [Next]_vars PROVE InjectInv'
  OBVIOUS
<1>1. CASE /\ UNCHANGED <<injected, doc>>
           /\ pc \in {"inject", "done"} => pc' \in {"inject", "done"}
  BY <1>1 DEF InjectInv
<1>2. CASE Emulate \/ Ready \/ Poll \/ Sleep \/ ReadTitle \/ ReadHTML \/ Classify
  BY <1>1, <1>2 DEF Emulate, Ready, Poll, Sleep, ReadTitle, ReadHTML, Classify
<1>3. CASE CallFails
  BY <1>1, <1>3 DEF CallFails
<1>4. CASE Elapse \/ UNCHANGED vars
  BY <1>1, <1>4 DEF Elapse, vars
<1>5. CASE Inject
  BY <1>5 DEF Inject, InjectInv
<1>6. CASE Navigate
  BY <1>6, FactsAre DEF Navigate, InjectInv
<1>7. CASE PageNavigates
  BY <1>7, FactsAre DEF PageNavigates, InjectInv
<1>8. CASE Parse
  <2>1. doc \in Doc /\ doc'.patched = doc.patched /\ injected' = injected /\ pc' = pc
    BY <1>8 DEF Parse, TypeOK, Doc
  <2> QED
    BY <1>8, <2>1 DEF Parse, InjectInv
<1> QED
  BY <1>2, <1>3, <1>4, <1>5, <1>6, <1>7, <1>8 DEF Next, Returned

\* On every document of a tab, also on those a challenge went on to by itself,
\* the script has run before anything of the page's (session.go:125-130).
THEOREM ScriptIsFirst == Spec => []ScriptComesFirst
<1>1. InjectInv => ScriptComesFirst
  BY DEF InjectInv, ScriptComesFirst
<1> QED
  BY <1>1, AlwaysTyped, InjectInit, InjectStep, PTL DEF Spec

-----------------------------------------------------------------------------
(* The verdict.                                                              *)

\* As long as the tab is at the document at which the wait ended, what has been
\* read of it is its title and the cut HTML, and the verdict is on that.
SteadyInv ==
    steady =>
        /\ doc # Blank /\ doc.parsed
        /\ pc \in {"html", "classify"} => title = SeenTitle(doc)
        /\ pc = "classify" => html = SeenHTML(doc)
        /\ out.tag = "page" =>
              ClassifyPage([doc.site.cut EXCEPT !.title = doc.site.facts.title]) = BlockNone

LEMMA SteadyInit == Init => SteadyInv
BY DEF Init, SteadyInv

LEMMA SteadyStep == TypeOK /\ DocInv /\ SteadyInv /\ [Next]_vars => SteadyInv'
<1> SUFFICES ASSUME TypeOK, DocInv, SteadyInv, [Next]_vars PROVE SteadyInv'
  OBVIOUS
<1>0. pc # "done" => out = None /\ out.tag # "page"
  BY DEF TypeOK, None
<1>1. CASE /\ UNCHANGED <<doc, steady, out>> /\ pc' \notin {"html", "classify"}
  BY <1>1 DEF SteadyInv
<1>2. CASE Inject \/ Emulate \/ Ready \/ Sleep
  BY <1>1, <1>2 DEF Inject, Emulate, Ready, Sleep
<1>3. CASE Navigate
  BY <1>3 DEF Navigate, SteadyInv, DocInv
<1>4. CASE Poll
  <2>1. /\ pc = "wait" /\ pc' \in {"sleep", "title"} /\ steady' = doc.parsed
        /\ UNCHANGED <<doc, out>>
    BY <1>4 DEF Poll
  <2>2. doc # Blank
    BY <2>1 DEF DocInv
  <2> QED
    BY <1>0, <2>1, <2>2 DEF SteadyInv
<1>5. CASE ReadTitle
  BY <1>5, <1>0 DEF ReadTitle, SteadyInv
<1>6. CASE ReadHTML
  BY <1>6, <1>0 DEF ReadHTML, SteadyInv
<1>7. CASE Classify
  <2> DEFINE seen == [html EXCEPT !.title = title = "challenge" \/ (title = "" /\ @)]
  <2>1. /\ pc = "classify" /\ pc' = "done" /\ UNCHANGED <<doc, steady>>
        /\ out' = IF ClassifyPage(seen) = BlockNone THEN [tag |-> "page"]
                  ELSE [tag |-> "block", kind |-> ClassifyPage(seen)]
    BY <1>7 DEF Classify
  <2>2. ASSUME steady
        PROVE  ClassifyPage(seen) =
                 ClassifyPage([doc.site.cut EXCEPT !.title = doc.site.facts.title])
    <3>1. doc \in Doc /\ doc.parsed
      BY <2>2 DEF SteadyInv, TypeOK
    <3>2. doc.site.facts \in PageFacts /\ doc.site.cut \in PageFacts
      BY <3>1, TabAssumption DEF Doc
    <3>3. /\ html = doc.site.cut
          /\ title = IF doc.site.facts.title THEN "challenge" ELSE "clean"
      BY <2>1, <2>2, <3>1 DEF SteadyInv, SeenHTML, SeenTitle
    <3>4. seen = [doc.site.cut EXCEPT !.title = doc.site.facts.title]
      BY <3>2, <3>3 DEF PageFacts
    <3> QED
      BY <3>4
  <2>3. out'.tag = "page" => ClassifyPage(seen) = BlockNone
    BY <2>1
  <2> HIDE DEF seen
  <2> QED
    BY <2>1, <2>2, <2>3 DEF SteadyInv
<1>8. CASE CallFails
  BY <1>8 DEF CallFails, SteadyInv
<1>9. CASE Parse
  <2>1. ~steady /\ steady' = steady
    BY <1>9 DEF Parse, SteadyInv
  <2> QED
    BY <2>1 DEF SteadyInv
<1>10. CASE PageNavigates
  BY <1>10 DEF PageNavigates, SteadyInv
<1>11. CASE Elapse
  BY <1>11 DEF Elapse, SteadyInv
<1>12. CASE UNCHANGED vars
  BY <1>12 DEF vars, SteadyInv
<1> QED
  BY <1>2, <1>3, <1>4, <1>5, <1>6, <1>7, <1>8, <1>9, <1>10, <1>11, <1>12 DEF Next, Returned

\* If the wait ended at a parsed document and the tab stayed there, a page that
\* is returned is no challenge by its title and by the HTML that is left of it
\* after the cut (session.go:144-165).
THEOREM ChallengesAreReported == Spec => []NoChallengeAsContent
<1>1. SteadyInv => NoChallengeAsContent
  BY DEF SteadyInv, NoChallengeAsContent
<1> QED
  BY <1>1, AlwaysTyped, SteadyInit, SteadyStep, PTL DEF Spec

-----------------------------------------------------------------------------
(* What the script makes of a window.                                        *)

\* Windows whose tower answers for every replaced function, in each layer with
\* its name.
Covered ==
    {w \in Window : /\ \A i \in DOMAIN w.tower : w.tower[i].named
                   /\ \A f \in w.made : \E i \in DOMAIN w.tower : w.tower[i].fn = f}

\* Those in which a block with utils of its own is at work.
Working == {w \in Covered : w.named}

Patching == INSTANCE FoldLemmas WITH op <- patchToString

\* What Evaluate does with one block more.
RunBlock(w, name) == IF w.thrown THEN w ELSE Block(preloadCache(w), name)

Running == INSTANCE FoldLemmas WITH op <- RunBlock

\* Names are derived from what toString itself prints as, and that has a name
\* below however many layers.
LEMMA UtilsAreNamed ==
  ASSUME NEW w \in Covered
  PROVE  preloadCache(w) \in Working
<1>1. w \in Window /\ w.tower \in Seq(Layer) /\ \A i \in DOMAIN w.tower : w.tower[i].named
  BY DEF Covered, Window
<1>2. ToStringOfToString(w) = Native("toString")
  <2>1. CASE w.tower = <<>>
    BY <2>1 DEF ToStringOfToString
  <2>2. CASE w.tower # <<>>
    <3>1. Last(w.tower) = w.tower[Len(w.tower)] /\ Len(w.tower) \in DOMAIN w.tower
      BY <1>1, <2>2 DEF Last
    <3>2. Last(w.tower).named
      BY <1>1, <3>1
    <3> QED
      BY <2>2, <3>2 DEF ToStringOfToString, makeNativeString
  <2> QED
    BY <2>1, <2>2
<1>3. preloadCache(w) = [w EXCEPT !.named = TRUE]
  BY <1>2 DEF preloadCache
<1> DEFINE x == [w EXCEPT !.named = TRUE]
<1>4. x \in Window /\ x.named /\ x.tower = w.tower /\ x.made = w.made
  BY <1>1 DEF Window
<1>5. \A f \in w.made : \E i \in DOMAIN w.tower : w.tower[i].fn = f
  BY DEF Covered
<1> HIDE DEF x
<1>6. x \in Working
  BY <1>1, <1>4, <1>5 DEF Working, Covered
<1> QED
  BY <1>3, <1>6 DEF x

\* What changes neither the functions nor the tower keeps a window so.
LEMMA OthersKeep ==
  ASSUME NEW w \in Working, NEW x \in Window,
         x.tower = w.tower, x.made = w.made, x.named = w.named
  PROVE  x \in Working
<1>1. /\ w.named
      /\ \A i \in DOMAIN w.tower : w.tower[i].named
      /\ \A f \in w.made : \E i \in DOMAIN w.tower : w.tower[i].fn = f
  BY DEF Working, Covered
<1> QED
  BY <1>1 DEF Working, Covered

LEMMA PatchKeeps ==
  ASSUME NEW w \in Working, NEW f \in Fn
  PROVE  patchToString(w, f) \in Working
<1> DEFINE layer == [fn |-> f, named |-> w.named]
           x == patchToString(w, f)
           n == Len(w.tower)
<1>1. /\ w \in Window /\ w.tower \in Seq(Layer) /\ w.made \subseteq Fn /\ w.named = TRUE
      /\ \A i \in DOMAIN w.tower : w.tower[i].named
      /\ \A g \in w.made : \E i \in DOMAIN w.tower : w.tower[i].fn = g
  BY DEF Working, Covered, Window
<1>2. layer \in Layer /\ layer.named /\ layer.fn = f
  BY <1>1 DEF Layer
<1> HIDE DEF layer
<1>3. /\ Append(w.tower, layer) \in Seq(Layer)
      /\ n \in Nat /\ DOMAIN w.tower = 1 .. n /\ DOMAIN Append(w.tower, layer) = 1 .. n + 1
      /\ \A i \in 1 .. n : Append(w.tower, layer)[i] = w.tower[i]
      /\ Append(w.tower, layer)[n + 1] = layer
  BY <1>1, <1>2
<1>4. x = [w EXCEPT !.made = @ \cup {f}, !.tower = Append(@, layer)]
  BY DEF patchToString, layer
<1>5. /\ x \in Window /\ x.tower = Append(w.tower, layer) /\ x.made = w.made \cup {f}
      /\ x.named = w.named
  <2> DEFINE made == w.made \cup {f}
             tower == Append(w.tower, layer)
  <2>1. x = [w EXCEPT !.made = made, !.tower = tower]
    BY <1>4
  <2>2. made \in SUBSET Fn /\ tower \in Seq(Layer)
    BY <1>1, <1>3
  <2> HIDE DEF x, made, tower
  <2>3. x \in Window /\ x.tower = tower /\ x.made = made /\ x.named = w.named
    BY <1>1, <2>1, <2>2 DEF Window
  <2> QED
    BY <2>3 DEF made, tower
<1> HIDE DEF x, n
<1>6. \A i \in 1 .. n + 1 : x.tower[i].named
  <2> TAKE i \in 1 .. n + 1
  <2>1. i \in 1 .. n \/ i = n + 1
    BY <1>3
  <2> QED
    BY <1>1, <1>2, <1>3, <1>5, <2>1
<1>7. \A g \in x.made : \E i \in 1 .. n + 1 : x.tower[i].fn = g
  <2> TAKE g \in x.made
  <2>1. CASE g = f
    <3>1. n + 1 \in 1 .. n + 1 /\ x.tower[n + 1].fn = f
      BY <1>2, <1>3, <1>5
    <3> QED
      BY <2>1, <3>1
  <2>2. CASE g # f
    <3>1. PICK i \in 1 .. n : w.tower[i].fn = g
      BY <1>1, <1>3, <1>5, <2>2
    <3>2. i \in 1 .. n + 1 /\ x.tower[i] = w.tower[i]
      BY <1>3, <1>5
    <3> QED
      BY <3>1, <3>2
  <2> QED
    BY <2>1, <2>2
<1>8. DOMAIN x.tower = 1 .. n + 1
  BY <1>3, <1>5
<1>9. x \in Working
  BY <1>1, <1>5, <1>6, <1>7, <1>8 DEF Working, Covered
<1> QED
  BY <1>9 DEF x

LEMMA PatchAllKeeps ==
  ASSUME NEW w \in Working, NEW fs \in Seq(Fn)
  PROVE  patchAll(w, fs) \in Working
<1>1. patchAll(w, fs) = Patching!Folded(w, fs)
  BY DEF patchAll, FoldLeft, MapThenFoldSet, Max, Patching!Folded, Patching!Solves, Patching!Max
<1>2. \A x \in Working, f \in Fn : patchToString(x, f) \in Working
  BY PatchKeeps
<1>3. Len(fs) \in Nat /\ DOMAIN fs = 1 .. Len(fs) /\ \A i \in 1 .. Len(fs) : fs[i] \in Fn
  OBVIOUS
<1> QED
  BY <1>1, <1>2, <1>3, Patching!FoldedIn

BlockNames == {Blocks[i] : i \in DOMAIN Blocks}

LEMMA BlockKeeps ==
  ASSUME NEW w \in Working, NEW name \in BlockNames
  PROVE  Block(w, name) \in Covered
<1>1. \A x \in Working : x \in Covered /\ x \in Window
  BY DEF Working, Covered
<1>2. WithChrome(w) \in Working
  <2>1. WithChrome(w) \in Window
    BY <1>1 DEF WithChrome, Window, ChromeProps
  <2>2. /\ WithChrome(w).tower = w.tower
        /\ WithChrome(w).made = w.made /\ WithChrome(w).named = w.named
    BY <1>1 DEF WithChrome, Window
  <2> QED
    BY <2>1, <2>2, OthersKeep
<1>3. ASSUME NEW x \in Working
      PROVE  ChromeApp(x) \in Working
  <2>1. [x EXCEPT !.thrown = TRUE] \in Window
    BY <1>1 DEF Window
  <2>2. [x EXCEPT !.thrown = TRUE] \in Working
    BY <1>1, <2>1, OthersKeep DEF Window
  <2> QED
    BY <2>2 DEF ChromeApp
<1>4. ASSUME NEW x \in Working, NEW f \in {"csi", "loadTimes"}
      PROVE  ChromeFn(x, f) \in Working
  <2> DEFINE y == [x EXCEPT !.chrome = @ \cup {f}]
  <2>1. y \in Window /\ y.tower = x.tower /\ y.made = x.made /\ y.named = x.named
    BY <1>1 DEF Window, ChromeProps
  <2> HIDE DEF y
  <2>2. y \in Working /\ f \in Fn
    BY <2>1, OthersKeep DEF Fn
  <2>3. patchToString(y, f) \in Working
    BY <2>2, PatchKeeps
  <2> QED
    BY <2>3 DEF ChromeFn, y
<1>5. ASSUME NEW x \in Working
      PROVE  ChromeRuntime(x) \in Working
  <2> DEFINE y == [x EXCEPT !.chrome = @ \cup {"runtime"}]
             fs == <<"sendMessage", "connect">>
  <2>1. y \in Window /\ y.tower = x.tower /\ y.made = x.made /\ y.named = x.named
    BY <1>1 DEF Window, ChromeProps
  <2>2. fs \in Seq(Fn)
    BY DEF Fn
  <2> HIDE DEF y, fs
  <2>3. y \in Working
    BY <2>1, OthersKeep
  <2>4. patchAll(y, fs) \in Working
    BY <2>2, <2>3, PatchAllKeeps
  <2> QED
    BY <2>4 DEF ChromeRuntime, y, fs
<1>6. Languages(w) \in Working
  <2> DEFINE y == [w EXCEPT !.languages = "en-US"]
  <2>1. y \in Window /\ y.tower = w.tower /\ y.made = w.made /\ y.named = w.named
    BY <1>1 DEF Window
  <2> HIDE DEF y
  <2>2. y \in Working /\ "languages" \in Fn
    BY <2>1, OthersKeep DEF Fn
  <2>3. patchToString(y, "languages") \in Working
    BY <2>2, PatchKeeps
  <2> QED
    BY <2>3 DEF Languages, y
<1>7. Permissions(w) \in Working
  BY PatchKeeps DEF Permissions, Fn
<1>8. Plugins(w) \in Working
  <2> DEFINE y == [w EXCEPT !.plugins = TRUE]
             fs == <<"item", "namedItem", "item", "namedItem", "refresh">>
  <2>1. y \in Window /\ y.tower = w.tower /\ y.made = w.made /\ y.named = w.named
    BY <1>1 DEF Window
  <2>2. fs \in Seq(Fn)
    BY DEF Fn
  <2> HIDE DEF y, fs
  <2>3. y \in Working
    BY <2>1, OthersKeep
  <2>4. patchAll(y, fs) \in Working
    BY <2>2, <2>3, PatchAllKeeps
  <2> QED
    BY <2>4 DEF Plugins, y, fs
<1>9. \A f \in {"canPlayType", "hardwareConcurrency", "createElement"} :
        patchToString(w, f) \in Working
  BY PatchKeeps DEF Fn
<1>10. [w EXCEPT !.webdriver = FALSE] \in Working
  <2>1. [w EXCEPT !.webdriver = FALSE] \in Window
    BY <1>1 DEF Window
  <2> QED
    BY <1>1, <2>1, OthersKeep DEF Window
<1>11. patchAll(w, <<"getParameter", "getParameter">>) \in Working
  <2>1. <<"getParameter", "getParameter">> \in Seq(Fn)
    BY DEF Fn
  <2> QED
    BY <2>1, PatchAllKeeps
<1>12. name \in {"chrome.app", "chrome.csi", "chrome.loadTimes", "chrome.runtime",
                  "media.codecs", "hardwareConcurrency", "languages", "permissions",
                  "plugins", "webdriver", "webgl", "iframe"}
  BY DEF BlockNames, Blocks
<1>13. Block(w, name) \in Working
  <2>1. CASE name = "chrome.app"
    <3>1. Block(w, name) = ChromeApp(WithChrome(w))
      BY <2>1 DEF Block
    <3> QED
      BY <1>2, <1>3, <3>1
  <2>2. CASE name \in {"chrome.csi", "chrome.loadTimes"}
    <3>1. \E f \in {"csi", "loadTimes"} : Block(w, name) = ChromeFn(WithChrome(w), f)
      BY <2>2 DEF Block
    <3> QED
      BY <1>2, <1>4, <3>1
  <2>3. CASE name = "chrome.runtime"
    <3>1. Block(w, name) = ChromeRuntime(WithChrome(w))
      BY <2>3 DEF Block
    <3> QED
      BY <1>2, <1>5, <3>1
  <2>4. CASE name \in {"media.codecs", "hardwareConcurrency", "iframe"}
    <3>1. \E f \in {"canPlayType", "hardwareConcurrency", "createElement"} :
            Block(w, name) = patchToString(w, f)
      BY <2>4 DEF Block
    <3> QED
      BY <1>9, <3>1
  <2>5. CASE name \in {"languages", "permissions", "plugins"}
    <3>1. Block(w, name) \in {Languages(w), Permissions(w), Plugins(w)}
      BY <2>5 DEF Block
    <3> QED
      BY <1>6, <1>7, <1>8, <3>1
  <2>6. CASE name = "webdriver"
    <3>1. Block(w, name) = [w EXCEPT !.webdriver = FALSE]
      BY <2>6 DEF Block
    <3> QED
      BY <1>10, <3>1
  <2>7. CASE name = "webgl"
    <3>1. Block(w, name) = patchAll(w, <<"getParameter", "getParameter">>)
      BY <2>7 DEF Block
    <3> QED
      BY <1>11, <3>1
  <2> QED
    BY <1>12, <2>1, <2>2, <2>3, <2>4, <2>5, <2>6, <2>7
<1> QED
  BY <1>1, <1>13

LEMMA EvaluateKeeps ==
  ASSUME NEW w \in Covered
  PROVE  Evaluate(w) \in Covered
<1>1. Evaluate(w) = Running!Folded(w, Blocks)
  BY DEF Evaluate, FoldLeft, MapThenFoldSet, RunBlock, Max, Running!Folded, Running!Solves,
     Running!Max
<1>2. \A x \in Covered, name \in BlockNames : RunBlock(x, name) \in Covered
  BY UtilsAreNamed, BlockKeeps DEF RunBlock
<1>3. DOMAIN Blocks = 1 .. 12 /\ \A i \in 1 .. 12 : Blocks[i] \in BlockNames
  BY DEF Blocks, BlockNames
<1> QED
  BY <1>1, <1>2, <1>3, Running!FoldedIn

\* The call finds the layer of a replaced function, and its name.
LEMMA CoveredPrints ==
  ASSUME NEW w \in Covered, NEW f \in w.made
  PROVE  PrintedText(w, f) = Native(Name(f))
<1> DEFINE at == {i \in DOMAIN w.tower : w.tower[i].fn = f}
           n == Len(w.tower)
<1>1. /\ w.tower \in Seq(Layer)
      /\ \A i \in DOMAIN w.tower : w.tower[i].named
      /\ at # {}
  BY DEF Covered, Window
<1>2. n \in Nat /\ DOMAIN w.tower = 1 .. n /\ at \in SUBSET (1 .. n)
  BY <1>1
<1> HIDE DEF at
<1>3. Max(at) \in at
  <2>1. Patching!Max(at) \in at
    BY <1>1, <1>2, Patching!MaxIs
  <2> QED
    BY <2>1 DEF Max, Patching!Max
<1>4. w.tower[Max(at)].named
  BY <1>1, <1>2, <1>3
<1>5. PrintedText(w, f) = makeNativeString(w.tower[Max(at)].named, Name(f))
  BY <1>1 DEF PrintedText, at
<1> QED
  BY <1>4, <1>5 DEF makeNativeString

\* Every function that the script replaces, in any order, prints as the engine's
\* own function of its name in every document that a tab comes to, from whatever
\* window the browser made.
THEOREM ReplacedFunctionsPrintAsNative == Spec => []PrintsAsNative
<1>1. TypeOK => PrintsAsNative
  <2> SUFFICES ASSUME TypeOK, doc # Blank, NEW f \in Win(doc).made
               PROVE  PrintedText(Win(doc), f) = Native(Name(f))
    BY DEF PrintsAsNative
  <2>1. doc \in Doc /\ browser \in Browser /\ doc.site.secure \in BOOLEAN
    BY TabAssumption DEF TypeOK, Doc
  <2> DEFINE b == [browser EXCEPT !.secure = doc.site.secure]
  <2>2. b \in Covered
    <3>1. browser \in Window /\ browser.made = {} /\ browser.tower = <<>>
      BY <2>1, TabAssumption
    <3>2. b \in Window
      BY <2>1, <3>1 DEF Window
    <3>3. b.made = {} /\ b.tower = <<>>
      BY <3>1 DEF Window
    <3> HIDE DEF b
    <3>4. DOMAIN b.tower = {}
      BY <3>3
    <3> QED
      BY <3>2, <3>3, <3>4 DEF Covered
  <2>3. Patched[browser][doc.site.secure] = Evaluate(b)
    BY <2>1 DEF Patched
  <2>4. Win(doc) \in Covered
    <3> HIDE DEF b
    <3>1. Evaluate(b) \in Covered
      BY <2>2, EvaluateKeeps
    <3> QED
      BY <2>2, <2>3, <3>1 DEF Win, b
  <2> HIDE DEF b
  <2> QED
    BY <2>4, CoveredPrints
<1> QED
  BY <1>1, TypeCorrect, PTL
=============================================================================
