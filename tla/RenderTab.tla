------------------------------ MODULE RenderTab -----------------------------
(* internal/fetch/session.go, renderInTab, with waitChallenge of render.go:  *)
(* one render in one tab.  The calls to the browser are made in a row; the   *)
(* page goes on by itself between them, and a page that solves its challenge *)
(* navigates away.  RenderPool has all this as the steps that end a tab.     *)
EXTENDS Detect, Stealth

CONSTANTS
    Browser,   \* windows as the browsers make them, before any script
    Site,      \* the documents a site may serve, and their first MaxBody bytes
    MaxWait,   \* turns of waitChallenge that its deadline leaves room for
    MaxDocs    \* bound on the documents a tab loads

ASSUME TabAssumption ==
    /\ Browser \subseteq Window /\ \A b \in Browser : b.made = {} /\ b.tower = <<>>
    /\ \A s \in Site : /\ s.facts \in PageFacts /\ s.cut \in PageFacts
                      /\ PartOf(s.cut, s.facts)
                      /\ s.secure \in BOOLEAN /\ s.dynamic \in BOOLEAN
    /\ MaxWait \in Nat \ {0} /\ MaxDocs \in Nat \ {0}

\* renderProfiles, as far as a document can tell the personas apart.
Persona == {[lang |-> "en", tz |-> "America"], [lang |-> "ru", tz |-> "Moscow"]}

VARIABLES
    pc,        \* the call of renderInTab that is next
    browser,   \* the window of the browser in use
    persona,   \* prof
    injected,  \* the script runs on every new document
    doc,       \* the document in the tab
    docs,      \* documents so far
    waited,    \* how much of the time before waitChallenge's deadline is over
    title,     \* the title read
    html,      \* what the classifier finds in the HTML read
    steady,    \* the wait ended at a parsed document, still in the tab (history)
    out        \* what renderInTab returns

vars == <<pc, browser, persona, injected, doc, docs, waited, title, html, steady, out>>

NoFacts == [title |-> FALSE, cf |-> FALSE, captcha |-> FALSE, wall |-> FALSE,
            small |-> FALSE, terse |-> FALSE]

\* A document: what the site served, whether the script ran on it, whether it has
\* been parsed and its scripts have run, and whether what they add is there.
Doc == [site : Site, patched : BOOLEAN, parsed : BOOLEAN, filled : BOOLEAN]

\* What the script makes of a new window of a browser, by the site's scheme.
Patched == [b \in Browser |-> [secure \in BOOLEAN |-> Evaluate([b EXCEPT !.secure = secure])]]

\* The window of document d.
Win(d) == IF d.patched THEN Patched[browser][d.site.secure]
          ELSE [browser EXCEPT !.secure = d.site.secure]

\* Titles, as challengeTitle and classifyPage tell them apart.
Title == {"", "clean", "challenge"}

Blank == [tag |-> "about:blank"]

None == [tag |-> "none"]

\* The shapes of the render's state; it returns a result or an error.
TypeOK ==
    /\ pc \in {"inject", "emulate", "navigate", "load", "wait", "sleep", "title",
               "html", "classify", "done"}
    /\ browser \in Browser
    /\ persona \in Persona
    /\ {injected, steady} \subseteq BOOLEAN
    /\ doc = Blank \/ doc \in Doc
    /\ docs \in 0 .. MaxDocs
    /\ waited \in 0 .. MaxWait
    /\ title \in Title
    /\ html \in PageFacts
    /\ out \in {None, [tag |-> "error"], [tag |-> "page"]}
            \cup {[tag |-> "block", kind |-> k] : k \in PageBlock}
    /\ (pc = "done") = (out # None)

Init ==
    /\ pc = "inject"
    /\ browser \in Browser
    /\ persona \in Persona
    /\ injected = FALSE
    /\ doc = Blank
    /\ docs = 0
    /\ waited = 0
    /\ title = ""
    /\ html = NoFacts
    /\ steady = FALSE
    /\ out = None

-----------------------------------------------------------------------------
(* The browser.                                                              *)

\* A new document runs what was injected before anything of its own.
Open(site) == [site |-> site, patched |-> injected, parsed |-> FALSE, filled |-> FALSE]

\* The document is parsed and its scripts run; a dynamic one adds its content
\* by document.createElement.
Parse ==
    /\ doc # Blank
    /\ ~doc.parsed
    /\ doc' = [doc EXCEPT !.parsed = TRUE,
                          !.filled = doc.site.dynamic => ~createElementThrows(Win(doc))]
    /\ UNCHANGED <<pc, browser, persona, injected, docs, waited, title, html, steady, out>>

\* The page navigates: its challenge is solved, or its script or a timer says so.
PageNavigates ==
    /\ doc # Blank
    /\ pc # "done"
    /\ docs < MaxDocs
    /\ docs' = docs + 1
    /\ \E site \in Site : doc' = Open(site)
    /\ steady' = FALSE
    /\ UNCHANGED <<pc, browser, persona, injected, waited, title, html, out>>

\* Time passes while the browser answers; the deadline of waitChallenge is fixed
\* before the first of the calls.
Elapse ==
    /\ pc # "done"
    /\ waited < MaxWait
    /\ waited' = waited + 1
    /\ UNCHANGED <<pc, browser, persona, injected, doc, docs, title, html, steady, out>>

\* document.title and the document's HTML, which is cut, now: what is not
\* parsed yet is not there.
SeenTitle(d) ==
    IF ~d.parsed THEN "" ELSE IF d.site.facts.title THEN "challenge" ELSE "clean"

SeenHTML(d) == IF d.parsed THEN d.site.cut ELSE NoFacts

-----------------------------------------------------------------------------
(* renderInTab.                                                              *)

Inject ==
    /\ pc = "inject"
    /\ injected' = TRUE
    /\ pc' = "emulate"
    /\ UNCHANGED <<browser, persona, doc, docs, waited, title, html, steady, out>>

\* The time zone and the Accept-Language of prof.
Emulate ==
    /\ pc = "emulate"
    /\ pc' = "navigate"
    /\ UNCHANGED <<browser, persona, injected, doc, docs, waited, title, html, steady, out>>

\* Seeded fault: the navigation does not wait for the calls before it.
NavigateAtOnce ==
    /\ pc \in {"inject", "emulate", "navigate"}
    /\ doc = Blank \/ pc = "navigate"
    /\ docs' = docs + 1
    /\ \E site \in Site : doc' = Open(site)
    /\ pc' = IF pc = "navigate" THEN "load" ELSE pc
    /\ UNCHANGED <<browser, persona, injected, waited, title, html, steady, out>>

Navigate ==
    /\ pc = "navigate"
    /\ docs' = docs + 1
    /\ \E site \in Site : doc' = Open(site)
    /\ pc' = "load"
    /\ UNCHANGED <<browser, persona, injected, waited, title, html, steady, out>>

\* Navigate returns at the load event; then there is a body.
Ready ==
    /\ pc = "load"
    /\ doc.parsed
    /\ pc' = "wait"
    /\ UNCHANGED <<browser, persona, injected, doc, docs, waited, title, html, steady, out>>

\* A turn of waitChallenge; at the deadline it ends without a look.
Poll ==
    /\ pc = "wait"
    /\ pc' = IF waited < MaxWait /\ SeenTitle(doc) = "challenge" THEN "sleep" ELSE "title"
    /\ steady' = doc.parsed
    /\ UNCHANGED <<browser, persona, injected, doc, docs, waited, title, html, out>>

\* Seeded fault: the deadline is set anew at every turn.
SleepAnew ==
    /\ pc = "sleep"
    /\ waited' = 0
    /\ pc' = "wait"
    /\ UNCHANGED <<browser, persona, injected, doc, docs, title, html, steady, out>>

\* Half a second.
Sleep ==
    /\ pc = "sleep"
    /\ waited' = IF waited < MaxWait THEN waited + 1 ELSE waited
    /\ pc' = "wait"
    /\ UNCHANGED <<browser, persona, injected, doc, docs, title, html, steady, out>>

ReadTitle ==
    /\ pc = "title"
    /\ title' = SeenTitle(doc)
    /\ pc' = "html"
    /\ UNCHANGED <<browser, persona, injected, doc, docs, waited, html, steady, out>>

\* The HTML and, after the calls, its cut at MaxBody.
ReadHTML ==
    /\ pc = "html"
    /\ html' = SeenHTML(doc)
    /\ pc' = "classify"
    /\ UNCHANGED <<browser, persona, injected, doc, docs, waited, title, steady, out>>

\* Seeded fault: the title is left to the wait, the verdict is on the body.
ClassifyBodyOnly ==
    /\ pc = "classify"
    /\ out' = IF html.cf THEN [tag |-> "block", kind |-> BlockChallengeCloudflare]
              ELSE [tag |-> "page"]
    /\ pc' = "done"
    /\ UNCHANGED <<browser, persona, injected, doc, docs, waited, title, html, steady>>

Classify ==
    LET kind == ClassifyPage([html EXCEPT !.title = title = "challenge" \/ (title = "" /\ @)])
    IN  /\ pc = "classify"
        /\ out' = IF kind = BlockNone THEN [tag |-> "page"]
                  ELSE [tag |-> "block", kind |-> kind]
        /\ pc' = "done"
        /\ UNCHANGED <<browser, persona, injected, doc, docs, waited, title, html, steady>>

\* Any call fails: the browser is gone or the tab's context has ended.
CallFails ==
    /\ pc \notin {"classify", "done"}
    /\ out' = [tag |-> "error"]
    /\ pc' = "done"
    /\ UNCHANGED <<browser, persona, injected, doc, docs, waited, title, html, steady>>

\* The render is over, and so is its tab.
Returned == pc = "done" /\ UNCHANGED vars

Next ==
    \/ Inject \/ Emulate \/ Navigate \/ Ready
    \/ Poll \/ Sleep \/ ReadTitle \/ ReadHTML \/ Classify
    \/ CallFails \/ Returned
    \/ Parse \/ PageNavigates \/ Elapse

\* The steps of the goroutine are taken, the browser answers, and a document
\* that nobody leaves is parsed.
Fairness ==
    /\ WF_vars(Inject \/ Emulate \/ Navigate \/ Ready)
    /\ WF_vars(Poll \/ Sleep \/ ReadTitle \/ ReadHTML \/ Classify)
    /\ WF_vars(Parse)

Spec == Init /\ [][Next]_vars

FairSpec == Spec /\ Fairness

-----------------------------------------------------------------------------
(* Properties.                                                               *)

\* Whatever the script has replaced in a document, in whatever order, still
\* prints as the engine's own function of that name, through all the layers put
\* upon toString since ("Return the toString representation of our original
\* object if possible", stealth.js:3).
PrintsAsNative ==
    doc # Blank => \A f \in Win(doc).made : PrintedText(Win(doc), f) = Native(Name(f))

\* "It is injected before page scripts run on every new document"
\* (render.go:22): the script has run on whatever document the tab is at, also
\* on those the page went to by itself.
ScriptComesFirst ==
    doc # Blank => doc.patched

\* "a challenge page that survived rendering is reported as a structured block,
\* never passed to the agent as if it were content" (session.go:156-157), if the
\* wait ended at a parsed document and the tab has stayed there: neither what
\* is left of the HTML after the cut nor the title, which is never cut, is one.
NoChallengeAsContent ==
    out.tag = "page" /\ steady =>
        ClassifyPage([doc.site.cut EXCEPT !.title = doc.site.facts.title]) = BlockNone

\* A challenge that never goes away holds the render for a bounded number of
\* polls: if the browser answers and documents get parsed, the render ends.
RenderEnds == <>(pc = "done")

-----------------------------------------------------------------------------
(* What the documentation says and the code does not do.                     *)

\* "renders pages whose content is loaded dynamically" (README.md:203-204):
\* the content that a page's script adds is there when the script has run.
DynamicContentRenders == doc # Blank /\ doc.parsed => doc.filled

\* "verifies the stealth patches actually ran before the page scripts"
\* (render_stealth_test.go:32-35): no webdriver, chrome and plugins are there.
PatchesRan ==
    doc # Blank /\ doc.parsed =>
        /\ ~Win(doc).webdriver
        /\ "object" \in Win(doc).chrome
        /\ Win(doc).plugins

\* "a mismatched combination (e.g. en-US locale + Moscow timezone) is itself a
\* bot signal" (render.go:27-28): the languages a page sees are the persona's.
PersonaIsCoherent ==
    doc # Blank /\ Win(doc).languages = "en-US" => persona.lang = "en"

\* The same promise as NoChallengeAsContent, for a tab that may go on.
NeverAChallenge ==
    out.tag = "page" =>
        ClassifyPage([doc.site.cut EXCEPT !.title = doc.site.facts.title]) = BlockNone

\* And for the whole of a document, markers behind the cut included.
NoChallengeBehindTheCut ==
    out.tag = "page" /\ steady => ClassifyPage(doc.site.facts) = BlockNone
=============================================================================
