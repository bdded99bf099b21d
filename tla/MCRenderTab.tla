----------------------------- MODULE MCRenderTab ----------------------------
(* RenderTab with the browsers CHROME_BIN may name and six documents.       *)
EXTENDS RenderTab

\* A headless shell: neither chrome nor plugins, and automation shows.
Shell == [chrome |-> {}, plugins |-> FALSE, webdriver |-> TRUE, languages |-> "browser",
          secure |-> FALSE, made |-> {}, tower |-> <<>>, named |-> TRUE, thrown |-> FALSE]

\* Chrome in its new headless mode; the same without the PDF viewer, which has
\* no plugins; and a build that lacks the two timing functions.
Full == [Shell EXCEPT !.chrome = ChromeProps \ {"runtime"}, !.plugins = TRUE,
                      !.webdriver = FALSE]
NoPlugins == [Full EXCEPT !.plugins = FALSE]
NoTimes == [NoPlugins EXCEPT !.chrome = {"object", "app"}]

Browsers == {Shell, Full, NoPlugins, NoTimes}

\* A document that is not longer than MaxBody.
Served(facts, secure, dynamic) ==
    [facts |-> facts, cut |-> facts, secure |-> secure, dynamic |-> dynamic]

Article == Served(NoFacts, TRUE, TRUE)
Plain == Served(NoFacts, FALSE, FALSE)
CheckingBrowser == Served([NoFacts EXCEPT !.title = TRUE], TRUE, FALSE)
Cloudflare == Served([NoFacts EXCEPT !.title = TRUE, !.cf = TRUE], TRUE, FALSE)

\* A longer one: its title is that of a challenge, its body's markers are cut off.
LongCloudflare ==
    [Cloudflare EXCEPT !.cut = [NoFacts EXCEPT !.title = TRUE]]

\* One without such a title.
LateMarkers ==
    [Cloudflare EXCEPT !.facts.title = FALSE, !.cut = NoFacts]

Sites == {Article, Plain, CheckingBrowser, Cloudflare, LongCloudflare, LateMarkers}
=============================================================================
