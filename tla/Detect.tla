------------------------------- MODULE Detect -------------------------------
(* internal/fetch/detect.go: the verdict on a page.  A page is what the      *)
(* classifiers look at:                                                      *)
(*   title    the title (or the <title> of the body) has a challenge marker  *)
(*   cf, captcha, wall   the body has a marker of that list                  *)
(*   small    the body has at most maxChallengeBodySize bytes                *)
(*   terse    its visible text has at most wallMaxVisibleText bytes          *)

PageFacts == [title : BOOLEAN, cf : BOOLEAN, captcha : BOOLEAN,
              wall : BOOLEAN, small : BOOLEAN, terse : BOOLEAN]

\* What may be found in the first bytes of a page instead of the whole: a cut
\* adds no marker and no bytes.  The visible text may become more, since a
\* script or a style that the cut leaves open is not stripped.
PartOf(part, page) ==
    /\ \A marker \in {"title", "cf", "captcha", "wall"} : part[marker] => page[marker]
    /\ page.small => part.small

BlockNone == "none"
BlockChallengeCloudflare == "challenge_cloudflare"
BlockChallengeJS == "challenge_js"
BlockRateLimited == "rate_limited"
BlockCaptcha == "captcha"
BlockWall == "block_wall"

PageBlock == {BlockChallengeCloudflare, BlockChallengeJS, BlockCaptcha, BlockWall}
BlockKind == PageBlock \cup {BlockNone, BlockRateLimited}

\* Whatever is small enough in bytes is small enough in visible text.
IsShortWallPage(page) == page.small \/ page.terse

ClassifyPage(page) ==
    IF page.cf THEN BlockChallengeCloudflare
    ELSE IF page.title THEN BlockChallengeJS
    ELSE IF page.captcha /\ page.small THEN BlockCaptcha
    ELSE IF page.wall /\ IsShortWallPage(page) THEN BlockWall
    ELSE BlockNone

\* Seeded fault: the status is looked at before the body.
ClassifyStatusFirst(status, page) ==
    IF status \in {429, 498} THEN BlockRateLimited
    ELSE IF status = 403 /\ page.wall THEN BlockWall
    ELSE ClassifyPage(page)

\* The body wins over the status; a 403 with wall markers is a wall of any size.
ClassifyStatus(status, page) ==
    IF ClassifyPage(page) # BlockNone THEN ClassifyPage(page)
    ELSE IF status \in {429, 498} THEN BlockRateLimited
    ELSE IF status = 403 /\ page.wall THEN BlockWall
    ELSE BlockNone
=============================================================================
