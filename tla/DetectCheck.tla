----------------------------- MODULE DetectCheck ----------------------------
(* The classifiers of Detect over all pages and the statuses they tell       *)
(* apart.  A step adds one fact to the page, so that the verdicts on a page  *)
(* and on the same page with more evidence can be compared.                  *)
EXTENDS Detect, Naturals

CONSTANT StatusCode  \* the statuses of an answer

VARIABLES
    code,   \* the answer's status
    shown   \* the answer's page

detectVars == <<code, shown>>

Verdict == ClassifyStatus(code, shown)

DetectInit ==
    /\ code \in StatusCode
    /\ shown \in PageFacts

AddFact ==
    /\ \E fact \in DOMAIN shown : shown' = [shown EXCEPT ![fact] = TRUE]
    /\ UNCHANGED code

DetectSpec == DetectInit /\ [][AddFact]_detectVars

\* How specific a verdict is: the order in which the classifiers look.
Precedence(kind) ==
    CASE kind = BlockNone -> 0
      [] kind = BlockRateLimited -> 1
      [] kind = BlockWall -> 2
      [] kind = BlockCaptcha -> 3
      [] kind = BlockChallengeJS -> 4
      [] kind = BlockChallengeCloudflare -> 5

\* More evidence never turns a block into content nor into a vaguer kind: the
\* caps and the precedence of the classifiers ("Cloudflare markers win over
\* generic challenge titles", detect.go:121; "The body always wins",
\* detect.go:187) do not play against each other.
EvidenceOnlySharpens == [][Precedence(Verdict) <= Precedence(Verdict')]_detectVars
=============================================================================
