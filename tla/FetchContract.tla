---------------------------- MODULE FetchContract ---------------------------
(* What Client.FetchWithOptions promises web_fetch, its retries, budgets and *)
(* error handling left out: a page comes from a plain request or from the    *)
(* browser, the browser is used at most once and only when the call or the   *)
(* mode asks for it, and the call ends with one page or one error.           *)

CONSTANT Modes     \* the values of JS_RENDER

VARIABLES mode, forced, stage, result

vars == <<mode, forced, stage, result>>

Stages == {"direct", "render", "done"}
Results == {"none", "page", "rendered page", "block", "error"}

\* A request that only the browser serves.
BrowserOnly == forced \/ mode = "always"

MayRender == forced \/ mode \in {"always", "auto"}

Init ==
    /\ mode \in Modes
    /\ forced \in BOOLEAN
    /\ stage = "direct"
    /\ result = "none"

Ask == UNCHANGED <<mode, forced>>

DirectPage ==
    /\ stage = "direct"
    /\ ~BrowserOnly
    /\ stage' = "done"
    /\ result' = "page"
    /\ Ask

\* Mode auto hands some blocks to the browser and returns others.
DirectFails ==
    /\ stage = "direct"
    /\ stage' = "done"
    /\ result' \in IF BrowserOnly THEN {"error"} ELSE {"block", "error"}
    /\ Ask

UseBrowser ==
    /\ stage = "direct"
    /\ MayRender
    /\ stage' = "render"
    /\ UNCHANGED result
    /\ Ask

BrowserEnds ==
    /\ stage = "render"
    /\ stage' = "done"
    /\ result' \in {"rendered page", "block", "error"}
    /\ Ask

Next == DirectPage \/ DirectFails \/ UseBrowser \/ BrowserEnds

Spec == Init /\ [][Next]_vars
=============================================================================
