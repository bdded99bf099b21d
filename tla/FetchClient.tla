----------------------------- MODULE FetchClient ----------------------------
(* internal/fetch/fetch.go: one call of FetchWithOptions, from the checks of *)
(* the URL to the page or the error it returns.  The web answers as it       *)
(* likes; the deadline of the current budget and the caller's cancellation   *)
(* strike between any two steps.  The browser is RenderPool, seen from       *)
(* outside: one step that yields a page, a block or an error.                *)
EXTENDS Detect, MachineInt, FiniteSets

CONSTANTS
    Page,        \* the pages the web serves and their parts, by PageFacts
    Status,      \* the statuses other than 200 it answers with
    SniffBytes,  \* how much of an error page is read: 256 KiB
    MaxBody,     \* Client.maxBody, in units of bytes
    PDFMaxBody,  \* Client.pdfMaxBody, as NewClientWithOptions leaves it
    MaxSize,     \* bound on the size of a body
    RetryAfter,  \* the numbers of seconds Retry-After headers ask for
    Second       \* a second, in units of time.Duration

ASSUME ClientAssumption ==
    /\ Page \subseteq PageFacts
    /\ Status \subseteq Nat \ {200}
    /\ SniffBytes \in Nat
    /\ MaxBody \in Nat \ {0}
    /\ PDFMaxBody \in Nat
    /\ PDFMaxBody >= MaxBody
    /\ MaxSize \in Nat
    /\ RetryAfter \subseteq -IntMax - 1 .. IntMax
    /\ Second \in Nat /\ 5 * Second <= IntMax

maxAttempts == 2

VARIABLES
    opts,     \* the call and the client's options that steer it
    pc,       \* the step the call is at
    budget,   \* "plain" or "pdf": the timeout and http.Client in use
    retried,  \* the one-shot retry with the PDF budget has begun
    attempt,  \* fetchWithRetry's loop variable
    ctx,      \* the budget's context: "open", "deadline" or "cancelled"
    call,     \* the caller's context: "open" or "cancelled"
    resp,     \* the last response
    got,      \* bytes of its body read so far
    limit,    \* processResponse's limit
    err,      \* the last attempt's error
    wait,     \* the backoff: what the server asked for, and the timer's delay
    out,      \* what the call returns
    sent      \* direct requests made (history)

vars == <<opts, pc, budget, retried, attempt, ctx, call, resp, got, limit, err,
          wait, out, sent>>

Why == {"deadline", "cancelled", "network"}

\* The errors, by what the code looks at.
TransportError(why) == [tag |-> "transport", why |-> why]
BodyReadError(why, pdf) == [tag |-> "read", why |-> why, pdf |-> pdf]
StatusError(status, page) == [tag |-> "status", status |-> status, page |-> page]
BlockError(kind) == [tag |-> "block", kind |-> kind]
ContentError(what) == [tag |-> what]   \* "pdf" or "media"

None == [tag |-> "none"]

Error ==
    {TransportError(w) : w \in Why}
    \cup {BodyReadError(w, b) : w \in Why, b \in BOOLEAN}
    \cup {StatusError(s, p) : s \in Status, p \in Page}
    \cup {BlockError(k) : k \in BlockKind \ {BlockNone}}
    \cup {ContentError(w) : w \in {"pdf", "media"}}

\* A response with status 200: its media type, whether the body starts with
\* the PDF magic, whether the final URL looks like a PDF's, the body's size
\* and what the classifier finds in the part that is read (or in the text
\* parsed from it).
Response == [ct : {"html", "pdf", "media"}, magic : BOOLEAN, pdfURL : BOOLEAN,
             size : 0 .. MaxSize, page : Page]

Outcome ==
    [tag : {"page"}, rendered : BOOLEAN, ct : {"html", "pdf", "media", "text"},
     raw : BOOLEAN, page : Page]
    \cup Error \cup {None, [tag |-> "invalid"], [tag |-> "render"]}

\* A response with another status: the error page as it is served, its size,
\* and whether the read of it fails half way (the connection breaks, or the
\* context ends).
Refusal == [status : Status, page : Page, size : 0 .. MaxSize, broken : BOOLEAN]

\* No backoff is on.
NoWait == [asked |-> 0, delay |-> 0]

Opts == [render : BOOLEAN,                    \* FetchOptions.Render
         mode : {"never", "auto", "always"},  \* JS_RENDER
         pdfHTTP : BOOLEAN,                   \* PDFTimeout > Timeout
         pdfURL : BOOLEAN,                    \* looksLikePDF of the URL asked for
         timed : BOOLEAN]                     \* Timeout > 0

\* The shape of the call's state.
TypeOK ==
    /\ opts \in Opts
    /\ pc \in {"start", "send", "body", "extend", "process", "backoff", "settle",
               "render", "done"}
    /\ budget \in {"plain", "pdf"}
    /\ retried \in BOOLEAN
    /\ attempt \in 0 .. maxAttempts - 1
    /\ ctx \in {"open", "deadline", "cancelled"}
    /\ call \in {"open", "cancelled"}
    /\ resp \in Response \cup Refusal \cup {None}
    /\ got \in 0 .. MaxSize
    /\ limit \in {MaxBody, PDFMaxBody}
    /\ err \in Error \cup {None}
    /\ wait \in [asked : RetryAfter \cup {0}, delay : -IntMax - 1 .. IntMax]
    /\ wait # NoWait => pc = "backoff"
    /\ out \in Outcome
    /\ sent \in Nat

Init ==
    /\ opts \in Opts
    /\ pc = "start"
    /\ budget = "plain"
    /\ retried = FALSE
    /\ attempt = 0
    /\ ctx = "open"
    /\ call = "open"
    /\ resp = None
    /\ got = 0
    /\ limit = MaxBody
    /\ err = None
    /\ wait = NoWait
    /\ out = None
    /\ sent = 0

-----------------------------------------------------------------------------
(* FetchWithOptions up to the first request.                                 *)

Return(o) ==
    /\ pc' = "done"
    /\ out' = o

\* Timeouts: the plain one may be 0, which is none; PDFTimeout is larger.
HasDeadline == opts.timed \/ budget = "pdf"

PDFHint == opts.pdfHTTP /\ opts.pdfURL

\* The URL does not parse, has another scheme or no host, or the network
\* policy refuses the host.
RejectURL ==
    /\ pc = "start"
    /\ Return([tag |-> "invalid"])
    /\ UNCHANGED <<opts, budget, retried, attempt, ctx, call, resp, got, limit,
                   err, sent, wait>>

\* Seeded fault: the mode "always" is left to the fallback.
StartUnlessForced ==
    /\ pc = "start"
    /\ IF opts.render
         THEN pc' = "render" /\ UNCHANGED budget
         ELSE pc' = "send" /\ budget' = IF PDFHint THEN "pdf" ELSE "plain"
    /\ UNCHANGED <<opts, retried, attempt, ctx, call, resp, got, limit, err,
                   out, sent, wait>>

Start ==
    /\ pc = "start"
    /\ IF opts.render \/ opts.mode = "always"
         THEN pc' = "render" /\ UNCHANGED budget
         ELSE pc' = "send" /\ budget' = IF PDFHint THEN "pdf" ELSE "plain"
    /\ UNCHANGED <<opts, retried, attempt, ctx, call, resp, got, limit, err,
                   out, sent, wait>>

-----------------------------------------------------------------------------
(* The contexts.                                                             *)

DeadlinePasses ==
    /\ pc \in {"send", "body", "extend", "process", "backoff", "settle"}
    /\ HasDeadline
    /\ ctx = "open"
    /\ ctx' = "deadline"
    /\ UNCHANGED <<opts, pc, budget, retried, attempt, call, resp, got, limit,
                   err, out, sent, wait>>

CallerCancels ==
    /\ pc # "done"
    /\ call = "open"
    /\ call' = "cancelled"
    /\ ctx' = IF ctx = "open" THEN "cancelled" ELSE ctx
    /\ UNCHANGED <<opts, pc, budget, retried, attempt, resp, got, limit, err,
                   out, sent, wait>>

\* Why an operation of the network fails now.
Cause == IF ctx = "open" THEN "network" ELSE ctx

-----------------------------------------------------------------------------
(* fetchWithRetry: what follows a failed attempt.                            *)

ShouldRetry(e) ==
    CASE e.tag = "block" -> FALSE
      [] e.tag = "status" -> e.status \in {408, 429, 498} \/ e.status >= 500
      [] OTHER -> TRUE

\* Half a second after the first attempt, then a whole one, and a jitter of
\* less than a quarter.
ExponentialDelay(n) ==
    {(IF n = 0 THEN Second \div 2 ELSE Second) + j : j \in 0 .. (Second \div 4) - 1}

\* Seeded fault: what the server asks for is taken at its word.
retryDelayUncapped(n, retryAfter) ==
    IF retryAfter > 0 THEN {Wrap(retryAfter * Second)} ELSE ExponentialDelay(n)

\* The timer's delay after attempt n.  The product may overflow.
retryDelay(n, retryAfter) ==
    IF retryAfter > 0
      THEN LET d == Wrap(retryAfter * Second)
           IN  {IF d <= 5 * Second THEN d ELSE 5 * Second}
      ELSE ExponentialDelay(n)

\* retryAfterSeconds: only a status error carries a header, and only what
\* parses in it counts.
Waits(e) ==
    UNION {{[asked |-> a, delay |-> d] : d \in retryDelay(attempt, a)} :
               a \in IF e.tag = "status" THEN RetryAfter ELSE {0}}

AttemptFails(e) ==
    /\ err' = e
    /\ pc' = IF attempt + 1 >= maxAttempts \/ ~ShouldRetry(e)
               THEN "settle" ELSE "backoff"
    /\ wait' \in IF pc' = "backoff" THEN Waits(e) ELSE {NoWait}

\* The select of the wait.  Both cases may be ready, and then Go picks one at
\* random.
BackoffElapses ==
    /\ pc = "backoff"
    /\ attempt' = attempt + 1
    /\ pc' = "send"
    /\ wait' = NoWait
    /\ UNCHANGED <<opts, budget, retried, ctx, call, resp, got, limit, err,
                   out, sent>>

BackoffInterrupted ==
    /\ pc = "backoff"
    /\ ctx # "open"
    /\ pc' = "settle"
    /\ wait' = NoWait
    /\ UNCHANGED <<opts, budget, retried, attempt, ctx, call, resp, got, limit,
                   err, out, sent>>

-----------------------------------------------------------------------------
(* doFetch: the request and the response's headers.                          *)

\* Seeded fault: the request does not carry the context.
RequestFailsUnbound ==
    /\ pc = "send"
    /\ ctx = "open"
    /\ sent' = sent + 1
    /\ AttemptFails(TransportError(Cause))
    /\ UNCHANGED <<opts, budget, retried, attempt, ctx, call, resp, got, limit,
                   out>>

\* DNS, dialling, TLS, too many redirects, or the end of the context.
RequestFails ==
    /\ pc = "send"
    /\ sent' = sent + 1
    /\ AttemptFails(TransportError(Cause))
    /\ UNCHANGED <<opts, budget, retried, attempt, ctx, call, resp, got, limit,
                   out>>

UpTo(n, bound) == IF n <= bound THEN n ELSE bound

\* Seeded fault: the prefix is too short for the markers of heavy pages.
SniffedHalf(size) == UpTo(size, SniffBytes \div 2)

\* How much of an error page is read when nothing fails.
Sniffed(size) == UpTo(size, SniffBytes)

\* The status and the first bytes of the error page; an error of the read is
\* ignored.  What the classifiers will find is what there is in those bytes.
AnsweredWithStatus ==
    /\ pc = "send"
    /\ ctx = "open"
    /\ sent' = sent + 1
    /\ resp' \in Refusal
    /\ got' \in {n \in 0 .. Sniffed(resp'.size) : resp'.broken \/ n = Sniffed(resp'.size)}
    /\ \E seen \in {p \in Page : IF got' = resp'.size THEN p = resp'.page
                                  ELSE PartOf(p, resp'.page)} :
         AttemptFails(StatusError(resp'.status, seen))
    /\ UNCHANGED <<opts, budget, retried, attempt, ctx, call, limit, out>>

Answered ==
    /\ pc = "send"
    /\ ctx = "open"
    /\ sent' = sent + 1
    /\ resp' \in Response
    /\ limit' = IF resp'.pdfURL THEN PDFMaxBody ELSE MaxBody
    /\ got' = 0
    /\ pc' = "body"
    /\ UNCHANGED <<opts, budget, retried, attempt, ctx, call, err, out, wait>>

-----------------------------------------------------------------------------
(* processResponse.                                                          *)

\* Seeded fault: the magic bytes are not looked at.
IsPDFByType(r) == r.ct = "pdf"

IsPDF(r) == r.ct = "pdf" \/ r.magic

BodyArrives ==
    /\ pc = "body"
    /\ got' = UpTo(resp.size, limit)
    /\ pc' = IF /\ PDFMaxBody > MaxBody
                /\ limit = MaxBody
                /\ got' >= MaxBody
                /\ IsPDF(resp)
               THEN "extend" ELSE "process"
    /\ UNCHANGED <<opts, budget, retried, attempt, ctx, call, resp, limit, err,
                   out, sent, wait>>

\* Seeded fault: the second read has the whole PDF cap for itself.
ExtensionArrivesUncut ==
    /\ pc = "extend"
    /\ got' = UpTo(resp.size, MaxBody + PDFMaxBody)
    /\ limit' = PDFMaxBody
    /\ pc' = "process"
    /\ UNCHANGED <<opts, budget, retried, attempt, ctx, call, resp, err, out,
                   sent, wait>>

\* A PDF without the URL hint is read on, up to the PDF cap.
ExtensionArrives ==
    /\ pc = "extend"
    /\ got' = UpTo(resp.size, MaxBody + (PDFMaxBody - MaxBody))
    /\ limit' = PDFMaxBody
    /\ pc' = "process"
    /\ UNCHANGED <<opts, budget, retried, attempt, ctx, call, resp, err, out,
                   sent, wait>>

\* The error carries the content type, not the magic.
ReadFails ==
    /\ pc \in {"body", "extend"}
    /\ AttemptFails(BodyReadError(Cause, resp.ct = "pdf"))
    /\ UNCHANGED <<opts, budget, retried, attempt, ctx, call, resp, got, limit,
                   out, sent>>

\* The check of the page, or of the text parsed from a PDF.
Accept(ct, raw) ==
    LET kind == ClassifyPage(resp.page)
    IN  IF kind = BlockNone
          THEN /\ Return([tag |-> "page", rendered |-> FALSE, ct |-> ct,
                          raw |-> raw, page |-> resp.page])
               /\ UNCHANGED <<err, wait>>
          ELSE AttemptFails(BlockError(kind)) /\ UNCHANGED out

\* parsePDF is the library's: it may fail on any document.
Process ==
    /\ pc = "process"
    /\ IF IsPDF(resp)
         THEN \/ Accept("text", FALSE)
              \/ AttemptFails(ContentError("pdf")) /\ UNCHANGED out
         ELSE IF resp.ct = "media"
           THEN AttemptFails(ContentError("media")) /\ UNCHANGED out
           ELSE Accept(resp.ct, resp.magic)
    /\ UNCHANGED <<opts, budget, retried, attempt, ctx, call, resp, got, limit,
                   sent>>

-----------------------------------------------------------------------------
(* FetchWithOptions after fetchWithRetry.                                    *)

IsPDFBodyDeadline(e) == e.tag = "read" /\ e.why = "deadline" /\ e.pdf

\* Seeded fault: a loop in place of the one-shot retry.
NeedsPDFBudgetAgain ==
    ~PDFHint /\ opts.pdfHTTP /\ IsPDFBodyDeadline(err)

NeedsPDFBudget ==
    ~PDFHint /\ opts.pdfHTTP /\ ~retried /\ IsPDFBodyDeadline(err)

RetryWithPDFBudget ==
    /\ pc = "settle"
    /\ NeedsPDFBudget
    /\ retried' = TRUE
    /\ budget' = "pdf"
    /\ attempt' = 0
    /\ ctx' = call
    /\ pc' = "send"
    /\ UNCHANGED <<opts, call, resp, got, limit, err, out, sent, wait>>

\* Seeded fault: who is rate limited is not sent to the browser.
IsBlockableNotLimited(e) ==
    CASE e.tag = "block" -> TRUE
      [] e.tag = "status" -> e.status = 403 \/ e.status >= 500
      [] OTHER -> TRUE

IsBlockable(e) ==
    CASE e.tag = "block" -> TRUE
      [] e.tag = "status" -> e.status \in {403, 429, 498} \/ e.status >= 500
      [] OTHER -> TRUE

\* Only blocks and status errors are looked at; isBlockable is asked about
\* the latter alone.
Conclude(e) ==
    CASE e.tag = "block" ->
           IF opts.mode = "auto" THEN pc' = "render" /\ UNCHANGED out ELSE Return(e)
      [] e.tag = "status" ->
           IF opts.mode = "auto" /\ IsBlockable(e)
             THEN pc' = "render" /\ UNCHANGED out
             ELSE LET kind == ClassifyStatus(e.status, e.page)
                  IN  Return(IF kind = BlockNone THEN e ELSE BlockError(kind))
      [] OTHER -> Return(e)

Settle ==
    /\ pc = "settle"
    /\ ~NeedsPDFBudget
    /\ Conclude(err)
    /\ UNCHANGED <<opts, budget, retried, attempt, ctx, call, resp, got, limit,
                   err, sent, wait>>

\* Renderer.Render: RenderPool classifies what it renders, so a page from it
\* is not a challenge.
RenderEnds ==
    /\ pc = "render"
    /\ Return([tag |-> "render"])
       \/ \E p \in Page :
            IF ClassifyPage(p) = BlockNone
              THEN Return([tag |-> "page", rendered |-> TRUE, ct |-> "html",
                           raw |-> FALSE, page |-> p])
              ELSE Return(BlockError(ClassifyPage(p)))
    /\ UNCHANGED <<opts, budget, retried, attempt, ctx, call, resp, got, limit,
                   err, sent, wait>>

\* The call has returned.
Returned == pc = "done" /\ UNCHANGED vars

Next ==
    \/ RejectURL \/ Start
    \/ DeadlinePasses \/ CallerCancels
    \/ RequestFails \/ AnsweredWithStatus \/ Answered
    \/ BodyArrives \/ ExtensionArrives \/ ReadFails \/ Process
    \/ BackoffElapses \/ BackoffInterrupted
    \/ RetryWithPDFBudget \/ Settle
    \/ RenderEnds
    \/ Returned

\* The deadline comes, timers fire, local steps are taken (the lookup of the
\* host among them: a resolver gives up by itself), and an operation whose
\* context is done fails.  The web owes nothing: a server may keep a request
\* waiting for ever, and a page may keep the browser (DeadlineEndsRender of
\* RenderPool), so there is no fairness of RenderEnds.
Fairness ==
    /\ WF_vars(RejectURL \/ Start)
    /\ WF_vars(DeadlinePasses)
    /\ WF_vars(ctx # "open" /\ (RequestFails \/ ReadFails))
    /\ WF_vars(Process)
    /\ WF_vars(BackoffElapses \/ BackoffInterrupted)
    /\ WF_vars(RetryWithPDFBudget \/ Settle)

Spec == Init /\ [][Next]_vars

FairSpec == Spec /\ Fairness

-----------------------------------------------------------------------------
(* Properties.                                                               *)

\* What is returned as a page is readable content: no challenge page, no
\* binary media and no raw PDF bytes reach the model.
OnlyReadableContent ==
    out.tag = "page" =>
        /\ ClassifyPage(out.page) = BlockNone
        /\ out.ct \notin {"pdf", "media"}
        /\ ~out.raw

\* The two attempts and the PDF retry multiply to four requests at most, and
\* a third is sent only when the plain timeout ran out.
RequestBudget ==
    /\ sent <= 2 * maxAttempts
    /\ sent > maxAttempts => opts.timed /\ opts.pdfHTTP /\ ~opts.pdfURL

\* However many seconds a server asks for, those included whose product
\* overflows, a call never waits longer than five for its second attempt
\* (fetch.go:601-604).
BackoffIsCapped == wait.delay <= 5 * Second

\* A refusal never comes back as a bare status error: the caller gets its
\* kind, whatever retries and budgets came before.  The verdict is on a prefix
\* of the error page, and is that on the whole page if it came unbroken and its
\* markers are within 256 KiB (fetch.go:430-433).
BlocksAreStructured ==
    out.tag = "status" =>
        /\ ClassifyStatus(out.status, out.page) = BlockNone
        /\ ~resp.broken /\ resp.size <= SniffBytes =>
              ClassifyStatus(resp.status, resp.page) = BlockNone

\* In auto mode a call ends without the browser only with a page or with what
\* the README does not call a bot block (403/429/498/5xx, README.md:244): no
\* answer with one of these statuses, structured or bare, and no challenge that
\* came with a 200 is returned before the browser has tried.
AutoTriesTheBrowser ==
    [][opts.mode = "auto" /\ pc # "render" /\ out' # out /\ out'.tag \in {"block", "status"} =>
         err.tag = "status" /\ err.status \notin {403, 429, 498} /\ err.status < 500]_vars

\* No read goes over its cap: HTML from a URL that is not a PDF's stays within
\* MAX_FETCH_BYTES, any body within PDF_MAX_FETCH_BYTES, and an error page,
\* which has a cap of its own, within 256 KiB.
ReadsWithinCap ==
    /\ resp \in Response => got <= PDFMaxBody
    /\ resp \in Response /\ ~resp.pdfURL /\ ~IsPDF(resp) => got <= MaxBody
    /\ resp \in Refusal => got <= SniffBytes

\* With a timeout no server holds the call for ever, through the retries, the
\* backoff and the second budget: it returns or hands over to the browser, who
\* may keep it (RendersReturn of RenderPool says when he does not).
DirectPathEnds == opts.timed ~> pc \in {"render", "done"}

\* web_fetch may rely on FetchContract: a page of a forced render or of mode
\* always is the browser's, mode never does not use it unless asked to, and no
\* path of retries and budgets leads to a second outcome.
ContractStage == IF pc \in {"render", "done"} THEN pc ELSE "direct"

ContractResult ==
    CASE out.tag = "none" -> "none"
      [] out.tag = "page" /\ ~out.rendered -> "page"
      [] out.tag = "page" /\ out.rendered -> "rendered page"
      [] out.tag = "block" -> "block"
      [] OTHER -> "error"

Contract == INSTANCE FetchContract WITH
    Modes <- {"never", "auto", "always"},
    mode <- opts.mode,
    forced <- opts.render,
    stage <- ContractStage,
    result <- ContractResult

ImplementsContract == Contract!Spec

-----------------------------------------------------------------------------
(* What the documentation says and the code does not do.                     *)

\* "falls back to the browser only when it detects a bot block
\* (403/429/498/5xx/TLS)" (README.md:243-244): in auto mode a connection or
\* TLS failure does not come back without the browser having tried.
TLSFailureFallsBack ==
    opts.mode = "auto" /\ out.tag = "transport" => out.why # "network"

\* "auto (fallback when a bot block is detected)" (README.md:71): a response
\* that is classified as a block does not come back as one without the browser
\* having tried.
DetectedBlockFallsBack ==
    opts.mode = "auto" /\ out.tag = "block" /\ err.tag = "status" => IsBlockable(err)

\* "Retries (2 attempts) ... are applied on 408/429/5xx/498 and network/TLS
\* errors" (README.md:196-198): not on a document the server refuses to give
\* the model.
RetriedAsDocumented ==
    [][attempt' > attempt => err.tag \in {"transport", "read", "status"}]_vars

\* "PDFMaxBody bounds the body size for PDF responses" (fetch.go:52): what is
\* not a PDF is read up to MaxBody, whatever its URL looks like.
PDFCapIsForPDFs == resp \in Response /\ ~IsPDF(resp) => got <= MaxBody

\* "Max body size fetched from a page" (README.md:65): of an error page, too.
ErrorPagesWithinCap == resp \in Refusal => got <= MaxBody

\* "block-wall markers ... sit deep in CSS-heavy denial pages"
\* (fetch.go:430-432): they are found however deep.
MarkersAreFound ==
    out.tag = "status" => ClassifyStatus(resp.status, resp.page) = BlockNone

\* "honoring Retry-After (capped)" (fetch.go:596-597): asked to wait, the
\* client waits as long or for the cap.
RetryAfterIsHonored ==
    pc = "backoff" /\ wait.asked > 0 =>
        wait.delay >= UpTo(wait.asked * Second, 5 * Second)

\* "The deadline ran out during the backoff wait; the last attempt error is
\* the meaningful failure" (fetch.go:395-396): no further attempt, with an
\* error of its own, follows the end of the context.
BackoffKeepsTheError ==
    [][pc = "backoff" /\ pc' # pc /\ ctx # "open" => pc' = "settle"]_vars
=============================================================================
