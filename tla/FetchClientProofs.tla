-------------------------- MODULE FetchClientProofs -------------------------
(* What is proved of FetchClient for any pages, statuses, caps and headers,  *)
(* and of the classifiers it asks (DetectCheck).                             *)
EXTENDS FetchClient, DetectCheck, TLAPS

-----------------------------------------------------------------------------
(* The operators.                                                            *)

LEMMA WrapIsInt == \A n \in Int : Wrap(n) \in -IntMax - 1 .. IntMax
<1> SUFFICES ASSUME NEW n \in Int PROVE Wrap(n) \in -IntMax - 1 .. IntMax
  OBVIOUS
<1> DEFINE m == 2 * (IntMax + 1)
<1>1. m \in Nat \ {0}
  BY IntAssumption
<1>2. n + IntMax + 1 \in Int
  BY IntAssumption
<1>3. \A k \in Int : k % m \in 0 .. m - 1
  BY <1>1
<1>4. (n + IntMax + 1) % m \in 0 .. m - 1
  BY <1>2, <1>3
<1> QED
  BY <1>4, IntAssumption DEF Wrap

LEMMA ClassifyPageKind == \A p \in PageFacts : ClassifyPage(p) \in PageBlock \cup {BlockNone}
BY DEF ClassifyPage, PageBlock

LEMMA ClassifyStatusKind ==
  \A s, p : ClassifyStatus(s, p) \in BlockKind
BY DEF ClassifyStatus, ClassifyPage, PageBlock, BlockKind

\* An attempt's delay is a duration of at most five seconds (fetch.go:596-609).
LEMMA DelayIsCapped ==
  ASSUME NEW n \in 0 .. 1, NEW a \in -IntMax - 1 .. IntMax, NEW d \in retryDelay(n, a)
  PROVE  d \in -IntMax - 1 .. 5 * Second
<1> USE ClientAssumption, IntAssumption
<1>1. CASE a > 0
  <2>1. a * Second \in Int
    OBVIOUS
  <2>2. Wrap(a * Second) \in -IntMax - 1 .. IntMax
    BY <2>1, WrapIsInt
  <2> DEFINE w == Wrap(a * Second)
  <2>3. d = IF w <= 5 * Second THEN w ELSE 5 * Second
    BY <1>1 DEF retryDelay
  <2> HIDE DEF w
  <2>4. w \in -IntMax - 1 .. IntMax
    BY <2>2 DEF w
  <2> QED
    BY <2>3, <2>4
<1>2. CASE ~(a > 0)
  <2>1. d \in ExponentialDelay(n)
    BY <1>2 DEF retryDelay
  <2>2. PICK j \in 0 .. (Second \div 4) - 1 : d = (IF n = 0 THEN Second \div 2 ELSE Second) + j
    BY <2>1 DEF ExponentialDelay
  <2>3. /\ Second \div 2 \in Nat /\ Second \div 2 <= Second
        /\ Second \div 4 \in Nat /\ Second \div 4 <= Second
    OBVIOUS
  <2> QED
    BY <2>2, <2>3
<1> QED
  BY <1>1, <1>2

\* What each kind of error is made of, and that the kinds differ.
LEMMA ErrorKinds ==
  /\ \A w \in Why : TransportError(w) \in Error
  /\ \A w \in Why, b \in BOOLEAN : BodyReadError(w, b) \in Error
  /\ \A s \in Status, p \in Page : StatusError(s, p) \in Error
  /\ \A k \in BlockKind \ {BlockNone} : BlockError(k) \in Error
  /\ \A w \in {"pdf", "media"} : ContentError(w) \in Error
  /\ \A e \in Error : e.tag \in {"transport", "read", "status", "block", "pdf", "media"}
  /\ \A e \in Error : e.tag = "status" => e.status \in Status /\ e.page \in Page
  /\ \A e \in Error : e # None
<1>1. ASSUME NEW w \in Why PROVE TransportError(w) \in Error
  <2>1. TransportError(w) \in {TransportError(w1) : w1 \in Why}
    OBVIOUS
  <2> QED
    BY <2>1 DEF Error
<1>2. ASSUME NEW w \in Why, NEW b \in BOOLEAN PROVE BodyReadError(w, b) \in Error
  <2>1. BodyReadError(w, b) \in {BodyReadError(w1, b1) : w1 \in Why, b1 \in BOOLEAN}
    OBVIOUS
  <2> QED
    BY <2>1 DEF Error
<1>3. ASSUME NEW s \in Status, NEW p \in Page PROVE StatusError(s, p) \in Error
  <2>1. StatusError(s, p) \in {StatusError(s1, p1) : s1 \in Status, p1 \in Page}
    OBVIOUS
  <2> QED
    BY <2>1 DEF Error
<1>4. ASSUME NEW k \in BlockKind \ {BlockNone} PROVE BlockError(k) \in Error
  <2>1. BlockError(k) \in {BlockError(k1) : k1 \in BlockKind \ {BlockNone}}
    OBVIOUS
  <2> QED
    BY <2>1 DEF Error
<1>5. ASSUME NEW w \in {"pdf", "media"} PROVE ContentError(w) \in Error
  <2>1. ContentError(w) \in {ContentError(w1) : w1 \in {"pdf", "media"}}
    OBVIOUS
  <2> QED
    BY <2>1 DEF Error
<1>6. ASSUME NEW e \in Error
      PROVE  /\ e.tag \in {"transport", "read", "status", "block", "pdf", "media"}
             /\ e.tag = "status" => e.status \in Status /\ e.page \in Page
             /\ e # None
  <2>1. CASE e \in {TransportError(w) : w \in Why}
    BY <2>1 DEF TransportError, None
  <2>2. CASE e \in {BodyReadError(w, b) : w \in Why, b \in BOOLEAN}
    BY <2>2 DEF BodyReadError, None
  <2>3. CASE e \in {StatusError(s, p) : s \in Status, p \in Page}
    BY <2>3 DEF StatusError, None
  <2>4. CASE e \in {BlockError(k) : k \in BlockKind \ {BlockNone}}
    BY <2>4 DEF BlockError, None
  <2>5. CASE e \in {ContentError(w) : w \in {"pdf", "media"}}
    BY <2>5 DEF ContentError, None
  <2> QED
    BY <2>1, <2>2, <2>3, <2>4, <2>5 DEF Error
<1> QED
  BY <1>1, <1>2, <1>3, <1>4, <1>5, <1>6

WaitType == [asked : RetryAfter \cup {0}, delay : -IntMax - 1 .. IntMax]

LEMMA WaitsAre ==
  ASSUME attempt \in 0 .. 1, NEW e, NEW v \in Waits(e)
  PROVE  v \in WaitType /\ v.delay <= 5 * Second
<1> USE ClientAssumption, IntAssumption
<1>1. PICK a \in IF e.tag = "status" THEN RetryAfter ELSE {0} :
        v \in {[asked |-> a, delay |-> d] : d \in retryDelay(attempt, a)}
  BY DEF Waits
<1>2. PICK d \in retryDelay(attempt, a) : v = [asked |-> a, delay |-> d]
  BY <1>1
<1>3. a \in RetryAfter \cup {0} /\ a \in -IntMax - 1 .. IntMax
  OBVIOUS
<1>4. d \in -IntMax - 1 .. 5 * Second
  BY <1>3, DelayIsCapped
<1> QED
  BY <1>2, <1>3, <1>4 DEF WaitType

\* What a failed attempt leaves.
LEMMA AfterFailure ==
  ASSUME TypeOK, NEW e \in Error, AttemptFails(e)
  PROVE  /\ err' = e
         /\ pc' \in {"settle", "backoff"}
         /\ pc' = "backoff" => attempt + 1 < maxAttempts
         /\ wait' \in WaitType
         /\ wait'.delay <= 5 * Second
         /\ wait' # NoWait => pc' = "backoff"
<1>1. attempt \in 0 .. 1
  BY DEF TypeOK, maxAttempts
<1>2. err' = e /\ pc' \in {"settle", "backoff"}
      /\ (pc' = "backoff" => attempt + 1 < maxAttempts)
  BY <1>1 DEF AttemptFails, maxAttempts
<1>3. CASE pc' = "backoff"
  <2>1. wait' \in Waits(e)
    BY <1>3 DEF AttemptFails
  <2> QED
    BY <1>1, <1>2, <1>3, <2>1, WaitsAre
<1>4. CASE pc' # "backoff"
  <2>1. wait' = NoWait
    BY <1>4 DEF AttemptFails
  <2> QED
    BY <1>2, <1>4, <2>1, ClientAssumption, IntAssumption DEF NoWait, WaitType
<1> QED
  BY <1>3, <1>4

-----------------------------------------------------------------------------
(* Type correctness.                                                         *)

\* What each step of the call finds: a response to read, an error to look at,
\* an attempt left.
Progress ==
    /\ pc \in {"body", "extend", "process"} => resp \in Response
    /\ pc \in {"backoff", "settle"} => err \in Error
    /\ pc = "backoff" => attempt + 1 < maxAttempts
    /\ wait.delay <= 5 * Second

LEMMA TypeInit == Init => TypeOK /\ Progress
<1> SUFFICES ASSUME Init PROVE TypeOK /\ Progress
  OBVIOUS
<1> USE ClientAssumption, IntAssumption
<1>1. None \in Outcome /\ NoWait \in WaitType /\ NoWait.delay = 0
  BY DEF Outcome, NoWait, WaitType
<1>2. attempt \in 0 .. maxAttempts - 1 /\ got \in 0 .. MaxSize /\ sent \in Nat
  BY DEF Init, maxAttempts
<1>3. TypeOK
  BY <1>1, <1>2 DEF Init, TypeOK, WaitType
<1>4. Progress
  BY <1>1 DEF Init, Progress
<1> QED
  BY <1>3, <1>4

LEMMA OutcomesAre ==
  /\ \A b \in BOOLEAN, r \in BOOLEAN, p \in Page, ct \in {"html", "pdf", "media", "text"} :
       [tag |-> "page", rendered |-> b, ct |-> ct, raw |-> r, page |-> p] \in Outcome
  /\ Error \subseteq Outcome
  /\ [tag |-> "invalid"] \in Outcome /\ [tag |-> "render"] \in Outcome
BY DEF Outcome

\* A read check: either a page or a block.
LEMMA AfterAccept ==
  ASSUME TypeOK, Progress, resp \in Response, NEW ct \in {"html", "text"}, NEW raw \in BOOLEAN,
         Accept(ct, raw)
  PROVE  \/ /\ pc' = "done"
            /\ out' = [tag |-> "page", rendered |-> FALSE, ct |-> ct, raw |-> raw,
                       page |-> resp.page]
            /\ ClassifyPage(resp.page) = BlockNone
            /\ UNCHANGED <<err, wait>>
         \/ /\ UNCHANGED out
            /\ ClassifyPage(resp.page) # BlockNone
            /\ BlockError(ClassifyPage(resp.page)) \in Error
            /\ AttemptFails(BlockError(ClassifyPage(resp.page)))
<1>1. resp.page \in PageFacts
  BY ClientAssumption DEF Response
<1>2. ClassifyPage(resp.page) \in BlockKind
  BY <1>1, ClassifyPageKind DEF BlockKind
<1>3. CASE ClassifyPage(resp.page) = BlockNone
  BY <1>3 DEF Accept, Return
<1>4. CASE ClassifyPage(resp.page) # BlockNone
  <2>1. BlockError(ClassifyPage(resp.page)) \in Error
    BY <1>2, <1>4, ErrorKinds
  <2> QED
    BY <1>4, <2>1 DEF Accept
<1> QED
  BY <1>3, <1>4

\* The part of the state that a failed attempt leaves alone; the answer to it is
\* new if it came with a status.
Kept == UNCHANGED <<opts, budget, retried, attempt, ctx, call, limit, out>>

LEMMA FailureTypes ==
  ASSUME TypeOK, NEW e \in Error, AttemptFails(e), Kept, sent' \in Nat,
         UNCHANGED <<resp, got>> \/ (resp' \in Refusal /\ got' \in 0 .. MaxSize)
  PROVE  TypeOK' /\ Progress'
<1>1. /\ err' = e
      /\ pc' \in {"settle", "backoff"}
      /\ pc' = "backoff" => attempt + 1 < maxAttempts
      /\ wait' \in WaitType
      /\ wait'.delay <= 5 * Second
      /\ wait' # NoWait => pc' = "backoff"
  BY AfterFailure
<1>2. TypeOK'
  BY <1>1 DEF TypeOK, Kept, WaitType
<1>3. Progress'
  BY <1>1 DEF Progress, Kept
<1> QED
  BY <1>2, <1>3

\* A status error is what is left of the last answer: of its error page, the
\* verdict sees all if the page came whole and is not too large.
Judged(e) ==
    /\ resp \in Refusal
    /\ resp.status = e.status
    /\ ~resp.broken /\ resp.size <= SniffBytes => e.page = resp.page

\* What is read of an error page, and that its verdict is on that.
LEMMA WhatIsSniffed ==
  ASSUME AnsweredWithStatus
  PROVE  /\ resp' \in Refusal
         /\ got' \in 0 .. MaxSize /\ got' <= SniffBytes
         /\ err' \in Error /\ err'.tag = "status"
         /\ AttemptFails(err')
         /\ Judged(err)'
<1> USE ClientAssumption
<1>1. resp' \in Refusal
  BY DEF AnsweredWithStatus
<1>2. /\ got' \in 0 .. Sniffed(resp'.size)
      /\ resp'.broken \/ got' = Sniffed(resp'.size)
  BY DEF AnsweredWithStatus
<1>3. /\ resp'.size \in 0 .. MaxSize /\ resp'.status \in Status
      /\ Sniffed(resp'.size) \in Nat
      /\ Sniffed(resp'.size) <= SniffBytes /\ Sniffed(resp'.size) <= resp'.size
      /\ resp'.size <= SniffBytes => Sniffed(resp'.size) = resp'.size
  BY <1>1 DEF Refusal, Sniffed, UpTo
<1>4. PICK p \in Page : /\ got' = resp'.size => p = resp'.page
                        /\ AttemptFails(StatusError(resp'.status, p))
  BY DEF AnsweredWithStatus
<1>5. err' = StatusError(resp'.status, p)
  BY <1>4 DEF AttemptFails
<1>6. err' \in Error /\ err'.tag = "status" /\ err'.status = resp'.status /\ err'.page = p
  BY <1>3, <1>5, ErrorKinds DEF StatusError
<1>7. got' \in 0 .. MaxSize /\ got' <= SniffBytes
  BY <1>2, <1>3
<1>8. ~resp'.broken /\ resp'.size <= SniffBytes => p = resp'.page
  BY <1>2, <1>3, <1>4
<1>9. Judged(err)'
  BY <1>1, <1>6, <1>8 DEF Judged
<1>10. AttemptFails(err')
  BY <1>4, <1>5
<1> QED
  BY <1>1, <1>6, <1>7, <1>9, <1>10

LEMMA CauseIsWhy == TypeOK => Cause \in Why
BY DEF TypeOK, Cause, Why

\* The end of a call.
LEMMA ReturnTypes ==
  ASSUME TypeOK, Progress, pc # "backoff", NEW o \in Outcome, Return(o),
         UNCHANGED <<opts, budget, retried, attempt, ctx, call, resp, got, limit, err, wait,
                     sent>>
  PROVE  TypeOK' /\ Progress'
<1>1. pc' = "done" /\ out' = o
  BY DEF Return
<1>2. wait' = NoWait
  BY DEF TypeOK
<1>3. TypeOK'
  BY <1>1, <1>2 DEF TypeOK
<1>4. Progress'
  BY <1>1 DEF Progress
<1> QED
  BY <1>3, <1>4

LEMMA TypeStep == TypeOK /\ Progress /\ [Next]_vars => TypeOK' /\ Progress'
<1> SUFFICES ASSUME TypeOK, Progress, [Next]_vars PROVE TypeOK' /\ Progress'
  OBVIOUS
<1> USE ClientAssumption, IntAssumption
<1>1. CASE RejectURL
  BY <1>1, OutcomesAre, ReturnTypes DEF RejectURL
<1>2. CASE Start
  BY <1>2 DEF Start, TypeOK, Progress
<1>3. CASE DeadlinePasses
  BY <1>3 DEF DeadlinePasses, TypeOK, Progress
<1>4. CASE CallerCancels
  BY <1>4 DEF CallerCancels, TypeOK, Progress
<1>5. CASE RequestFails
  <2>1. TransportError(Cause) \in Error
    BY CauseIsWhy, ErrorKinds
  <2>2. /\ AttemptFails(TransportError(Cause)) /\ Kept /\ sent' \in Nat
        /\ UNCHANGED <<resp, got>>
    BY <1>5 DEF RequestFails, Kept, TypeOK
  <2> QED
    BY <2>1, <2>2, FailureTypes
<1>6. CASE AnsweredWithStatus
  <2>1. resp' \in Refusal /\ got' \in 0 .. MaxSize /\ err' \in Error /\ AttemptFails(err')
    BY <1>6, WhatIsSniffed
  <2>2. Kept /\ sent' \in Nat
    BY <1>6 DEF AnsweredWithStatus, Kept, TypeOK
  <2> QED
    BY <2>1, <2>2, FailureTypes
<1>7. CASE Answered
  BY <1>7 DEF Answered, TypeOK, Progress
<1>8. CASE BodyArrives
  <2>1. got' \in 0 .. MaxSize
    BY <1>8 DEF BodyArrives, TypeOK, Progress, UpTo, Response
  <2> QED
    BY <1>8, <2>1 DEF BodyArrives, TypeOK, Progress
<1>9. CASE ExtensionArrives
  <2>1. got' \in 0 .. MaxSize
    BY <1>9 DEF ExtensionArrives, TypeOK, Progress, UpTo, Response
  <2> QED
    BY <1>9, <2>1 DEF ExtensionArrives, TypeOK, Progress
<1>10. CASE ReadFails
  <2>1. (resp.ct = "pdf") \in BOOLEAN
    OBVIOUS
  <2>2. BodyReadError(Cause, resp.ct = "pdf") \in Error
    BY <2>1, CauseIsWhy, ErrorKinds
  <2>3. /\ AttemptFails(BodyReadError(Cause, resp.ct = "pdf")) /\ Kept /\ sent' \in Nat
        /\ UNCHANGED <<resp, got>>
    BY <1>10 DEF ReadFails, Kept, TypeOK
  <2> QED
    BY <2>2, <2>3, FailureTypes
<1>11. CASE Process
  <2>1. /\ pc = "process"
        /\ UNCHANGED <<opts, budget, retried, attempt, ctx, call, resp, got, limit, sent>>
        /\ resp \in Response
    BY <1>11 DEF Process, Progress
  <2>2. ASSUME NEW ct \in {"html", "text"}, NEW raw \in BOOLEAN, Accept(ct, raw)
        PROVE  TypeOK' /\ Progress'
    <3>1. CASE AttemptFails(BlockError(ClassifyPage(resp.page))) /\ UNCHANGED out
               /\ BlockError(ClassifyPage(resp.page)) \in Error
      <4>1. Kept /\ sent' \in Nat /\ UNCHANGED <<resp, got>>
        BY <2>1, <3>1 DEF Kept, TypeOK
      <4> QED
        BY <3>1, <4>1, FailureTypes
    <3>2. CASE /\ pc' = "done" /\ UNCHANGED <<err, wait>>
               /\ out' = [tag |-> "page", rendered |-> FALSE, ct |-> ct, raw |-> raw,
                          page |-> resp.page]
      <4>1. out' \in Outcome
        BY <2>1, <3>2, OutcomesAre DEF Response
      <4>2. Return(out')
        BY <3>2 DEF Return
      <4> QED
        BY <2>1, <3>2, <4>1, <4>2, ReturnTypes
    <3> QED
      BY <2>1, <2>2, <3>1, <3>2, AfterAccept
  <2>3. ASSUME NEW w \in {"pdf", "media"}, AttemptFails(ContentError(w)), UNCHANGED out
        PROVE  TypeOK' /\ Progress'
    <3>1. /\ Kept /\ sent' \in Nat /\ UNCHANGED <<resp, got>>
          /\ ContentError(w) \in Error
      BY <2>1, <2>3, ErrorKinds DEF Kept, TypeOK
    <3> QED
      BY <2>3, <3>1, FailureTypes
  <2>4. \/ \E ct \in {"html", "text"}, raw \in BOOLEAN : Accept(ct, raw)
        \/ \E w \in {"pdf", "media"} : AttemptFails(ContentError(w)) /\ UNCHANGED out
    <3>1. resp.ct \in {"html", "pdf", "media"} /\ resp.magic \in BOOLEAN
      BY <2>1 DEF Response
    <3>2. CASE IsPDF(resp)
      BY <1>11, <3>2 DEF Process
    <3>3. CASE ~IsPDF(resp)
      <4>1. CASE resp.ct = "media"
        BY <1>11, <3>3, <4>1 DEF Process
      <4>2. CASE resp.ct # "media"
        <5>1. resp.ct = "html" /\ Accept(resp.ct, resp.magic)
          BY <1>11, <3>1, <3>3, <4>2 DEF Process, IsPDF
        <5> QED
          BY <3>1, <5>1
      <4> QED
        BY <4>1, <4>2
    <3> QED
      BY <3>2, <3>3
  <2> QED
    BY <2>2, <2>3, <2>4
<1>12. CASE BackoffElapses
  BY <1>12 DEF BackoffElapses, TypeOK, Progress, maxAttempts, NoWait
<1>13. CASE BackoffInterrupted
  BY <1>13 DEF BackoffInterrupted, TypeOK, Progress, NoWait
<1>14. CASE RetryWithPDFBudget
  BY <1>14 DEF RetryWithPDFBudget, TypeOK, Progress, maxAttempts
<1>15. CASE Settle
  <2>1. /\ pc = "settle" /\ err \in Error
        /\ UNCHANGED <<opts, budget, retried, attempt, ctx, call, resp, got, limit, err, wait,
                       sent>>
    BY <1>15 DEF Settle, Progress
  <2>2. \/ pc' = "render" /\ UNCHANGED out
        \/ \E o \in Outcome : Return(o)
    <3>1. err \in Outcome /\ Conclude(err)
      BY <1>15, <2>1, OutcomesAre DEF Settle
    <3>2. CASE err.tag = "block"
      BY <3>1, <3>2 DEF Conclude
    <3>3. CASE err.tag = "status"
      <4> DEFINE kind == ClassifyStatus(err.status, err.page)
      <4>1. kind \in BlockKind
        BY ClassifyStatusKind
      <4>2. kind # BlockNone => BlockError(kind) \in Outcome
        BY <4>1, ErrorKinds, OutcomesAre
      <4> HIDE DEF kind
      <4>3. \/ pc' = "render" /\ UNCHANGED out
            \/ Return(IF kind = BlockNone THEN err ELSE BlockError(kind))
        BY <3>1, <3>3 DEF Conclude, kind
      <4> QED
        BY <3>1, <4>2, <4>3
    <3>4. CASE err.tag \notin {"block", "status"}
      BY <3>1, <3>4 DEF Conclude
    <3> QED
      BY <3>2, <3>3, <3>4
  <2>3. CASE pc' = "render" /\ UNCHANGED out
    BY <2>1, <2>3 DEF TypeOK, Progress
  <2> QED
    BY <2>1, <2>2, <2>3, ReturnTypes
<1>16. CASE RenderEnds
  <2>1. \E o \in Outcome : Return(o)
    <3>1. CASE Return([tag |-> "render"])
      BY <3>1, OutcomesAre
    <3>2. ASSUME NEW p \in Page,
                 IF ClassifyPage(p) = BlockNone
                   THEN Return([tag |-> "page", rendered |-> TRUE, ct |-> "html",
                                raw |-> FALSE, page |-> p])
                   ELSE Return(BlockError(ClassifyPage(p)))
          PROVE  \E o \in Outcome : Return(o)
      <4>1. ClassifyPage(p) \in BlockKind
        BY ClassifyPageKind DEF BlockKind
      <4>2. ClassifyPage(p) # BlockNone => BlockError(ClassifyPage(p)) \in Outcome
        BY <4>1, ErrorKinds, OutcomesAre
      <4> QED
        BY <3>2, <4>2, OutcomesAre
    <3> QED
      BY <1>16, <3>1, <3>2 DEF RenderEnds
  <2> QED
    BY <1>16, <2>1, ReturnTypes DEF RenderEnds
<1>17. CASE UNCHANGED vars
  BY <1>17 DEF vars, TypeOK, Progress
<1> QED
  BY <1>1, <1>2, <1>3, <1>4, <1>5, <1>6, <1>7, <1>8, <1>9, <1>10, <1>11, <1>12, <1>13,
     <1>14, <1>15, <1>16, <1>17 DEF Next, Returned

LEMMA AlwaysTyped == Spec => [](TypeOK /\ Progress)
<1> QED
  BY TypeInit, TypeStep, PTL DEF Spec

\* The call's state has its shape, whatever pages, statuses, sizes and headers
\* the web answers with (fetch.go:271-609).
THEOREM TypeCorrect == Spec => []TypeOK
<1> QED
  BY AlwaysTyped, PTL

\* No Retry-After header stretches the wait between two attempts beyond five
\* seconds, not even one that overflows a Duration (fetch.go:599-605).
THEOREM BackoffsAreCapped == Spec => []BackoffIsCapped
<1>1. Progress => BackoffIsCapped
  BY DEF Progress, BackoffIsCapped
<1> QED
  BY <1>1, AlwaysTyped, PTL

-----------------------------------------------------------------------------
(* The requests.                                                             *)

Before == IF retried THEN maxAttempts ELSE 0

\* Where a third and a fourth request come from.  A deadline can only be over
\* where there is one; a PDF whose body ran into the plain one starts the one
\* retry; within a budget the requests are counted by the attempts.
BudgetInv ==
    /\ budget = "pdf" => retried \/ PDFHint
    /\ ctx = "deadline" => HasDeadline
    /\ err.tag = "read" /\ err.why = "deadline" /\ ~retried => HasDeadline
    /\ retried => opts.timed /\ opts.pdfHTTP /\ ~opts.pdfURL
    /\ sent <= Before + attempt + (IF pc \in {"start", "send"} THEN 0 ELSE 1)

LEMMA BudgetInit == Init => BudgetInv
BY DEF Init, BudgetInv, HasDeadline, PDFHint, Before, None

\* A failed attempt whose error tells of a deadline that is there.
LEMMA FailureBudget ==
  ASSUME TypeOK, BudgetInv, NEW e \in Error, AttemptFails(e), Kept,
         e.tag = "read" /\ e.why = "deadline" => ctx = "deadline",
         sent' = sent + (IF pc = "send" THEN 1 ELSE 0), pc # "start"
  PROVE  BudgetInv'
<1>1. err' = e /\ pc' \in {"settle", "backoff"}
  BY AfterFailure
<1>2. HasDeadline' = HasDeadline /\ PDFHint' = PDFHint /\ Before' = Before
  BY DEF Kept, HasDeadline, PDFHint, Before
<1>3. Before \in Nat /\ attempt \in Nat /\ sent \in Nat
  BY DEF Before, TypeOK, maxAttempts
<1> QED
  BY <1>1, <1>2, <1>3 DEF BudgetInv, Kept

LEMMA BudgetStep == TypeOK /\ Progress /\ BudgetInv /\ [Next]_vars => BudgetInv'
<1> SUFFICES ASSUME TypeOK, Progress, BudgetInv, [Next]_vars PROVE BudgetInv'
  OBVIOUS
<1>0. Before \in Nat /\ attempt \in 0 .. 1 /\ sent \in Nat
  BY DEF Before, TypeOK, maxAttempts
<1> USE <1>0
<1>1. CASE RejectURL
  BY <1>1 DEF RejectURL, Return, BudgetInv, HasDeadline, PDFHint, Before
<1>2. CASE Start
  BY <1>2 DEF Start, BudgetInv, HasDeadline, PDFHint, Before
<1>3. CASE DeadlinePasses
  BY <1>3 DEF DeadlinePasses, BudgetInv, HasDeadline, PDFHint, Before
<1>4. CASE CallerCancels
  BY <1>4 DEF CallerCancels, BudgetInv, HasDeadline, PDFHint, Before
<1>5. CASE RequestFails
  <2>1. TransportError(Cause) \in Error /\ TransportError(Cause).tag = "transport"
    BY CauseIsWhy, ErrorKinds DEF TransportError
  <2> QED
    BY <1>5, <2>1, FailureBudget DEF RequestFails, Kept
<1>6. CASE AnsweredWithStatus
  <2>1. err' \in Error /\ err'.tag = "status" /\ AttemptFails(err')
    BY <1>6, WhatIsSniffed
  <2>2. Kept /\ sent' = sent + 1 /\ pc = "send"
    BY <1>6 DEF AnsweredWithStatus, Kept
  <2> QED
    BY <2>1, <2>2, FailureBudget
<1>7. CASE Answered
  BY <1>7 DEF Answered, BudgetInv, HasDeadline, PDFHint, Before
<1>8. CASE BodyArrives
  BY <1>8 DEF BodyArrives, BudgetInv, HasDeadline, PDFHint, Before
<1>9. CASE ExtensionArrives
  BY <1>9 DEF ExtensionArrives, BudgetInv, HasDeadline, PDFHint, Before
<1>10. CASE ReadFails
  <2> DEFINE e == BodyReadError(Cause, resp.ct = "pdf")
  <2>1. (resp.ct = "pdf") \in BOOLEAN
    OBVIOUS
  <2>2. e \in Error
    BY <2>1, CauseIsWhy, ErrorKinds
  <2>3. e.why = Cause
    BY DEF BodyReadError
  <2>4. e.why = "deadline" => ctx = "deadline"
    BY <2>3 DEF Cause
  <2>5. AttemptFails(e) /\ Kept /\ sent' = sent /\ pc \in {"body", "extend"}
    BY <1>10 DEF ReadFails, Kept
  <2> HIDE DEF e
  <2> QED
    BY <2>2, <2>4, <2>5, FailureBudget
<1>11. CASE Process
  <2>1. /\ pc = "process" /\ resp \in Response /\ sent' = sent
        /\ UNCHANGED <<opts, budget, retried, attempt, ctx, call, resp, got, limit, sent>>
    BY <1>11 DEF Process, Progress
  <2>2. ASSUME NEW e \in Error, e.tag # "read", AttemptFails(e), UNCHANGED out
        PROVE  BudgetInv'
    BY <2>1, <2>2, FailureBudget DEF Kept
  <2>3. ASSUME NEW ct \in {"html", "text"}, NEW raw \in BOOLEAN, Accept(ct, raw)
        PROVE  BudgetInv'
    <3>1. BlockError(ClassifyPage(resp.page)).tag = "block"
      BY DEF BlockError
    <3>2. CASE pc' = "done" /\ UNCHANGED err
      BY <2>1, <3>2 DEF BudgetInv, HasDeadline, PDFHint, Before
    <3> QED
      BY <2>1, <2>2, <2>3, <3>1, <3>2, AfterAccept
  <2>4. ASSUME NEW w \in {"pdf", "media"}, AttemptFails(ContentError(w)), UNCHANGED out
        PROVE  BudgetInv'
    <3>1. ContentError(w) \in Error /\ ContentError(w).tag # "read"
      BY ErrorKinds DEF ContentError
    <3> QED
      BY <2>2, <2>4, <3>1
  <2>5. resp.ct \in {"html", "pdf", "media"} /\ resp.magic \in BOOLEAN
    BY <2>1 DEF Response
  <2> QED
    BY <1>11, <2>3, <2>4, <2>5 DEF Process, IsPDF
<1>12. CASE BackoffElapses
  BY <1>12 DEF BackoffElapses, BudgetInv, HasDeadline, PDFHint, Before
<1>13. CASE BackoffInterrupted
  BY <1>13 DEF BackoffInterrupted, BudgetInv, HasDeadline, PDFHint, Before
<1>14. CASE RetryWithPDFBudget
  <2>1. opts.timed /\ opts.pdfHTTP /\ ~opts.pdfURL /\ ~retried
    BY <1>14 DEF RetryWithPDFBudget, NeedsPDFBudget, IsPDFBodyDeadline, BudgetInv,
                 HasDeadline, PDFHint
  <2>2. sent <= 2
    BY <1>14, <2>1 DEF RetryWithPDFBudget, BudgetInv, Before
  <2>3. ctx' # "deadline"
    BY <1>14 DEF RetryWithPDFBudget, TypeOK
  <2> QED
    BY <1>14, <2>1, <2>2, <2>3
    DEF RetryWithPDFBudget, BudgetInv, HasDeadline, PDFHint, Before, maxAttempts
<1>15. CASE Settle
  <2>1. pc = "settle" /\ pc' \in {"render", "done"}
        /\ UNCHANGED <<opts, budget, retried, attempt, ctx, err, sent>>
    BY <1>15 DEF Settle, Conclude, Return
  <2> QED
    BY <2>1 DEF BudgetInv, HasDeadline, PDFHint, Before
<1>16. CASE RenderEnds
  BY <1>16 DEF RenderEnds, Return, BudgetInv, HasDeadline, PDFHint, Before
<1>17. CASE UNCHANGED vars
  BY <1>17 DEF vars, BudgetInv, HasDeadline, PDFHint, Before
<1> QED
  BY <1>1, <1>2, <1>3, <1>4, <1>5, <1>6, <1>7, <1>8, <1>9, <1>10, <1>11, <1>12, <1>13,
     <1>14, <1>15, <1>16, <1>17 DEF Next, Returned

\* Two attempts and the PDF retry make four requests at most, and a third only
\* after the plain timeout of a URL that does not look like a PDF's
\* (fetch.go:298-318, 377-402).
THEOREM RequestsAreBounded == Spec => []RequestBudget
<1>1. TypeOK /\ BudgetInv => RequestBudget
  <2> SUFFICES ASSUME TypeOK, BudgetInv PROVE RequestBudget
    OBVIOUS
  <2>1. attempt \in 0 .. 1 /\ sent \in Nat
    BY DEF TypeOK, maxAttempts
  <2> QED
    BY <2>1 DEF BudgetInv, RequestBudget, Before, maxAttempts
<1> QED
  BY <1>1, AlwaysTyped, BudgetInit, BudgetStep, PTL DEF Spec

-----------------------------------------------------------------------------
(* The body.                                                                 *)

\* Which cap the read of a body has, and that only a PDF's is read on.
CapInv ==
    /\ ReadsWithinCap
    /\ pc = "body" => limit = IF resp.pdfURL THEN PDFMaxBody ELSE MaxBody
    /\ pc = "extend" => IsPDF(resp)

LEMMA AnswersDiffer == \A r \in Response : r \notin Refusal
<1> SUFFICES ASSUME NEW r \in Response, r \in Refusal PROVE FALSE
  OBVIOUS
<1>1. "ct" \in DOMAIN r
  BY DEF Response
<1>2. "ct" \notin DOMAIN r
  BY DEF Refusal
<1> QED
  BY <1>1, <1>2

LEMMA CapInit == Init => CapInv
BY ClientAssumption DEF Init, CapInv, ReadsWithinCap, None

LEMMA CapStep == TypeOK /\ Progress /\ CapInv /\ [Next]_vars => CapInv'
<1> SUFFICES ASSUME TypeOK, Progress, CapInv, [Next]_vars PROVE CapInv'
  OBVIOUS
<1> USE ClientAssumption
<1>1. CASE Answered
  <2>1. /\ got' = 0 /\ pc' = "body" /\ limit' = (IF resp'.pdfURL THEN PDFMaxBody ELSE MaxBody)
        /\ resp' \in Response
    BY <1>1 DEF Answered
  <2> QED
    BY <2>1, AnswersDiffer DEF CapInv, ReadsWithinCap
<1>2. CASE BodyArrives
  <2>1. /\ pc = "body" /\ resp \in Response /\ resp' = resp
        /\ limit = (IF resp.pdfURL THEN PDFMaxBody ELSE MaxBody)
        /\ got' = UpTo(resp.size, limit)
        /\ pc' \in {"extend", "process"}
        /\ pc' = "extend" => IsPDF(resp)
    BY <1>2 DEF BodyArrives, Progress, CapInv
  <2>2. got' \in Nat /\ got' <= limit
    BY <2>1 DEF UpTo, Response, TypeOK
  <2> QED
    BY <2>1, <2>2, AnswersDiffer DEF CapInv, ReadsWithinCap, TypeOK, IsPDF
<1>3. CASE ExtensionArrives
  <2>1. /\ pc = "extend" /\ resp \in Response /\ resp' = resp /\ IsPDF(resp)
        /\ got' = UpTo(resp.size, MaxBody + (PDFMaxBody - MaxBody)) /\ pc' = "process"
    BY <1>3 DEF ExtensionArrives, Progress, CapInv
  <2>2. got' <= PDFMaxBody
    BY <2>1 DEF UpTo, Response
  <2> QED
    BY <2>1, <2>2, AnswersDiffer DEF CapInv, ReadsWithinCap, IsPDF
<1>4. CASE /\ UNCHANGED <<resp, got, limit>>
           /\ pc' \notin {"body", "extend"} \/ pc' = pc
  BY <1>4 DEF CapInv, ReadsWithinCap, IsPDF
<1>5. ASSUME NEW e, AttemptFails(e) PROVE pc' \in {"settle", "backoff"}
  BY <1>5 DEF AttemptFails
<1>6. ASSUME NEW o, Return(o) PROVE pc' = "done"
  BY <1>6 DEF Return
<1>7. ASSUME NEW ct, NEW raw, Accept(ct, raw) PROVE pc' \in {"done", "settle", "backoff"}
  BY <1>7, <1>5, <1>6 DEF Accept
<1>8. CASE RequestFails \/ ReadFails
  BY <1>8, <1>4, <1>5 DEF RequestFails, ReadFails
<1>12. CASE AnsweredWithStatus
  <2>1. resp' \in Refusal /\ got' <= SniffBytes /\ AttemptFails(err')
    BY <1>12, WhatIsSniffed
  <2>2. resp' \notin Response
    BY <2>1, AnswersDiffer
  <2>3. pc' \in {"settle", "backoff"}
    BY <2>1, <1>5
  <2> QED
    BY <2>1, <2>2, <2>3 DEF CapInv, ReadsWithinCap
<1>9. CASE Process
  BY <1>9, <1>4, <1>5, <1>7 DEF Process
<1>10. CASE Settle
  BY <1>10, <1>4, <1>6 DEF Settle, Conclude
<1>11. CASE RenderEnds
  BY <1>11, <1>4, <1>6 DEF RenderEnds
<1> QED
  BY <1>1, <1>2, <1>3, <1>4, <1>6, <1>8, <1>9, <1>10, <1>11, <1>12
  DEF Next, Returned, vars, RejectURL, Start, DeadlinePasses, CallerCancels,
      BackoffElapses, BackoffInterrupted, RetryWithPDFBudget

\* Whatever the URL, the header and the magic bytes say of a body, what is no
\* PDF at a plain URL is read up to MAX_FETCH_BYTES, and nothing beyond
\* PDF_MAX_FETCH_BYTES; of an error page, nothing beyond 256 KiB
\* (fetch.go:430-433, 455-476).
THEOREM ReadsAreCapped == Spec => []ReadsWithinCap
<1>1. CapInv => ReadsWithinCap
  BY DEF CapInv
<1> QED
  BY <1>1, AlwaysTyped, CapInit, CapStep, PTL DEF Spec

-----------------------------------------------------------------------------
(* The outcome.                                                              *)

\* What may be returned, and what an answer has left to be judged by.
SoundInv ==
    /\ out.tag = "page" => /\ ClassifyPage(out.page) = BlockNone
                           /\ out.ct \notin {"pdf", "media"}
                           /\ ~out.raw
    /\ err.tag = "status" /\ pc \in {"backoff", "settle"} => Judged(err)
    /\ out.tag = "status" => /\ Judged(out)
                             /\ ClassifyStatus(out.status, out.page) = BlockNone
                             /\ pc = "done"

LEMMA SoundInit == Init => SoundInv
BY DEF Init, SoundInv, None

\* A step of a call that has not returned, after which no status error is there
\* to be judged.
LEMMA StillSound ==
  ASSUME TypeOK, Progress, SoundInv, UNCHANGED out, pc # "done",
         pc' \in {"backoff", "settle"} => err'.tag # "status" \/ Judged(err)'
  PROVE  SoundInv'
BY DEF SoundInv

LEMMA SoundStep == TypeOK /\ Progress /\ SoundInv /\ [Next]_vars => SoundInv'
<1> SUFFICES ASSUME TypeOK, Progress, SoundInv, [Next]_vars PROVE SoundInv'
  OBVIOUS
\* What leaves the answer and the error alone.
<1>1. CASE /\ UNCHANGED <<resp, err, out>> /\ pc # "done"
           /\ pc' \in {"backoff", "settle"} => pc \in {"backoff", "settle"}
  BY <1>1 DEF SoundInv, Judged
<1>2. CASE pc' \notin {"backoff", "settle"} /\ UNCHANGED out /\ pc # "done"
  BY <1>2, StillSound
<1>3. ASSUME NEW e, e.tag # "status", AttemptFails(e), UNCHANGED out, pc # "done"
      PROVE  SoundInv'
  <2>1. err' = e
    BY <1>3 DEF AttemptFails
  <2> QED
    BY <1>3, <2>1, StillSound
<1>4. CASE RejectURL
  <2>1. out' = [tag |-> "invalid"] /\ pc' = "done"
    BY <1>4 DEF RejectURL, Return
  <2> QED
    BY <2>1 DEF SoundInv
<1>5. CASE Start \/ Answered \/ BodyArrives \/ ExtensionArrives \/ BackoffElapses
           \/ RetryWithPDFBudget
  BY <1>2, <1>5 DEF Start, Answered, BodyArrives, ExtensionArrives, BackoffElapses,
                    RetryWithPDFBudget
<1>6. CASE DeadlinePasses \/ CallerCancels \/ BackoffInterrupted
  BY <1>1, <1>6 DEF DeadlinePasses, CallerCancels, BackoffInterrupted
<1>7. CASE RequestFails
  BY <1>3, <1>7 DEF RequestFails, TransportError
<1>8. CASE ReadFails
  BY <1>3, <1>8 DEF ReadFails, BodyReadError
<1>9. CASE AnsweredWithStatus
  <2>1. Judged(err)'
    BY <1>9, WhatIsSniffed
  <2>2. UNCHANGED out /\ pc = "send"
    BY <1>9 DEF AnsweredWithStatus
  <2> QED
    BY <2>1, <2>2, StillSound
<1>10. CASE Process
  <2>1. pc = "process" /\ resp \in Response
    BY <1>10 DEF Process, Progress
  <2>2. ASSUME NEW ct \in {"html", "text"}, Accept(ct, FALSE)
        PROVE  SoundInv'
    <3>1. CASE /\ out' = [tag |-> "page", rendered |-> FALSE, ct |-> ct, raw |-> FALSE,
                           page |-> resp.page]
               /\ ClassifyPage(resp.page) = BlockNone /\ pc' = "done"
      BY <3>1 DEF SoundInv
    <3>2. CASE UNCHANGED out /\ AttemptFails(BlockError(ClassifyPage(resp.page)))
      BY <2>1, <3>2, <1>3 DEF BlockError
    <3> QED
      BY <2>1, <2>2, <3>1, <3>2, AfterAccept
  <2>3. resp.ct \in {"html", "pdf", "media"} /\ resp.magic \in BOOLEAN
    BY <2>1 DEF Response
  <2>4. \/ \E ct \in {"html", "text"} : Accept(ct, FALSE)
        \/ \E w \in {"pdf", "media"} : AttemptFails(ContentError(w)) /\ UNCHANGED out
    BY <1>10, <2>3 DEF Process, IsPDF
  <2> QED
    BY <1>3, <2>1, <2>2, <2>4 DEF ContentError
<1>11. CASE Settle
  <2>1. err \in Error /\ Conclude(err) /\ pc = "settle" /\ UNCHANGED <<resp, err>>
    BY <1>11 DEF Settle, Progress
  <2>2. ASSUME NEW o, Return(o), o.tag \notin {"page", "status"} PROVE SoundInv'
    BY <2>2 DEF SoundInv, Return
  <2>3. CASE pc' = "render" /\ UNCHANGED out
    BY <1>2, <2>1, <2>3
  <2>4. CASE err.tag = "block"
    <3>1. Return(err) \/ (pc' = "render" /\ UNCHANGED out)
      BY <2>1, <2>4 DEF Conclude
    <3> QED
      BY <2>2, <2>3, <2>4, <3>1
  <2>5. CASE err.tag = "status"
    <3> DEFINE kind == ClassifyStatus(err.status, err.page)
    <3>1. \/ pc' = "render" /\ UNCHANGED out
          \/ Return(IF kind = BlockNone THEN err ELSE BlockError(kind))
      BY <2>1, <2>5 DEF Conclude
    <3>2. CASE Return(err) /\ kind = BlockNone
      <4>1. out' = err /\ pc' = "done"
        BY <3>2 DEF Return
      <4>2. Judged(err) /\ Judged(out)'
        BY <2>1, <2>5, <4>1 DEF SoundInv, Judged
      <4> QED
        BY <2>5, <3>2, <4>1, <4>2 DEF SoundInv
    <3>3. CASE Return(BlockError(kind))
      BY <2>2, <3>3 DEF BlockError
    <3> HIDE DEF kind
    <3> QED
      BY <2>3, <3>1, <3>2, <3>3
  <2>6. CASE err.tag \notin {"block", "status"}
    <3>1. Return(err) /\ err.tag # "page"
      BY <2>1, <2>6, ErrorKinds DEF Conclude
    <3> QED
      BY <2>2, <2>6, <3>1
  <2> QED
    BY <2>4, <2>5, <2>6
<1>12. CASE RenderEnds
  <2>1. pc' = "done" /\ out'.tag # "status"
    BY <1>12 DEF RenderEnds, Return, BlockError
  <2>2. out'.tag = "page" => /\ ClassifyPage(out'.page) = BlockNone
                             /\ out'.ct \notin {"pdf", "media"} /\ ~out'.raw
    BY <1>12 DEF RenderEnds, Return, BlockError
  <2> QED
    BY <2>1, <2>2 DEF SoundInv
<1>13. CASE UNCHANGED vars
  BY <1>13 DEF vars, SoundInv, Judged
<1> QED
  BY <1>4, <1>5, <1>6, <1>7, <1>8, <1>9, <1>10, <1>11, <1>12, <1>13 DEF Next, Returned

LEMMA AlwaysSound == Spec => []SoundInv
<1> QED
  BY AlwaysTyped, SoundInit, SoundStep, PTL DEF Spec

\* No challenge page, no binary media and no raw PDF is returned as a page, on
\* whatever path through retries, budgets and the browser (fetch.go:482-536).
THEOREM ContentIsReadable == Spec => []OnlyReadableContent
<1>1. SoundInv => OnlyReadableContent
  BY DEF SoundInv, OnlyReadableContent
<1> QED
  BY <1>1, AlwaysSound, PTL

\* A refusal comes back with its kind: the verdict is the one on the last
\* answer's whole error page if that came unbroken and is at most 256 KiB, and
\* the one on what was read of it otherwise (fetch.go:344-358, 430-433).
THEOREM RefusalsHaveTheirKind == Spec => []BlocksAreStructured
<1>1. SoundInv => BlocksAreStructured
  <2> SUFFICES ASSUME SoundInv, out.tag = "status"
               PROVE  /\ ClassifyStatus(out.status, out.page) = BlockNone
                      /\ ~resp.broken /\ resp.size <= SniffBytes =>
                            ClassifyStatus(resp.status, resp.page) = BlockNone
    BY DEF BlocksAreStructured
  <2>1. Judged(out) /\ ClassifyStatus(out.status, out.page) = BlockNone
    BY DEF SoundInv
  <2>2. resp.status = out.status
        /\ (~resp.broken /\ resp.size <= SniffBytes => out.page = resp.page)
    BY <2>1 DEF Judged
  <2> QED
    BY <2>1, <2>2
<1> QED
  BY <1>1, AlwaysSound, PTL

\* In auto mode no answer with 403, 429, 498 or 5xx, as a block or as a bare
\* status, and no challenge that came with a 200 ends a call before the browser
\* has tried, after any mix of retries and budgets (fetch.go:333-347,
\* README.md:244).  A challenge that comes with another status does.
THEOREM AutoAsksTheBrowser == Spec => AutoTriesTheBrowser
<1> DEFINE Refused == out' # out /\ out'.tag \in {"block", "status"}
<1>1. ASSUME TypeOK, Progress, [Next]_vars, opts.mode = "auto", pc # "render", Refused
      PROVE  err.tag = "status" /\ err.status \notin {403, 429, 498} /\ err.status < 500
  <2>1. CASE RejectURL
    BY <1>1, <2>1 DEF RejectURL, Return
  <2>2. CASE Process
    <3>1. resp \in Response
      BY <1>1, <2>2 DEF Process, Progress
    <3>2. \A ct \in {"html", "text"} :
            Accept(ct, FALSE) => UNCHANGED out \/ out'.tag = "page"
      BY DEF Accept, Return
    <3>3. resp.ct \in {"html", "pdf", "media"} /\ resp.magic \in BOOLEAN
      BY <3>1 DEF Response
    <3>4. \/ \E ct \in {"html", "text"} : Accept(ct, FALSE)
          \/ UNCHANGED out
      BY <2>2, <3>3 DEF Process, IsPDF
    <3> QED
      BY <1>1, <3>2, <3>4
  <2>3. CASE Settle
    <3>1. err \in Error /\ Conclude(err)
      BY <1>1, <2>3 DEF Settle, Progress
    <3>2. err.tag # "block"
      BY <1>1, <3>1 DEF Conclude
    <3>3. err.tag = "status"
      <4>1. CASE err.tag \notin {"block", "status"}
        BY <1>1, <3>1, <4>1 DEF Conclude, Return
      <4> QED
        BY <3>2, <4>1
    <3>4. ~IsBlockable(err)
      BY <1>1, <3>1, <3>3 DEF Conclude
    <3>5. err.status \in Nat
      BY <3>1, <3>3, ErrorKinds, ClientAssumption
    <3> QED
      BY <3>3, <3>4, <3>5 DEF IsBlockable
  <2>4. CASE UNCHANGED out
    BY <1>1, <2>4
  <2> QED
    BY <1>1, <2>1, <2>2, <2>3, <2>4
    DEF Next, vars, Start, DeadlinePasses, CallerCancels, RequestFails, AnsweredWithStatus,
        Answered, BodyArrives, ExtensionArrives, ReadFails, BackoffElapses,
        BackoffInterrupted, RetryWithPDFBudget, RenderEnds, Returned
<1>2. TypeOK /\ Progress /\ [Next]_vars =>
        [opts.mode = "auto" /\ pc # "render" /\ Refused =>
           err.tag = "status" /\ err.status \notin {403, 429, 498} /\ err.status < 500]_vars
  BY <1>1
<1> QED
  BY <1>2, AlwaysTyped, PTL DEF Spec, AutoTriesTheBrowser

-----------------------------------------------------------------------------
(* The refinement of FetchContract.                                          *)

\* Who wants the browser only never gets to a direct request.
DirectInv ==
    pc \notin {"start", "render", "done"} => ~opts.render /\ opts.mode # "always"

Stay == UNCHANGED <<ContractStage, ContractResult, opts>>

\* A failed attempt is no news for web_fetch.
LEMMA FailureStays ==
  ASSUME NEW e, AttemptFails(e), pc \notin {"start", "render", "done"},
         UNCHANGED <<opts, out>>
  PROVE  Stay /\ pc' \in {"settle", "backoff"}
BY DEF AttemptFails, Stay, ContractStage, ContractResult

LEMMA ContractInit == Init => Contract!Init /\ DirectInv
<1> SUFFICES ASSUME Init PROVE Contract!Init /\ DirectInv
  OBVIOUS
<1>1. ContractStage = "direct" /\ ContractResult = "none"
  BY DEF Init, ContractStage, ContractResult, None
<1>2. opts.mode \in {"never", "auto", "always"} /\ opts.render \in BOOLEAN
  BY DEF Init, Opts
<1> QED
  BY <1>1, <1>2 DEF Contract!Init, Init, DirectInv

LEMMA ContractStep ==
  TypeOK /\ Progress /\ DirectInv /\ [Next]_vars =>
      [Contract!Next]_(Contract!vars) /\ DirectInv'
<1> SUFFICES ASSUME TypeOK, Progress, DirectInv, [Next]_vars
             PROVE  [Contract!Next]_(Contract!vars) /\ DirectInv'
  OBVIOUS
<1>1. ASSUME Stay, pc' \notin {"start", "render", "done"} => pc \notin {"start", "render", "done"}
      PROVE  [Contract!Next]_(Contract!vars) /\ DirectInv'
  BY <1>1 DEF Stay, Contract!vars, DirectInv
\* A direct request that ends the call, with a page, a block or an error.
<1>2. ASSUME NEW o, Return(o), o.tag \in {"transport", "read", "status", "block", "pdf",
                                           "media"},
             UNCHANGED opts, pc \notin {"start", "render", "done"}
      PROVE  [Contract!Next]_(Contract!vars) /\ DirectInv'
  <2>1. ContractStage = "direct" /\ ContractStage' = "done"
    BY <1>2 DEF ContractStage, Return
  <2>2. ContractResult' \in {"block", "error"}
    BY <1>2 DEF ContractResult, Return
  <2>3. ~Contract!BrowserOnly
    BY <1>2 DEF DirectInv, Contract!BrowserOnly
  <2>4. Contract!DirectFails
    BY <1>2, <2>1, <2>2, <2>3 DEF Contract!DirectFails, Contract!Ask
  <2> QED
    BY <1>2, <2>4 DEF Contract!Next, DirectInv, Return
<1>3. CASE RejectURL
  <2>1. ContractStage = "direct" /\ ContractStage' = "done" /\ ContractResult' = "error"
    BY <1>3 DEF RejectURL, Return, ContractStage, ContractResult
  <2>2. Contract!DirectFails
    BY <1>3, <2>1 DEF Contract!DirectFails, Contract!Ask, RejectURL
  <2> QED
    BY <1>3, <2>2 DEF Contract!Next, DirectInv, RejectURL, Return
<1>4. CASE Start
  <2>1. CASE opts.render \/ opts.mode = "always"
    <3>1. /\ ContractStage = "direct" /\ ContractStage' = "render"
          /\ ContractResult' = ContractResult /\ opts' = opts /\ pc' = "render"
      BY <1>4, <2>1 DEF Start, ContractStage, ContractResult
    <3>2. Contract!UseBrowser
      BY <2>1, <3>1 DEF Contract!UseBrowser, Contract!MayRender, Contract!Ask
    <3> QED
      BY <3>1, <3>2 DEF Contract!Next, DirectInv
  <2>2. CASE ~(opts.render \/ opts.mode = "always")
    <3>1. Stay /\ pc' = "send" /\ opts' = opts
      BY <1>4, <2>2 DEF Start, Stay, ContractStage, ContractResult
    <3> QED
      BY <2>2, <3>1 DEF Stay, Contract!vars, DirectInv
  <2> QED
    BY <2>1, <2>2
<1>5. CASE DeadlinePasses \/ CallerCancels
  BY <1>1, <1>5 DEF DeadlinePasses, CallerCancels, Stay, ContractStage, ContractResult
<1>6. CASE RequestFails \/ AnsweredWithStatus \/ ReadFails
  BY <1>1, <1>6, FailureStays DEF RequestFails, AnsweredWithStatus, ReadFails
<1>7. CASE Answered \/ BodyArrives \/ ExtensionArrives
  BY <1>1, <1>7 DEF Answered, BodyArrives, ExtensionArrives, Stay, ContractStage, ContractResult
<1>8. CASE Process
  <2>1. pc = "process" /\ resp \in Response /\ UNCHANGED opts
    BY <1>8 DEF Process, Progress
  <2>2. ASSUME NEW e, AttemptFails(e), UNCHANGED out
        PROVE  [Contract!Next]_(Contract!vars) /\ DirectInv'
    BY <1>1, <2>1, <2>2, FailureStays
  <2>3. ASSUME NEW ct, NEW raw,
               Return([tag |-> "page", rendered |-> FALSE, ct |-> ct, raw |-> raw,
                       page |-> resp.page])
        PROVE  [Contract!Next]_(Contract!vars) /\ DirectInv'
    <3>1. /\ ContractStage = "direct" /\ ContractStage' = "done"
          /\ ContractResult' = "page"
      BY <2>1, <2>3 DEF Return, ContractStage, ContractResult
    <3>2. Contract!DirectPage
      BY <2>1, <3>1 DEF Contract!DirectPage, Contract!BrowserOnly, Contract!Ask, DirectInv
    <3> QED
      BY <2>3, <3>2 DEF Contract!Next, DirectInv, Return
  <2>4. ASSUME NEW ct, NEW raw, Accept(ct, raw)
        PROVE  [Contract!Next]_(Contract!vars) /\ DirectInv'
    BY <2>2, <2>3, <2>4 DEF Accept
  <2> QED
    BY <1>8, <2>2, <2>4 DEF Process
<1>9. CASE BackoffElapses \/ BackoffInterrupted \/ RetryWithPDFBudget
  BY <1>1, <1>9 DEF BackoffElapses, BackoffInterrupted, RetryWithPDFBudget, Stay,
                    ContractStage, ContractResult
<1>10. CASE Settle
  <2>1. pc = "settle" /\ err \in Error /\ UNCHANGED opts /\ Conclude(err)
    BY <1>10 DEF Settle, Progress
  <2>2. CASE pc' = "render" /\ UNCHANGED out /\ opts.mode = "auto"
    <3>1. /\ ContractStage = "direct" /\ ContractStage' = "render"
          /\ ContractResult' = ContractResult
      BY <2>1, <2>2 DEF ContractStage, ContractResult
    <3>2. Contract!UseBrowser
      BY <2>1, <2>2, <3>1 DEF Contract!UseBrowser, Contract!MayRender, Contract!Ask
    <3> QED
      BY <2>2, <3>2 DEF Contract!Next, DirectInv
  <2>3. CASE Return(err)
    BY <1>2, <2>1, <2>3, ErrorKinds
  <2>4. ASSUME NEW k, Return(BlockError(k))
        PROVE  [Contract!Next]_(Contract!vars) /\ DirectInv'
    <3>1. BlockError(k).tag = "block"
      BY DEF BlockError
    <3> QED
      BY <1>2, <2>1, <2>4, <3>1
  <2>5. \/ pc' = "render" /\ UNCHANGED out /\ opts.mode = "auto"
        \/ Return(err)
        \/ \E k : Return(BlockError(k))
    BY <2>1 DEF Conclude
  <2> QED
    BY <2>2, <2>3, <2>4, <2>5
<1>11. CASE RenderEnds
  <2>1. pc = "render" /\ UNCHANGED opts /\ pc' = "done"
    BY <1>11 DEF RenderEnds, Return
  <2>2. ContractStage = "render" /\ ContractStage' = "done"
    BY <2>1 DEF ContractStage
  <2>3. \/ out' = [tag |-> "render"]
        \/ \E p \in Page : out' = [tag |-> "page", rendered |-> TRUE, ct |-> "html",
                                  raw |-> FALSE, page |-> p]
        \/ \E k : out' = BlockError(k)
    BY <1>11 DEF RenderEnds, Return
  <2>4. ContractResult' \in {"rendered page", "block", "error"}
    BY <2>3 DEF ContractResult, BlockError
  <2>5. Contract!BrowserEnds
    BY <2>1, <2>2, <2>4 DEF Contract!BrowserEnds, Contract!Ask
  <2> QED
    BY <2>1, <2>5 DEF Contract!Next, DirectInv
<1>12. CASE UNCHANGED vars
  BY <1>1, <1>12 DEF vars, Stay, ContractStage, ContractResult
<1> QED
  BY <1>3, <1>4, <1>5, <1>6, <1>7, <1>8, <1>9, <1>10, <1>11, <1>12 DEF Next, Returned

\* For web_fetch the retries, budgets and error handling come to one page or one
\* error, with the browser used once at most and only if asked for
\* (fetch.go:271-373).
THEOREM Implements == Spec => ImplementsContract
<1>1. Init => Contract!Init /\ DirectInv
  BY ContractInit
<1>2. TypeOK /\ Progress /\ DirectInv /\ [Next]_vars =>
          [Contract!Next]_(Contract!vars) /\ DirectInv'
  BY ContractStep
<1> QED
  BY <1>1, <1>2, AlwaysTyped, PTL DEF Spec, ImplementsContract, Contract!Spec

-----------------------------------------------------------------------------
(* The classifiers (DetectCheck).                                            *)

ShownOK == shown \in PageFacts

LEMMA AlwaysShown == DetectSpec => []ShownOK
<1>1. DetectInit => ShownOK
  BY DEF DetectInit, ShownOK
<1>2. ShownOK /\ [AddFact]_detectVars => ShownOK'
  BY DEF ShownOK, AddFact, PageFacts, detectVars
<1> QED
  BY <1>1, <1>2, PTL DEF DetectSpec

\* The evidence of p is evidence of q, too.
More(p, q) == \A fact \in DOMAIN p : p[fact] => q[fact]

LEMMA PrecedenceIs ==
  /\ Precedence(BlockNone) = 0
  /\ Precedence(BlockRateLimited) = 1
  /\ Precedence(BlockWall) = 2
  /\ Precedence(BlockCaptcha) = 3
  /\ Precedence(BlockChallengeJS) = 4
  /\ Precedence(BlockChallengeCloudflare) = 5
BY DEF Precedence, BlockNone, BlockRateLimited, BlockWall, BlockCaptcha,
       BlockChallengeJS, BlockChallengeCloudflare

\* The markers of a page that has more of them are of a kind as specific.
LEMMA PageSharpens ==
  ASSUME NEW p \in PageFacts, NEW q \in PageFacts, More(p, q)
  PROVE  Precedence(ClassifyPage(p)) <= Precedence(ClassifyPage(q))
<1>1. /\ p.cf => q.cf
      /\ p.title => q.title
      /\ p.captcha => q.captcha
      /\ p.wall => q.wall
      /\ p.small => q.small
      /\ p.terse => q.terse
  BY DEF More, PageFacts
<1> QED
  BY <1>1, PrecedenceIs DEF ClassifyPage, IsShortWallPage

\* So is the verdict on an answer, whatever its status.
LEMMA VerdictSharpens ==
  ASSUME NEW p \in PageFacts, NEW q \in PageFacts, More(p, q), NEW s
  PROVE  Precedence(ClassifyStatus(s, p)) <= Precedence(ClassifyStatus(s, q))
<1>1. Precedence(ClassifyPage(p)) <= Precedence(ClassifyPage(q))
  BY PageSharpens
<1>2. ClassifyPage(p) \in PageBlock \cup {BlockNone}
      /\ ClassifyPage(q) \in PageBlock \cup {BlockNone}
  BY ClassifyPageKind
<1>3. p.wall => q.wall
  BY DEF More, PageFacts
<1>4. \A k \in PageBlock : k # BlockNone /\ Precedence(k) \in 2 .. 5
  BY PrecedenceIs DEF PageBlock
<1>5. CASE ClassifyPage(p) # BlockNone
  <2>1. ClassifyPage(q) # BlockNone
    BY <1>1, <1>2, <1>4, <1>5, PrecedenceIs
  <2> QED
    BY <1>1, <1>5, <2>1 DEF ClassifyStatus
<1>6. CASE ClassifyPage(p) = BlockNone /\ ClassifyPage(q) # BlockNone
  <2>1. Precedence(ClassifyStatus(s, p)) \in 0 .. 2
    BY <1>6, PrecedenceIs DEF ClassifyStatus
  <2>2. Precedence(ClassifyStatus(s, q)) \in 2 .. 5
    BY <1>2, <1>4, <1>6 DEF ClassifyStatus
  <2> QED
    BY <2>1, <2>2
<1>7. CASE ClassifyPage(p) = BlockNone /\ ClassifyPage(q) = BlockNone
  BY <1>3, <1>7, PrecedenceIs DEF ClassifyStatus
<1> QED
  BY <1>5, <1>6, <1>7

\* More markers, or a smaller page, never make a block content or a vaguer
\* block, whatever the status (detect.go:118-203).
THEOREM MoreEvidenceSharpens == DetectSpec => EvidenceOnlySharpens
<1>1. ASSUME ShownOK, [AddFact]_detectVars
      PROVE  [Precedence(Verdict) <= Precedence(Verdict')]_detectVars
  <2>1. CASE AddFact
    <3>1. PICK fact \in DOMAIN shown : shown' = [shown EXCEPT ![fact] = TRUE]
      BY <2>1 DEF AddFact
    <3>2. shown \in PageFacts /\ shown' \in PageFacts /\ More(shown, shown')
      BY <1>1, <3>1 DEF ShownOK, PageFacts, More
    <3>3. code' = code
      BY <2>1 DEF AddFact
    <3> QED
      BY <3>2, <3>3, VerdictSharpens DEF Verdict
  <2> QED
    BY <1>1, <2>1
<1> QED
  BY <1>1, AlwaysShown, PTL DEF DetectSpec, EvidenceOnlySharpens
=============================================================================
