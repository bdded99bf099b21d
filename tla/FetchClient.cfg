SPECIFICATION FairSpec
CONSTANTS
    Page <- Pages
    Status = {403, 404, 408, 429, 500}
    SniffBytes = 2
    MaxBody = 1
    PDFMaxBody = 2
    MaxSize = 3
    IntMax = 63
    Second = 4
    RetryAfter <- Headers
INVARIANTS OnlyReadableContent RequestBudget BackoffIsCapped BlocksAreStructured ReadsWithinCap
PROPERTIES ImplementsContract AutoTriesTheBrowser DirectPathEnds
