SPECIFICATION Spec
CONSTANTS
    Page <- Pages
    Status = {403, 404, 429, 500}
    SniffBytes = 2
    MaxBody = 1
    PDFMaxBody = 2
    MaxSize = 3
    IntMax = 63
    Second = 4
    RetryAfter <- Headers
INVARIANTS TLSFailureFallsBack DetectedBlockFallsBack PDFCapIsForPDFs ErrorPagesWithinCap MarkersAreFound RetryAfterIsHonored
PROPERTIES BackoffKeepsTheError RetriedAsDocumented
