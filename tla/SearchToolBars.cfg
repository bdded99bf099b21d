SPECIFICATION Spec
CONSTANTS
    c1 = c1
    c2 = c2
    Caller <- Callers
    Search <- BarredSearches
    Web <- Webs
    MaxResults = 2
    Mode = "semantic"
    Opinions <- Answers
    Entries = 2
    TTL = 1
    MaxTime = 3
INVARIANT ReplyMatchesSearch
SYMMETRY Symmetry
