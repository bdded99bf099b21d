SPECIFICATION FairSpec
CONSTANTS
    EmptyKey = EmptyKey
    NoValue = NoValue
    Key = {k1, k2, k3}
    Value = {v1, v2}
    MaxEntries = 2
    TTL = 1
    MaxTime = 3
INVARIANTS SizeBound
PROPERTIES RefinesLossyStore SweptEventually LoopStops
