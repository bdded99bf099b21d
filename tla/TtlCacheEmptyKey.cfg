SPECIFICATION Spec
CONSTANTS
    EmptyKey = k1
    NoValue = NoValue
    Key = {k1, k2}
    Value = {v1}
    MaxEntries = 1
    TTL = 1
    MaxTime = 3
INVARIANT SizeBound
