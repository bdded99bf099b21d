SPECIFICATION Spec
CONSTANTS
    Caller = {c1, c2}
    URL = {u1}
    Form = {f1}
    EntryId = {e1, e2, e3, e4}
    EmptyKey = EmptyKey
    Mode = "auto"
    FetchEntries = 1
    RenderEntries = 1
    FetchTTL = 2
    RenderTTL = 1
    MaxTime = 3
INVARIANTS MissSaysNotCached RendersUseRenderTTL
