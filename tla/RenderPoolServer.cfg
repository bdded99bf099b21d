SPECIFICATION Spec
CONSTANTS
    Caller = {c1, c2, c3}
    Pid = {p1, p2}
    Nobody = Nobody
    PoolSize = 2
    MaxManagers = 1
    WipeMayFail = FALSE
SYMMETRY Symmetry
INVARIANTS OneRenderPerWorker OneBrowserPerProfile CookiesFromThisRun
