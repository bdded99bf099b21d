SPECIFICATION Spec
CONSTANTS
    Caller = {c1, c2}
    Pid = {p1, p2, p3}
    Nobody = Nobody
    PoolSize = 1
    MaxManagers = 2
    WipeMayFail = FALSE
INVARIANT OneBrowserPerProfile
