SPECIFICATION FairSpec
CONSTANTS
    Caller = {c1}
    Pid = {p1}
    Nobody = Nobody
    PoolSize = 1
    MaxManagers = 1
    WipeMayFail = FALSE
PROPERTY DeadlineEndsRender
