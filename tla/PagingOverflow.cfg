SPECIFICATION Spec
CONSTANTS
    a1 = a1
    a2 = a2
    Agent <- Agents
    Skimmer = {a2}
    Text <- Texts
    Lengths = {1, 15}
    DefaultMaxLen = 4
    IntMax = 15
    TTL = 1
    Slack = 1
    MaxTime = 3
INVARIANT ChunkReturns
