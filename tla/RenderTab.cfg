SPECIFICATION FairSpec
CONSTANTS
    Browser <- Browsers
    Site <- Sites
    MaxWait = 2
    MaxDocs = 3
INVARIANTS PrintsAsNative ScriptComesFirst NoChallengeAsContent
PROPERTY RenderEnds
