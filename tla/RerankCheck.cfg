SPECIFICATION RankSpec
CONSTANTS
    MaxDocs = 3
    MaxBm25 = 2
    MaxEngines = 2
    MaxMentions = 2
    Scores <- ServiceScores

INVARIANTS DominatedStaysBehind SilentSignals
PROPERTY BetterNeverCosts
CHECK_DEADLOCK FALSE
