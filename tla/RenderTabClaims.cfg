SPECIFICATION Spec
CONSTANTS
    Browser <- Browsers
    Site <- Sites
    MaxWait = 2
    MaxDocs = 3
INVARIANTS PatchesRan PersonaIsCoherent NeverAChallenge NoChallengeBehindTheCut
