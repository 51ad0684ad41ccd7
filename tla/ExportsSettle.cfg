SPECIFICATION FairSpec
CONSTANTS
    LanPrefixes = {"home", "lab", "guest", "office"}
    Answers <- ThreeAnswers
    Networks <- ThreeNetworks
    MaxExports = 2
    MaxSaves = 1
    MaxMoves = 2
    MaxFailures = 1
INVARIANTS
    TypedSurvives
PROPERTIES
    RecordFollows
    WatchdogFollows
