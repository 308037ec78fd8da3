SPECIFICATION FairSpec
CONSTANTS
    N = 2
    Libraries <- MCFewLibraries
    LevelReplies = {1, 3}
    DisconnectJoins = TRUE
INVARIANTS
    QuiescentAtDelete
    NoCircularWait
PROPERTIES
    StopLeadsToExit
