SPECIFICATION Spec
CONSTANTS
    N = 2
    Libraries <- MCLibraries
    LevelReplies = {1, 2, 259}
    DisconnectJoins = FALSE
INVARIANTS
    TypeOK
    CallbackCallSafe
    ThreadCallSafe
    SendsWhileConnected
    JoinsOnce
    ReleasedAtEnd
PROPERTIES
    KeepsContract
