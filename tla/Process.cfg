SPECIFICATION Spec
CONSTANTS
    QueueSize = 3
    OptionalSinks <- MCOptionalSinks
INVARIANTS
    TypeOK
    StopRemembered
PROPERTIES
    CrashWindow
    StopHonoured
