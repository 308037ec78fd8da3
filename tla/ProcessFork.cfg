SPECIFICATION Spec
CONSTANTS
    QueueSize = 3
    OptionalSinks <- MCOptionalSinks
PROPERTIES
    LogFlushed
