SPECIFICATION Spec
CONSTANTS
    QueueSize = 3
    OptionalSinks <- MCOptionalSinks
INVARIANTS
    SyslogKept
