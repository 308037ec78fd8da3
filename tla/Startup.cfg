SPECIFICATION Spec
CONSTANTS
    Configurations <- MCConfigurations
    Names = {"a", "b"}
INVARIANTS
    TypeOK
    ItemsAsConfigured
    OwnBlock
    ServerGuidUsed
    TopicsAsConfigured
PROPERTIES
    Verdict
CHECK_DEADLOCK FALSE
