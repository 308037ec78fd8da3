SPECIFICATION Spec
CONSTANTS
    MaxUp = 200
    MaxTicks = 3
    Shifts <- MCShifts
    MaxSets = 2
INVARIANTS
    TypeOK
    SilenceBounded
    FirstBeat
PROPERTIES
    NoBurst
