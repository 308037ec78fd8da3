SPECIFICATION Spec
CONSTANTS
    Classes = {0, 10, 511}
    Measurements = {10}
    Sizes = {0, 8}
    ConvertedSize = 12
    Dates <- MCDates
    DateTimes <- MCDateTimes
    DriverTimes = {0, 5}
    Now = 9
INVARIANTS
    TypeOK
    NoLeak
    PayloadFits
    TranslatedClass
    TimeKept
