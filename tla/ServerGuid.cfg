SPECIFICATION Spec
CONSTANTS
    Capacity = 3
    Addresses <- MCAddresses
    MaxAddresses = 4
    Macs <- MCMacs
INVARIANTS
    TypeOK
    ReadsInList
    FirstAddressUsed
PROPERTIES
    GuidStable
CHECK_DEADLOCK FALSE
