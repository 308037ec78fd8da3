SPECIFICATION Spec
CONSTANTS
    Capacity = 3
    Addresses <- MCAddresses
    MaxAddresses = 4
    Macs <- MCMacs
INVARIANTS
    WritesInArray
CHECK_DEADLOCK FALSE
