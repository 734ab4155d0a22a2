SPECIFICATION DataSpec
CONSTANTS
    k1 = k1
    k2 = k2
    k3 = k3
    n1 = n1
    Keys = {k1, k2, k3}
    Names = {n1}
    FirstOctet = 2
    LastOctet = 3
    NoLease = NoLease
    MaxRevision = 3
    MaxIP = 7
    BlockSizes = {1, 2, 4, 8}
    MaxVersion = 4
    MaxFaults = 3
SYMMETRY KeySymmetry
CHECK_DEADLOCK FALSE
INVARIANTS AllocatorConsistent LookupRight RoomSurvives
PROPERTIES ImplementsPool
