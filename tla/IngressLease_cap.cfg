SPECIFICATION Spec
CONSTANTS
    Leases = {l1, l2}
    MaxConnections = 1
    TTL = 2
    Interval = 1
    CallTime = 1
    MaxLate = 1
CHECK_DEADLOCK FALSE
INVARIANTS
    TypeOK
    WithinCap
    LostInTime
PROPERTIES
    NoRevival
    EndedOnlyAges
    CapacityReturns
