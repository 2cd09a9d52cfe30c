SPECIFICATION Spec
CONSTANTS
    Orders = {o1}
    NoOrder = NoOrder
    Workers = {w1, w2}
    MaxFaults = 2
    OutliveLease = TRUE
SYMMETRY WorkerSymmetry
CHECK_DEADLOCK FALSE
INVARIANTS
    TypeOK
    DeliveredAtMostOnce
    SettledMeansDelivered
    PaidAtIsTrue
PROPERTIES
    PaidIsNotUnwound
    KeepsContract
