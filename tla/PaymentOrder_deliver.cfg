SPECIFICATION FairSpec
CONSTANTS
    Orders = {o1}
    NoOrder = NoOrder
    Workers = {w1, w2}
    MaxFaults = 0
    OutliveLease = TRUE
CHECK_DEADLOCK FALSE
PROPERTIES
    PaidIsDelivered
