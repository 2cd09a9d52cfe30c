SPECIFICATION FairSpec
CONSTANTS
    Orders = {o1}
    NoOrder = NoOrder
    Workers = {w1, w2}
    MaxFaults = 2
    OutliveLease = FALSE
CHECK_DEADLOCK FALSE
INVARIANTS
    AcknowledgedMeansSettled
    OneFulfilment

    
