SPECIFICATION Spec
CONSTANTS
    Orders = {o1}
    NoOrder = NoOrder
    Workers = {w1, w2}
    Amount = 2
    MaxFaults = 2
SYMMETRY WorkerSymmetry
CHECK_DEADLOCK FALSE
INVARIANTS
    TypeOK
    UnrefundedIsWhole
    HeldIsRecorded
PROPERTIES
    OnlyRefundEdges
    KeepsRefundContract
