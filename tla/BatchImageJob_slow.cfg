SPECIFICATION Spec
CONSTANTS
    Jobs = {j1}
    Workers = {w1, w2}
    Free = Free
    Orphan = Orphan
    Items = 2
    Discount = 1
    HoldMultiplier = 1
    StartBalance = 3
    Pool = 1
    MaxRetries = 1
    MaxFaults = 1
    MaxReady = 1
    LostAcks = TRUE
    Slow = TRUE
CHECK_DEADLOCK FALSE
SYMMETRY WorkerSymmetry
INVARIANTS
    NoFreeRun
    SettledOnce
    QueueCovers
    FrozenLedger
PROPERTIES
    MoneyLeavesByCapture
