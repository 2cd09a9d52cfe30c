SPECIFICATION LiveSpec
CONSTANTS
    Jobs = {j1}
    Workers = {w1, w2}
    Free = Free
    Orphan = Orphan
    Items = 2
    Discount = 1
    HoldMultiplier = 0
    StartBalance = 3
    Pool = 2
    MaxRetries = 4
    MaxFaults = 3
    MaxReady = 2
    LostAcks = TRUE
    Slow = FALSE
CHECK_DEADLOCK FALSE
INVARIANTS
    TypeOK
    InFlight
    RetriesAreFaults
    OneWorker
PROPERTIES
    TerminalSticks
    ContractSpec
    QueuedHoldCloses
