SPECIFICATION Spec
CONSTANTS
    Workers = {w1, w2}
    Prints = {p, q}
    NoPrint = none
    Lease = 2
    TTL = 3
    MaxClock = 6
    Slow = FALSE
SYMMETRY Symmetry
INVARIANTS TypeOK OneOperation
