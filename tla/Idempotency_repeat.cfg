SPECIFICATION Spec
CONSTANTS
    Workers = {w1, w2}
    Prints = {p, q}
    NoPrint = none
    Lease = 1
    TTL = 2
    MaxClock = 5
    Backoff = 1
    Renewing = FALSE
SYMMETRY Symmetry
PROPERTIES SuccessStays
