SPECIFICATION Spec
CONSTANTS
    Workers = {w1, w2}
    Prints = {p, q}
    NoPrint = none
    Lease = 2
    TTL = 3
    MaxClock = 7
    Backoff = 2
    Renewing = TRUE
SYMMETRY Symmetry
INVARIANTS TypeOK OnceWithinTTL OneExecution
PROPERTIES ReplayIsOwn RefusedByLiveClaim
