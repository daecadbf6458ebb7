\* Two counters, three visits, one bill: what the till and the jobs do.
CONSTANTS
    Tokens = {t1, t2, t3}
    Counters = {front, back}
    Bills = {b1}
    None = None
    TTL = 1
    MaxTime = 3
    Batch = 3
SPECIFICATION TillSpec
SYMMETRY Interchangeable
CHECK_DEADLOCK FALSE
INVARIANTS
    OneBillingSlot
PROPERTIES
    SwapFreesTheCounter
    ImplementsCounterSlot
