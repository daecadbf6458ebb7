\* Nothing is refused and the connection comes back; a queued sale waits on.
CONSTANTS
    Sales = {s1, s2}
    NoSale = NoSale
    Refusable = {}
    Workers = {w1}
    MaxPresses = 2
    MaxTroubles = 2
SPECIFICATION FairSpec
CHECK_DEADLOCK FALSE
PROPERTIES
    QueuedSalesSync
