\* Every endpoint and fair jobs: a visit in the shop is closed in the end.
CONSTANTS
    Tokens = {t1, t2}
    Counters = {front}
    Bills = {b1, b2}
    None = None
    TTL = 1
    MaxTime = 2
    Batch = 2
SPECIFICATION FairSpec
CHECK_DEADLOCK FALSE
INVARIANTS
    TypeOK
PROPERTIES
    VisitsEnd
