\* The walk-in entry and the queue board take the slot without asking.
CONSTANTS
    Tokens = {t1, t2}
    Counters = {front}
    Bills = {b1}
    None = None
    TTL = 1
    MaxTime = 3
    Batch = 2
SPECIFICATION Spec
CHECK_DEADLOCK FALSE
INVARIANTS
    OneBillingSlot
