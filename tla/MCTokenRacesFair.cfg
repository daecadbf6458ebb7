\* Two requests and two jobs at a time over two visits and a bill.
CONSTANTS
    Tokens = {t1, t2}
    Counters = {front}
    Bills = {b1}
    None = None
    TTL = 1
    MaxTime = 2
    Batch = 2
    Requests = {w1, w2}
    ExpireJob = expireJob
    RecoverJob = recoverJob
SPECIFICATION RaceFairSpec
CHECK_DEADLOCK FALSE
INVARIANTS
    LinkedBillIsLive
PROPERTIES
    HeldDoesNotStick
