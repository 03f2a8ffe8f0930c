SPECIFICATION LiveSpec
CONSTANTS
    Tasks = {t1, t2}
    Workers = {w1, w2}
    MaxAttempts = 2
    MaxReplays = 0
    Stalls = TRUE
    Purging = TRUE
    NoTask = NoTask
    t1 = t1
    t2 = t2
    w1 = w1
    w2 = w2
INVARIANTS
    BoundedDelivery
PROPERTIES
    EventuallySettled
