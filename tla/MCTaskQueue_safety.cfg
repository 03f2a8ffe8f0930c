SPECIFICATION Spec
CONSTANTS
    Tasks = {t1, t2}
    Workers = {w1, w2, w3}
    MaxAttempts = 2
    MaxReplays = 1
    Stalls = FALSE
    Purging = FALSE
    NoTask = NoTask
    t1 = t1
    t2 = t2
    w1 = w1
    w2 = w2
    w3 = w3
INVARIANTS
    TypeOK
    ExclusiveDelivery
    NoLostRequest
PROPERTIES
    ImplementsRequests
