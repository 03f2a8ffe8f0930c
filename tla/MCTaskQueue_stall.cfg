SPECIFICATION Spec
CONSTANTS
    Tasks = {t1}
    Workers = {w1, w2}
    MaxAttempts = 2
    MaxReplays = 1
    Stalls = TRUE
    Purging = FALSE
    NoTask = NoTask
    t1 = t1
    w1 = w1
    w2 = w2
INVARIANTS
    NoLostRequest
