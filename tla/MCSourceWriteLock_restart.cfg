SPECIFICATION LiveSpec
CONSTANTS
    Procs = {p1}
    Slots = {1}
    Stalls = FALSE
    SameIdentity = TRUE
    MaxRestarts = 1
    Free = Free
    p1 = p1
PROPERTIES
    NeverBricked
