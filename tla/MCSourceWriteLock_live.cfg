SPECIFICATION LiveSpec
CONSTANTS
    Procs = {p1}
    Slots = {1, 2}
    Stalls = TRUE
    SameIdentity = FALSE
    MaxRestarts = 2
    Free = Free
    p1 = p1
PROPERTIES
    NeverBricked
