SPECIFICATION Spec
CONSTANTS
    Procs = {p1, p2}
    Slots = {1, 2}
    Stalls = FALSE
    SameIdentity = FALSE
    MaxRestarts = 0
    Free = Free
    p1 = p1
    p2 = p2
INVARIANTS
    IndexersExclude
