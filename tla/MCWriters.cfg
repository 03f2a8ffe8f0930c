SPECIFICATION WritersSpec
CONSTANTS
    Procs = {p1, p2, p3}
    Slots = {1}
    Stalls = FALSE
    SameIdentity = FALSE
    MaxRestarts = 2
    Free = Free
    p1 = p1
    p2 = p2
    p3 = p3
    Claims = {c1, c2}
    NoRecord = NoRecord
    Passes = {x1, x2}
    MaxWrites = 3
    MaxMemoryFaults = 1
INVARIANTS
    IndexersExclude
    WriterKeepsFile
    MemoryHolds
PROPERTIES
    MemoryIsTrue
