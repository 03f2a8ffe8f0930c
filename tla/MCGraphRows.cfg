SPECIFICATION RowsSpec
CONSTANTS
    a = a
    b = b
    GraphNodes = {a, b}
    GraphPairs <- Edges
    SerialWriters = TRUE
    MaxEdits = 2
    MaxReloads = 1
INVARIANT RowsMatchGraph
CHECK_DEADLOCK FALSE
