SPECIFICATION Spec
CONSTANTS
    Files = {f1, f2}
    Configs = {c1}
    None = None
    MaxEdits = 2
    MaxDeaths = 1
    FullDies = FALSE
    Reverts = TRUE
    MidEdit = FALSE
    f1 = f1
    f2 = f2
    c1 = c1
INVARIANTS
    PassConverges
