SPECIFICATION LiveSpec
CONSTANTS
    Files = {f1, f2}
    Configs = {c1, c2}
    None = None
    MaxEdits = 2
    MaxDeaths = 2
    FullDies = FALSE
    Reverts = FALSE
    MidEdit = FALSE
    f1 = f1
    f2 = f2
    c1 = c1
    c2 = c2
INVARIANTS
    PassConverges
    ManifestIsBacked
PROPERTIES
    IndexHeals
