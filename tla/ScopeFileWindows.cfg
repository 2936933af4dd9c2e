CONSTANTS
    Window = {w1, w2}
    Writer = {w1, w2}
    Edit = {e1}
    HandEdit = {}
    TempName = {t1, t2, t3}
    Load = {l1}
    MaxExternal = 0
    MaxCrash = 1
    MaxRefresh = 0
    WATCHED = FALSE
    OVERLAP = TRUE
    WRITE_ERRORS = TRUE
    READ_ERRORS = TRUE
SPECIFICATION Spec
INVARIANTS
    NeverTorn
    TempsAreInUse
PROPERTIES
    SavesItsOwnText
SYMMETRY Symmetry
CHECK_DEADLOCK FALSE
