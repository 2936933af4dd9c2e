CONSTANTS
    Window = {w1}
    Writer = {}
    Edit = {}
    HandEdit = {h1}
    TempName = {t1}
    Load = {l1, l2}
    MaxExternal = 3
    MaxCrash = 0
    MaxRefresh = 2
    WATCHED = TRUE
    OVERLAP = TRUE
    WRITE_ERRORS = FALSE
    READ_ERRORS = FALSE
SPECIFICATION FairSpec
PROPERTIES
    ChangesAreServed
CHECK_DEADLOCK FALSE
