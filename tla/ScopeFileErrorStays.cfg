CONSTANTS
    Window = {w1}
    Writer = {}
    Edit = {}
    HandEdit = {h1}
    TempName = {t1, t2}
    Load = {l1, l2}
    MaxExternal = 3
    MaxCrash = 0
    MaxRefresh = 0
    WATCHED = TRUE
    OVERLAP = FALSE
    WRITE_ERRORS = FALSE
    READ_ERRORS = FALSE
SPECIFICATION FairSpec
PROPERTIES
    ChangesArePickedUp
CHECK_DEADLOCK FALSE
