CONSTANTS
    Window = {w1}
    Writer = {w1}
    Edit = {e1, e2}
    HandEdit = {}
    TempName = {t1, t2}
    Load = {l1, l2}
    MaxExternal = 0
    MaxCrash = 0
    MaxRefresh = 0
    WATCHED = TRUE
    OVERLAP = FALSE
    WRITE_ERRORS = FALSE
    READ_ERRORS = FALSE
SPECIFICATION Spec
PROPERTIES
    OwnWritesDoNotReload
CHECK_DEADLOCK FALSE
