CONSTANTS
    Window = {w1, w2}
    Writer = {w1}
    Edit = {e1, e2, e3}
    HandEdit = {}
    TempName = {t1, t2}
    Load = {l1}
    MaxExternal = 0
    MaxCrash = 2
    MaxRefresh = 2
    WATCHED = FALSE
    OVERLAP = FALSE
    WRITE_ERRORS = TRUE
    READ_ERRORS = FALSE
SPECIFICATION Spec
INVARIANT MemoryCoversDisk
PROPERTY KeepsAJournal
CHECK_DEADLOCK FALSE
