CONSTANTS
    o1 = o1
    o2 = o2
    t1 = t1
    User = {u1, u2}
    Org = {o1, o2}
    Team = {t1}
    OrgOf <- MCOrgOf
    VaultId = {v1, v2, v3, v4, v5, v6}
    Listing = {l1, l2}
    MaxChanges = 1
SPECIFICATION Spec
INVARIANTS
    CallersAgree
    AnswersLast
    ListsEverything
    FailsOnlyOnChange
PROPERTIES
    GetOrCreate
SYMMETRY Symmetry
CHECK_DEADLOCK FALSE
