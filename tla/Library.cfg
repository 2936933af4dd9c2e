CONSTANTS
    GroupId = {g1, g2, g3}
    NoGroup = NoGroup
    ItemId = {i1}
    MaxCopies = 2
    MaxNow = 1
    MaxParts = 2
    IncomingFiles <- MCIncomingFiles
SPECIFICATION Spec
INVARIANTS
    WellFormed
    MergeKeepsFreshItems
PROPERTIES
    ReparentIsExact
    DeleteTakesTheSubtree
    UngroupKeepsThePlace
CHECK_DEADLOCK FALSE
