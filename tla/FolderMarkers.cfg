CONSTANTS
    Folder = {f1, f2}
    ScanCall = {c1, c2}
    MaxChanges = 1
    None = None
SPECIFICATION FoldersSpec
INVARIANT MarkersAreTheActiveFolders
CHECK_DEADLOCK FALSE
