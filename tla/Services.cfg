CONSTANTS
    None = None
    Kid = {k1, k2}
    NoKid = NoKid
    Request = {r1, r2}
    RELOAD_INTERVAL = 2
    MaxNow = 4
    Flow = {f1, f2}
    Server = {s1, s2}
    VaultId = {v1}
    RemoteCall = {c1, c2}
    Folder = {d1, d2}
    ScanCall = {q1, q2}
    MaxChanges = 1
    ItemScope = {user, folder}
    Mover = {m1, m2}
    MaxSaves = 4
    EditorFile = {e1}
    RunCall = {n1}
    Version <- MCVersion
SPECIFICATION Spec
INVARIANTS
    RotationIsSeen
    CallbacksReachTheirFlow
    TreeShowsPickedVaults
    
    OpenFoldersAreWatched
    MoveKeepsTheItem
    RunsWhatWasConfirmed
PROPERTY FlowsEnd
CHECK_DEADLOCK FALSE
