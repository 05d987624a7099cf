SPECIFICATION BridgeSpec
CONSTANTS
    Thread = {w, t1}
    Watcher = w
    View = {v1, v2}
    Snap = {s1, s2, s3, s4}
    File = {u1}
    Folder = {f1}
    Def = {d1, d2}
    FolderOf <- OneFolder
    Covers <- FirstCovers
    MaxEdits = 1
    Calls = {}
    NoView = NoView
    NoSnap = NoSnap
    NoDef = NoDef
    Unset = Unset
    Nobody = Nobody
    Loader = Loader
    d1 = d1
    d2 = d2
    f1 = f1
    u1 = u1
SYMMETRY Symmetric
INVARIANTS ExitsCleanly
CHECK_DEADLOCK FALSE
