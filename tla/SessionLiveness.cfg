SPECIFICATION FairSpec
CONSTANTS
    Thread = {t1, t2}
    View = {v1}
    Snap = {s1, s2, s3}
    File = {u1}
    Folder = {f1}
    Def = {d1}
    FolderOf <- OneDef
    Covers <- FirstCovers
    MaxEdits = 1
    Calls = {"NewView", "ToolCall", "RemoveView", "InvalidateView"}
    NoView = NoView
    NoSnap = NoSnap
    NoDef = NoDef
    Unset = Unset
    Nobody = Nobody
    Loader = Loader
    d1 = d1
    d2 = d2
    f1 = f1
    f2 = f2
    u1 = u1
PROPERTIES LockReleased AwaitEnds
CHECK_DEADLOCK FALSE
