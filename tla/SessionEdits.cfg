SPECIFICATION Spec
CONSTANTS
    Thread = {t1, t2}
    View = {v1, v2}
    Snap = {s1, s2, s3}
    File = {u1}
    Folder = {f1}
    Def = {d1, d2}
    FolderOf <- OneFolder
    Covers <- FirstCovers
    MaxEdits = 2
    Calls = {"NewView", "SnapshotOf", "DidModifyFiles"}
    NoView = NoView
    NoSnap = NoSnap
    NoDef = NoDef
    Unset = Unset
    Nobody = Nobody
    Loader = Loader
    d1 = d1
    d2 = d2
    f1 = f1
    f2 = f2
    u1 = u1
SYMMETRY Symmetric
INVARIANTS TypeOK InvalidatesCurrent RegistryConsistent RequestsSeeEdits
CHECK_DEADLOCK FALSE
