SPECIFICATION Spec
CONSTANTS
    Thread = {t1, t2}
    Pkg = {a, b}
    Content = {c1, c2, c3, e1}
    Header <- Headers
    Clause <- Clauses
    Imports <- ImportsOf
    Worlds <- Disks
    FirstWorlds <- FirstDisks
    MaxEdits = 2
    MaxChanges = 1
    Busy <- OneTwoOne
    NoFile = NoFile
    Unread = Unread
    NoMeta = NoMeta
    NoEdit = NoEdit
    a = a
    b = b
    c1 = c1
    c2 = c2
    c3 = c3
    e1 = e1
SYMMETRY Symmetric
INVARIANTS TypeOK HandlesHaveMetadata DroppedMarked MetadataFollowDisk
CHECK_DEADLOCK FALSE
