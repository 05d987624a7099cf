SPECIFICATION Spec
CONSTANTS
    Thread = {t1, t2}
    Pkg = {a, b, c}
    Name = {n}
    Content = {c1, c2, c3}
    Imports <- Chain
    Refs <- ChainRefs
    First <- FirstWorld
    Worlds <- ChainWorlds
    Queried = {a}
    Openable = {a}
    MaxEdits = 2
    MaxTouched = 1
    Busy <- OneTwoOne
    NoContent = NoContent
    NoHandle = NoHandle
    NoKey = NoKey
    NoDeps = NoDeps
    NoData = NoData
    NoPkg = NoPkg
    NoReach = NoReach
    a = a
    b = b
    c = c
    d = d
    n = n
    c1 = c1
    c2 = c2
    c3 = c3
SYMMETRY Symmetric
INVARIANTS TypeOK HandlesCurrent ResultsCurrent BatchServesRequests
PROPERTIES HandlesImprove
CHECK_DEADLOCK FALSE
