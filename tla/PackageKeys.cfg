SPECIFICATION Spec
CONSTANTS
    Thread = {t1}
    Pkg = {a, b, c, d}
    Name = {n}
    Content = {c1}
    Imports <- LongChain
    Refs <- LongChainRefs
    First <- FirstWorld
    Worlds <- OneWorld
    Queried = {a, b}
    Openable = {}
    MaxEdits = 0
    MaxTouched = 1
    Busy <- OneTwoOne
    NoContent = NoContent
    NoHandle = NoHandle
    NoKey = NoKey
    NoDeps = NoDeps
    NoData = NoData
    NoPkg = NoPkg
    NoReach = NoReach
    a = a
    b = b
    c = c
    d = d
    n = n
    c1 = c1
    c2 = c2
    c3 = c3
INVARIANT KeysCoverReachable
CHECK_DEADLOCK FALSE
