SPECIFICATION FairSpec
CONSTANTS
    Goroutine = {g1, g2, g3}
    Key = {k1, k2}
    Value = {v1, v2}
    Future = {f1, f2}
    persistent = {k2}
    NoFuture = NoFuture
    NoValue = NoValue
    NoKey = NoKey
    Cancelled = Cancelled
INVARIANTS TypeOK TokenConserved EntriesExact ReturnsRoundValue
PROPERTIES PersistentOnce CallsReturn ImplementsSingleFlight
