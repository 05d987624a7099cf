SPECIFICATION FairSpec
CONSTANTS
    Goroutine = {g1, g2}
    Key = {k1}
    Promise = {p1, p2}
    Run = {r1, r2}
    Value = {v1, v2}
    neverEvict = FALSE
    NoPromise = NoPromise
    NoRun = NoRun
    NoValue = NoValue
    NoKey = NoKey
    Spoiled = Spoiled
    Cancelled = Cancelled
INVARIANTS TypeOK SharedWhileHeld RunningWhileAwaited GetReturnsValue ArgumentAlive
PROPERTIES CompletedForGood GetReturns
CHECK_DEADLOCK FALSE
