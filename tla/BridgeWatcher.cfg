SPECIFICATION FairSpec
CONSTANTS
    Dir = {"r", "d", "e"}
    File = {"f", "g"}
    Root = "r"
    Parent <- MCParent
    Skipped = {}
    FirstFiles = {"r", "d", "g"}
    MaxChanges = 3
    MaxFailures = 1
    NoPath = NoPath
INVARIANTS
    BridgeTypeOK ChangesReachSession
PROPERTIES ParentsFirst
    NothingAfterClose Settles CloseReturns
CHECK_DEADLOCK FALSE
