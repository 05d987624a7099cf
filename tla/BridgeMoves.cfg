SPECIFICATION BridgeSpec
CONSTANTS
    Dir = {"r", "d", "e"}
    File = {"f", "g"}
    Root = "r"
    Parent <- MCParent
    Skipped = {}
    FirstFiles = {"r", "d", "g"}
    MaxChanges = 2
    MaxFailures = 1
    NoPath = NoPath
INVARIANT
    SessionFollowsDisk
CHECK_DEADLOCK FALSE
