SPECIFICATION Spec
CONSTANTS
    Providers = {"gitea"}
    Limits = {3}
    PageSize = 1
    MaxPages = 1
    MaxEvents = 4
    MaxItems = 2
    MaxMoves = 1
    Null = Null
INVARIANT TruncationIsReported
CHECK_DEADLOCK FALSE
