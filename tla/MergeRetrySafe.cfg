SPECIFICATION Spec
CONSTANTS
    Clients = {c1}
    Heads = {h1, h2}
    Contexts = {x1, x2}
    Required = {x1}
    CiStates = {"success", "pending", "failure"}
    AllowMissing = FALSE
    AllowPending = TRUE
    MaxInvocations = 2
    MaxMoves = 1
    Null = Null
INVARIANT UnchangedIsRetrySafe
CHECK_DEADLOCK FALSE
