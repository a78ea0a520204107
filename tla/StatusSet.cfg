SPECIFICATION Spec
CONSTANTS
    Clients = {c1}
    Providers = {"gitea", "github", "gitlab"}
    Contexts = {x1, x2}
    Requested = {"success", "error"}
    CiStates = {"success", "failure", "warning", "failed"}
    PageSize = 2
    MaxPages = 3
    MaxStatuses = 4
    MaxInvocations = 1
    Null = Null
SYMMETRY ContextSymmetry
INVARIANTS
    TypeOK
    ReuseWasLatest
    PostWasNeeded
CHECK_DEADLOCK FALSE
