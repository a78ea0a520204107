SPECIFICATION Spec
CONSTANTS
    Providers = {"gitea", "github", "gitlab"}
    Sorts = {"recent_update"}
    Limit = 1
    PageSize = 2
    LinkPageSize = 1
    MaxPages = 2
    MaxPulls = 5
    MaxMoves = 0
    Null = Null
PROPERTY WalkEnds
CHECK_DEADLOCK FALSE
