SPECIFICATION Spec
CONSTANTS
    Providers = {"gitea", "gitlab"}
    Sorts = {"number_asc"}
    Limit = 1
    PageSize = 2
    LinkPageSize = 1
    MaxPages = 2
    MaxPulls = 5
    MaxMoves = 0
    Null = Null
INVARIANT NumberSortCollectsFully
CHECK_DEADLOCK FALSE
