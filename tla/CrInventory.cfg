SPECIFICATION Spec
CONSTANTS
    Providers = {"gitea", "gitea_issues", "github", "gitlab"}
    Sorts = {"number_asc", "recent_update", "recent_created"}
    Limit = 1
    PageSize = 2
    LinkPageSize = 1
    MaxPages = 2
    MaxPulls = 5
    MaxMoves = 2
    Null = Null
INVARIANTS
    TypeOK
    NextSkipsNothing
    CompleteWalkMissesNothing
PROPERTY ShortWalkEnds
CHECK_DEADLOCK FALSE
