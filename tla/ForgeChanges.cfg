SPECIFICATION Spec
CONSTANTS
    Providers = {"gitea", "github", "gitlab"}
    Limits = {3}
    PageSize = 2
    MaxPages = 2
    MaxEvents = 4
    MaxItems = 3
    MaxMoves = 1
    Null = Null
INVARIANTS
    TypeOK
    CompletePollMissesNothing
    MovesComeWithChecks
    CursorAdvances
CHECK_DEADLOCK FALSE
