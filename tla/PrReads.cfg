SPECIFICATION Spec
CONSTANTS
    Providers = {"gitea", "github", "gitlab"}
    Commands = {"view", "checks", "checks_ref", "plan", "files", "comments"}
    c1 = c1
    c2 = c2
    Contexts = {c1, c2}
    Reports <- MCReports
    Required = {c1}
    Histories <- MCHistories
    Views <- MCViews
    Entries = {1, 2, 3, 4}
    inside = inside
    outside = outside
    odd = odd
    Paths = {inside, outside, odd}
    ShownAs <- MCShownAs
    Odd = {odd}
    Allowlists = {{inside}}
    FileLists = {{1, 4}, {1, 2, 3}}
    PageSize = 2
    MaxPages = 2
    MaxItems = 3
    MaxMoves = 2
    MaxHeads = 2
    Null = Null
INVARIANTS
    TypeOK
    CompleteListMissesNothing
    ClearPlanIsGrounded
    StaleHeadIsNamed
PROPERTIES
    Answers
CHECK_DEADLOCK FALSE
