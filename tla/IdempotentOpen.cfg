SPECIFICATION Spec
CONSTANTS
    Clients = {c1}
    Targets = {t1, t2}
    Keys = {k1}
    PageSize = 4
    MaxPages = 3
    MaxRecords = 4
    MaxInvocations = 2
    Null = Null
INVARIANTS
    TypeOK
    PostProvesAbsence
SYMMETRY TargetSymmetry
CHECK_DEADLOCK FALSE
