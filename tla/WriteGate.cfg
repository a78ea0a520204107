SPECIFICATION Spec
CONSTANTS
    Procs = {p1, p2}
    Repos = {r1, r2}
    Commands = {"merge"}
    Named = Named
    MaxEdits = 2
    Absent = Absent
    Malformed = Malformed
    Null = Null
INVARIANTS
    TypeOK
    WriteWasGranted
    DoctorForeseesGate
    AnswerIsTrue
SYMMETRY Symmetry
CHECK_DEADLOCK FALSE
