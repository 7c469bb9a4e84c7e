SPECIFICATION Spec
CONSTANTS
    Run = {r1, r2}
    Options <- MCOptions
    Inputs <- MCInputs
    MaxFailures = 1
    MayOverlap = FALSE
    Absent = Absent
    NoOne = NoOne
INVARIANTS
    FilesAreListed
    TornIsRepaired
PROPERTIES
    NotOverwritten
    ImplementsContract
CHECK_DEADLOCK FALSE
