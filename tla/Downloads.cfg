\* Two urls of one model, files of two pieces, a disk that fails and one crash.
CONSTANTS
    None = None
    Hole = Hole
    Urls = {a, b}
    Checks = {FALSE, TRUE}
    Size = 2
    MaxTasks = 2
    DiskFails = TRUE
    MaxCrashes = 1
SPECIFICATION Spec
INVARIANTS
    InPlace
    FinishedIsSound
    EndsAreSeen
CHECK_DEADLOCK FALSE
