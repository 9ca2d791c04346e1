CONSTANTS
    e1 = e1
    e2 = e2
    e3 = e3
    j1 = j1
    j2 = j2
    f1 = f1
    f2 = f2
    NDays = 1
    Blocks = {1}
    DayOf <- OneBlock
    Entries = {e1, e2}
    BlockOf <- BlockOfOne
    JudgeJobs = {j1, j2}
    FinalJobs = {f1}
    Prompt = FALSE
    LateDeaths = TRUE
    MaxFails = 2
    MaxLost = 1
    MaxCrashes = 1
SPECIFICATION Spec
CHECK_DEADLOCK FALSE
INVARIANTS
    TypeOK
    JudgedOnce
    EntriesSettled
PROPERTIES
    ClaimIsGivenBack
