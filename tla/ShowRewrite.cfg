CONSTANTS
    e1 = e1
    e2 = e2
    e3 = e3
    j1 = j1
    j2 = j2
    f1 = f1
    f2 = f2
    NDays = 1
    Blocks = {1, 2}
    DayOf <- OneDay
    Entries = {e1, e2}
    BlockOf <- BlockOfTwo
    JudgeJobs = {j1}
    FinalJobs = {f1, f2}
    Prompt = TRUE
    LateDeaths = FALSE
    MaxFails = 0
    MaxLost = 0
    MaxCrashes = 0
SPECIFICATION Spec
CHECK_DEADLOCK FALSE
PROPERTIES
    CreditsAreFrozen
