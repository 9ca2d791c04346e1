CONSTANTS
    e1 = e1
    e2 = e2
    e3 = e3
    j1 = j1
    j2 = j2
    f1 = f1
    f2 = f2
    NDays = 2
    Blocks = {1, 2, 3}
    DayOf <- ThreeBlocks
    Entries = {e1, e3}
    BlockOf <- BlockOfEnds
    JudgeJobs = {j1}
    FinalJobs = {f1}
    Prompt = TRUE
    LateDeaths = FALSE
    MaxFails = 1
    MaxLost = 1
    MaxCrashes = 1
SPECIFICATION FairSpec
CHECK_DEADLOCK FALSE
INVARIANTS
    CompleteClusterIsSettled
PROPERTIES
    EveryDaySettles
