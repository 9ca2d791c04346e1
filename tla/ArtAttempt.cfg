CONSTANTS
    a1 = a1
    r1 = r1
    r2 = r2
    r3 = r3
    w1 = w1
    e1 = e1
    None = None
    Attempts = {a1}
    Units <- UnitsOne
    Total = 2
    Requests = {r1, r2, r3}
    RequestFor <- RequestForOne
    Workers = {w1}
    SingleTab = TRUE
    Events = {e1}
    About <- AboutOne
SPECIFICATION FairInbox
CHECK_DEADLOCK FALSE
INVARIANTS
    ProcessedCaptureIsFunded
    FailedIsNotCharged
PROPERTIES
    FailedEventsRecover
    CompletedIsFinal
    UnclearCaptureIsFunded
    VoidIsFinished
