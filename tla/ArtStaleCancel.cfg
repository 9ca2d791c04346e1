CONSTANTS
    a1 = a1
    a2 = a2
    r1 = r1
    r2 = r2
    r3 = r3
    r4 = r4
    w1 = w1
    None = None
    Attempts = {a1}
    Units <- UnitsOne
    Total = 2
    Requests = {r1, r2, r3}
    RequestFor <- RequestForOne
    Workers = {w1}
    SingleTab = FALSE
SPECIFICATION Spec
CHECK_DEADLOCK FALSE
INVARIANTS
    CancelledIsNotCharged
