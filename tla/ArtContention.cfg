CONSTANTS
    a1 = a1
    a2 = a2
    r1 = r1
    r2 = r2
    r3 = r3
    r4 = r4
    w1 = w1
    None = None
    Attempts = {a1, a2}
    Units <- UnitsMC
    Total = 2
    Requests = {r1, r2, r3, r4}
    RequestFor <- RequestForContention
    Workers = {w1}
    SingleTab = TRUE
SPECIFICATION Spec
CHECK_DEADLOCK FALSE
INVARIANTS
    TypeOK
    FundedWithinGoal
    CapturedHoldsItsUnits
    ReservationsFit
    ContributionIsPaid
    VoidedIsNotCharged
PROPERTIES
    ClaimBoundary
