CONSTANTS
    Subs = {1, 2, 3}
    Tiers = {1, 2}
    Handlers = {1, 2}
    Stories <- All
SPECIFICATION FairSpec
CHECK_DEADLOCK FALSE
INVARIANTS
    PeriodsFollowTier
    LatestPaymentWins
    DowngradeIsVerified
    ReplacementIsExact
PROPERTIES
    CleanupEnds
