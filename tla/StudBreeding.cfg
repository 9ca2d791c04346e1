SPECIFICATION FairSpec
CONSTANTS
  p1 = p1
  p2 = p2
  c1 = c1
  noone = noone
  None = noone
  Attempts <- MCAttempts
  Contracts <- MCContracts
  Lives <- MCLives
  Processes <- MCProcesses
  Offers <- MCOffers
  MinLitter = 2
  SmallLitter = 1
  MaxLitter = 2
CHECK_DEADLOCK FALSE
INVARIANTS AgreementIsBredOnce NoLitterIsRepaid TreatmentIsPaidOnce OneLitterPerAttempt
PROPERTIES DecisionsAreFinal DeadlinesAreKept BreedingEnds
