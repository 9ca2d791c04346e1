CONSTANTS
    p1 = p1
    p2 = p2
    None = None
    Puppies = {p1, p2}
    Contracts <- ContractsMC
    Turn = 1
    Day56 = 3
    Jobs = {j1}
    MaxCrashes = 1
SPECIFICATION FairSpec
INVARIANTS
    TypeOK
    PickIsNotGivenAway
    OnlyThePickIsTransferred
    UnfulfilledOnlyForWant
PROPERTIES
    OutcomeIsFinal
    SelectionEnds
