\* Two clients on one account, with a negative amount.
CONSTANTS
    Id = {1}
    HashId = {1, 2, 3, 4}
    NewestFirst = TRUE
    Client = {c1, c2}
    UserRef <- TwoRefs
    Amount <- SignedAmounts
SPECIFICATION Spec
SYMMETRY ClientSymmetry
INVARIANTS
    TypeOK
    NoDoubleSpend
    OneCreditPerReference
    Conservation
    OnlyRacesAreRefused
    PlannedInputsExist
