\* One client: two disputes, one of them settled twice.
CONSTANTS
    Id = {1}
    HashId = {1, 2, 3, 4, 5, 6}
    NewestFirst = TRUE
    Client = {c1}
    UserRef <- TwoRefs
    Amount = {1}
SPECIFICATION Spec
INVARIANTS
    OpenDisputesStayFrozen
