\* A reader beside one client, on two accounts.
CONSTANTS
    Id = {1, 2}
    HashId = {1, 2, 3, 4, 5}
    NewestFirst = TRUE
    Client = {c1}
    UserRef <- OneRef
    Amount = {2, 3}
SPECIFICATION ReadSpec
INVARIANTS
    InputsHaveASource
PROPERTIES
    UndisturbedReadIsExact
