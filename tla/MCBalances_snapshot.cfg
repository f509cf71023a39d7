\* A reader beside one client.
CONSTANTS
    Id = {1}
    HashId = {1, 2, 3, 4}
    NewestFirst = TRUE
    Client = {c1}
    UserRef <- OneRef
    Amount = {2, 3}
SPECIFICATION ReadSpec
PROPERTIES
    NoDoubleCounting
