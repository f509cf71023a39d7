CONSTANTS
    Id = {1, 2, 3}
    HashId = {1}
SPECIFICATION FairSpec
INVARIANTS
    TypeOK
    NoneIsLeftOut
    UndisturbedIsExact
PROPERTIES
    ImplementsListing
    PollsRunOut
    Ends
