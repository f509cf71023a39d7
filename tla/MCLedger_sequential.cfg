\* One client with zero and negative amounts, and references that collide with
\* the ones the ledger derives: what holds when calls do not overlap.
CONSTANTS
    Id = {1}
    HashId = {1, 2, 3, 4, 5, 6}
    NewestFirst = TRUE
    Client = {c1}
    UserRef <- PrefixedRefs
    Amount <- SignedOrZero
SPECIFICATION Spec
INVARIANTS
    NoDanglingExchange
    AloneNothingRaces
    BookAddsUp
PROPERTIES
    NotEnoughIsHonest
