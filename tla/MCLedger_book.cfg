\* Two clients on one account and one reference, against the account book and
\* under fairness.
CONSTANTS
    Id = {1}
    HashId = {1, 2, 3, 4, 5}
    NewestFirst = TRUE
    Client = {c1, c2}
    UserRef <- OneRef
    Amount = {1, 2}
SPECIFICATION FairSpec
PROPERTIES
    ImplementsBook
    Returns
