CONSTANTS
    Id = {1}
    HashId = {1, 2, 3, 4, 5, 6, 7}
    NewestFirst = FALSE
    Conn = {c1, c2}
    Txs <- CandidateTxs
    Targets <- CandidateTargets
    Limit = 4
SPECIFICATION FairSpec
INVARIANTS
    TypeOK
    TablesAgree
    OneCreditPerReference
    ValueIsKept
PROPERTIES
    ImplementsStorage
    Returns
