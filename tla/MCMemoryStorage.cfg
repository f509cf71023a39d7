CONSTANTS
    Id = {1}
    HashId = {1, 2, 3, 4, 5, 6, 7, 8, 9, 10}
    NewestFirst = TRUE
    Txs <- CandidateTxs
    Targets <- CandidateTargets
SPECIFICATION Spec
INVARIANTS
    TypeOK
    TablesAgree
    ReferencesAgree
    QueuesAgree
PROPERTIES
    SpentForever
    ImplementsStorage
