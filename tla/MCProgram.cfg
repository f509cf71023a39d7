CONSTANTS
    Id = {1, 2}
    HashId = {1, 2, 3, 4, 5, 6, 7, 8}
    NewestFirst = TRUE
    Client = {c1}
    UserRef <- TwoRefs
    Amount <- AllAmounts
    MantissaBits = 8
    FractionBits = 17
    IntBits = 10
    MaxExponent = 22
    Precision = 2
    Files <- AllFiles
SPECIFICATION ProgramSpec
INVARIANTS
    FileIsBooked
    ReportIsExact
    PanicsAreExplained
    AmountsAreKept
    LimitsAreKept
    BooksFollowFile
PROPERTIES
    StepsRunOut
    Terminates
