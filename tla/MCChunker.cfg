SPECIFICATION FairSpec
CONSTANTS
    MaxTokens = 5
    OverlapTokens = 2
    RowGroup = 2
    ListWindow = 2
    H1Words = 5
    H2Words = 10
    Documents <- MCDocuments
INVARIANTS
    NothingLost
    ChunksFit
    SectionIsLatest
PROPERTY
    FittingEnds
