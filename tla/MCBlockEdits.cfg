SPECIFICATION FairSpec
CONSTANTS
    w1 = w1
    handler1 = handler1
    handler2 = handler2
    tab = tab
    b1 = b1
    b2 = b2
    c1 = c1
    c2 = c2
    cite1 = cite1
    NoKey = NoKey
    NoWorker = NoWorker
    NoOwner <- MCNoOwner
    NoVector = NoVector
    NotReading = NotReading
    Workers <- MCWorkers
    Kinds <- MCKinds
    Owners <- MCOwners
    Keys <- MCNoKeys
    JobIds <- MCJobIds
    MaxAttempts <- MCMaxAttempts
    Blocks <- MCBlocks
    Chunks <- MCChunks
    BlocksOf <- MCBlocksOf
    Citations <- MCCitations
    ChunkOf <- MCChunkOf
    Writers <- MCHandlers
    Clients <- MCClients
    Types <- MCTypes
    Limit = 1
    Budgets <- MCBudgets
CHECK_DEADLOCK FALSE
INVARIANTS
    TypeOK
    OutdatedIsStale
PROPERTIES
    FollowsFeed
    UnembeddedIsEmbedded
    EveryEventArrives
