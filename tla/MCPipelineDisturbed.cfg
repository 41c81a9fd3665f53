SPECIFICATION Spec
CONSTANTS
    w1 = w1
    doc = doc
    NoKey = NoKey
    NoWorker = NoWorker
    NoOwner = NoOwner
    Doc = doc
    Workers <- MCOneWorker
    Kinds <- PipelineKinds
    Owners <- MCOwners
    Keys <- DedupKeys
    JobIds <- DedupKeys
    MaxAttempts <- MCMaxAttempts
    Pages <- MCOnePage
    Formats <- MCAnyFormat
    MaxPending = 3
    Operations <- MCOperations
    MaxOperations = 1
    Faults <- MCAllFaults
    MaxFaults = 1
    MaxDisturbances = 1
CHECK_DEADLOCK FALSE
INVARIANTS
    TypeOK
    OneHandlerInStage
    ReadyIsEmbedded
