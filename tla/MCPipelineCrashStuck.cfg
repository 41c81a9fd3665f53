SPECIFICATION FairSpec
CONSTANTS
    w1 = w1
    doc = doc
    NoKey = NoKey
    NoWorker = NoWorker
    NoOwner = NoOwner
    Doc = doc
    Workers <- MCOneWorker
    Kinds <- PipelineKinds
    Owners <- MCOwners
    Keys <- DedupKeys
    JobIds <- DedupKeys
    MaxAttempts <- MCMaxAttempts
    Pages <- MCOnePage
    Formats <- MCPdf
    MaxPending = 3
    Operations <- MCNoOperations
    MaxOperations = 0
    Faults <- MCCrash
    MaxFaults = 1
    MaxDisturbances = 1
CHECK_DEADLOCK FALSE
PROPERTY
    DocumentSettles
