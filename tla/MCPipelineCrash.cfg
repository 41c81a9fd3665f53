SPECIFICATION FairSpec
CONSTANTS
    w1 = w1
    doc = doc
    NoKey = NoKey
    NoWorker = NoWorker
    NoOwner = NoOwner
    Doc = doc
    Workers <- MCOneWorker
    Kinds <- PipelineKinds
    Owners <- MCOwners
    Keys <- DedupKeys
    JobIds <- DedupKeys
    MaxAttempts <- MCMaxAttempts
    Pages <- MCTwoPages
    Formats <- MCAnyFormat
    MaxPending = 3
    Operations <- MCReuploadDelete
    MaxOperations = 1
    Faults <- MCCrashAbort
    MaxFaults = 1
    MaxDisturbances = 1
CHECK_DEADLOCK FALSE
PROPERTIES
    FollowsStateMachine
    SettlesUndisturbed
