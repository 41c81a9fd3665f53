SPECIFICATION FairSessionSpec
CONSTANTS
    w1 = w1
    doc = doc
    s1 = s1
    s2 = s2
    NoKey = NoKey
    NoWorker = NoWorker
    NoOwner = NoOwner
    Doc = doc
    Workers <- MCOneWorker
    Kinds <- MCSessionKinds
    Owners <- MCOwners
    Keys <- MCSessionKeys
    JobIds <- MCSessionKeys
    MaxAttempts <- MCMaxAttempts
    Pages <- MCTwoPages
    Formats <- MCAnyFormat
    MaxPending = 3
    Operations <- MCDelete
    MaxOperations = 1
    Faults <- MCCrashAbort
    MaxFaults = 1
    MaxDisturbances = 1
    Sessions <- MCOneSession
    MaxAccepts = 1
CHECK_DEADLOCK FALSE
INVARIANTS
    ReadyIsWhole
    ReadyHasNothingElse
    NoDuplicateText
PROPERTIES
    SessionSettles
    AcceptedIsProcessed
    AcceptedStaysAccepted
