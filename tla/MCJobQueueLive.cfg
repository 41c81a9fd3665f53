SPECIFICATION FairSpec
CONSTANTS
    w1 = w1
    w2 = w2
    doc = doc
    draft = draft
    k1 = k1
    NoKey = NoKey
    NoWorker = NoWorker
    NoOwner = NoOwner
    Workers <- MCOneWorker
    Kinds <- MCOneKind
    Owners <- MCOneOwner
    Drafts <- MCNoDrafts
    Keys <- MCKeys
    MaxAttempts <- MCOneKindAttempts
    Slots <- MCOneKindSlots
    JobIds <- MCJobIds
    MaxFaults = 1
PROPERTY
    JobsSettle
