SPECIFICATION Spec
CONSTANTS
    w1 = w1
    w2 = w2
    doc = doc
    draft = draft
    k1 = k1
    NoKey = NoKey
    NoWorker = NoWorker
    NoOwner = NoOwner
    Workers <- MCWorkers
    Kinds <- MCKinds
    Owners <- MCOwners
    Drafts <- MCDrafts
    Keys <- MCKeys
    MaxAttempts <- MCMaxAttempts
    Slots <- MCSlots
    JobIds <- MCJobIds
    MaxFaults = 1
INVARIANTS
    AttemptsWithinBudget
    OverlapNeedsReclaim
    HistoryHasOneEnding
PROPERTY
    FinishedStaysFinished
SYMMETRY WorkerSymmetry
