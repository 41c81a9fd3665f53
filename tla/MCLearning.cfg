SPECIFICATION FairSpec
CONSTANTS
    w1 = w1
    api = api
    worker = worker
    roles = roles
    parties = parties
    partyNames = partyNames
    NoKey = NoKey
    NoWorker = NoWorker
    NoOwner = NoOwner
    NoProcess = NoProcess
    Api = api
    Workers <- MCWorkers
    Kinds <- MCKinds
    Owners <- MCEdits
    Keys <- MCEdits
    JobIds <- MCEdits
    Edits <- MCEdits
    MaxAttempts <- MCMaxAttempts
    Processes <- MCProcesses
    Fields <- MCFields
    Rules <- MCRules
    Similar <- MCNoSimilar
    MinEdits = 1
    VersionLookback = 1
    Budgets <- MCBudgets
CHECK_DEADLOCK FALSE
INVARIANTS
    TypeOK
    RulesOnce
    NothingSkipped
PROPERTIES
    EditIsIndexed
    RunsKeepRules
