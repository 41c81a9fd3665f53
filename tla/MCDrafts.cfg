SPECIFICATION FairSpec
CONSTANTS
    w1 = w1
    r1 = r1
    r2 = r2
    tab1 = tab1
    Draft = draft
    NoKey = NoKey
    NoWorker = NoWorker
    NoOwner = NoOwner
    NoForm = NoForm
    Workers <- MCWorkers
    Kinds <- MCKinds
    Owners <- MCOwners
    Keys <- MCNoKeys
    JobIds <- MCJobIds
    MaxAttempts <- MCMaxAttempts
    Requests <- MCRequests
    Forms <- MCForms
    Budgets <- MCBudgets
CHECK_DEADLOCK FALSE
INVARIANTS
    TypeOK
    SectionsOnce
    CurrentTextIsCited
PROPERTIES
    EditedStaysEdited
    DraftSettles
    DeletedIsQuiet
