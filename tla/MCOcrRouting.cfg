SPECIFICATION FairOcrSpec
CONSTANTS
    ollama = ollama
    haiku = haiku
    sonnet = sonnet
    gpt = gpt
    ask = ask
    Requests <- MCRequests
    Prompts <- MCPrompts
    Tiers <- MCTiers
    Providers <- MCProviders
    Estimate <- MCEstimate
    Worlds <- MCWorlds
    HourlyUsd = 2
    Hour = 1
    Pages <- MCPages
    Tasks <- MCTasks
    Cap = 2
    VisionTier <- MCVision
    VisionPrompt = ask
CHECK_DEADLOCK FALSE
INVARIANTS
    LedgerBalanced
    
    SlotsCoverCalls
PROPERTY
    WorkEnds
