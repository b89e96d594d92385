CONSTANTS
    Kinds <- MCKinds
    MaxAttempts = 2
    Budgets <- MCBudgets
SPECIFICATION FairSpec
INVARIANT NothingIsLost
INVARIANT SkipsTheBacklog
PROPERTY EverythingSettles
CHECK_DEADLOCK FALSE
