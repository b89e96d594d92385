SPECIFICATION Spec
CONSTANTS
    l1 = l1
    l2 = l2
    a1 = a1
    a2 = a2
    Aliases = {a1, a2}
    Orchestrators = {a2}
    Anchor = a1
    Launchers = {l1, l2}
    Nobody = nobody
    OnStale = "template"
    MaxSessions = 3
    MaxProcs = 3
    Budgets <- Mixes
SYMMETRY Symmetric
INVARIANTS OneChildOnTheWay
PROPERTIES FailureTakesNothing ForkIsNotTakenIn
CHECK_DEADLOCK FALSE
