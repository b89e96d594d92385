SPECIFICATION MCSpec
CONSTANTS
    Conns <- MCConns
    Slots <- MCSlots
    MaxArrivals = 2
    MaxUnread = 2
    MaxControls = 1
    MaxFollowUps = 1
    Endless = FALSE
    Tickers <- MCBoth
    s1 = s1
INVARIANTS
    LaneExclusion
    NoLostWake
    CleanExit
PROPERTIES
    AskedIsVisited
    EveryoneIsVisited
CHECK_DEADLOCK FALSE
