SPECIFICATION SchedulerFairSpec
CONSTANTS
    Conns <- MCConns
    Slots <- MCSlots
    MaxArrivals = 1
    MaxUnread = 1
    MaxControls = 0
    MaxFollowUps = 0
    Endless = TRUE
    Tickers <- MCTicks
    s1 = s1
PROPERTIES
    EveryoneIsVisited
CHECK_DEADLOCK FALSE
