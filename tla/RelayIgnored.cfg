SPECIFICATION MCSpec
CONSTANTS
    Consumers <- MCConsumers
    Slots <- MCSlots
    LastItem = 3
    Notices <- MCNotices
    MaxEvents = 2
    MaxFaults = 2
    NoOne = NoOne
    NoSlot = NoSlot
    c1 = c1
    c2 = c2
    s1 = s1
    s2 = s2
PROPERTY MailReachesConnected
CHECK_DEADLOCK FALSE
