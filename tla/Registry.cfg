SPECIFICATION FairSpec
CONSTANTS
    Aliases <- MCAliases
    Sessions <- MCSessions
    s1 = s1
    s2 = s2
    Reserved = Reserved
    MaxMail = 1
    MaxConns = 1
    MaxFaults = 1
INVARIANTS
    MailAccounted
PROPERTIES
    NobodyIsEvicted
    CollectionFinishes
CHECK_DEADLOCK FALSE
