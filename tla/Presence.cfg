SPECIFICATION FairSpec
CONSTANTS
    Aliases <- MCAliases
    Sources <- MCSources
    Cli = Cli
    MaxOutbox = 1
    MaxSeq = 2
    MaxChanges = 2
    MaxFaults = 1
INVARIANTS
    NoticesWellPlaced
    JoinsAlternate
    NoCircularWait
PROPERTY NoticesSettle
CHECK_DEADLOCK FALSE
