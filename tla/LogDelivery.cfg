SPECIFICATION FairSpec
CONSTANTS
    FileSize = 2
    Archives = 2
    Partial = Partial
    Glued = Glued
    Plugins = {"p"}
    Forms = {"good", "unparsable", "invalid"}
    QueueSize = 2
    BatchSize = 2
    Rate = 2
    MaxEvents = 3
    MaxTroubles = 2
INVARIANTS TypeOK DeliveredInOrder LogKept
PROPERTIES QueueDrains
CHECK_DEADLOCK FALSE
