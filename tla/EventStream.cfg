SPECIFICATION FairSpec
CONSTANTS
    DeadQueueSize = 2
    SendQueueSize = 3
    MaxEvents = 3
    MaxSockets = 3
    MaxDrops = 2
    MaxTrouble = 4
INVARIANTS
    TypeOK
    QueuesHaveOneOwner
    InStep
    LostOnlyInHandover
PROPERTIES
    IsSubscription
    EveryEventShown
CHECK_DEADLOCK FALSE
