SPECIFICATION Spec
CONSTANTS
    DeadQueueSize = 2
    SendQueueSize = 3
    MaxEvents = 1
    MaxSockets = 2
    MaxDrops = 1
    MaxTrouble = 2
INVARIANT NothingLostOnReconnect
CHECK_DEADLOCK FALSE
