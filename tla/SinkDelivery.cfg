\* Posts that fail, arrive late or in part, a circuit that opens, a crash, a stop.
CONSTANTS
    w1 = w1
    w2 = w2
    Close = Close
    MaxEvents = 3
    MaxQueueSize = 2
    BatchSize = 2
    MaxRetries = 1
    CircuitBreakerThreshold = 1
    Writers = {}
    MaxCrashes = 1
    MaxStops = 1
    MaxFaults = 2
SPECIFICATION FairSpec
CHECK_DEADLOCK FALSE
INVARIANTS
    TypeOK
    NothingDropped
    InOrder
PROPERTIES
    EventuallyDelivered
