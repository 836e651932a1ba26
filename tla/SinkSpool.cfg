\* Persist calls that overlap, a disk that fails, a crash, a queue of one event.
CONSTANTS
    w1 = w1
    w2 = w2
    Close = Close
    MaxEvents = 3
    MaxQueueSize = 1
    BatchSize = 1
    MaxRetries = 0
    CircuitBreakerThreshold = 1
    Writers = {w1, w2}
    MaxCrashes = 1
    MaxStops = 0
    MaxFaults = 1
SPECIFICATION Spec
CHECK_DEADLOCK FALSE
INVARIANTS
    SpoolFollowsQueue
