\* Two fair worker replicas in one consumer group.
SPECIFICATION FairSpec
CONSTANTS
    Workers = {w1, w2}
    BatchSize = 2
    MaxRetries = 2
    MaxEvents = 3
    MaxSinkFaults = 2
    MaxGhostWrites = 0
    MaxRedisFaults = 1
    MaxStops = 1
INVARIANTS HeldByOne
PROPERTIES BatchedSettles QueuedSettles
CHECK_DEADLOCK FALSE
