\* One worker, every kind of failure.
SPECIFICATION Spec
CONSTANTS
    Workers = {w1}
    BatchSize = 2
    MaxRetries = 2
    MaxEvents = 4
    MaxSinkFaults = 3
    MaxGhostWrites = 1
    MaxRedisFaults = 2
    MaxStops = 1
INVARIANTS AckedHasOutcome OutcomesBounded DeadLetterEarned BatchBounded
PROPERTIES StrandedForGood Implements
CHECK_DEADLOCK FALSE
