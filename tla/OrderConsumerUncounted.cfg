\* One failing call between the dedupe key and the stream.
SPECIFICATION Spec
CONSTANTS
    Workers = {w1}
    Orders = {o1}
    BatchSize = 1
    MaxRetries = 3
    MaxMessages = 2
    MaxFaults = 1
    MaxStops = 0
    MaxExpiries = 0
INVARIANTS TrackedIsCounted
CHECK_DEADLOCK FALSE
