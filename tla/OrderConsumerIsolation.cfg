\* A snapshot the repository rejects, under the retry limit; no call fails.
SPECIFICATION FairSpec
CONSTANTS
    Workers = {w1}
    Orders = {o1}
    BatchSize = 1
    MaxRetries = 3
    MaxMessages = 1
    MaxFaults = 0
    MaxStops = 0
    MaxExpiries = 0
PROPERTIES FailedIsIsolated
CHECK_DEADLOCK FALSE
