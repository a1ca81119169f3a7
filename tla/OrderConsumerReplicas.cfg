\* Two fair replicas, three snapshots of an order, a failing call, a crash and
\* an expiring key.
SPECIFICATION FairSpec
CONSTANTS
    Workers = {w1, w2}
    Orders = {o1}
    BatchSize = 2
    MaxRetries = 2
    MaxMessages = 3
    MaxFaults = 1
    MaxStops = 1
    MaxExpiries = 1
INVARIANTS PurchaseBounded UncountedExplained NeverRetried
PROPERTIES Implements QueuedSettles
CHECK_DEADLOCK FALSE
