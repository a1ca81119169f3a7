\* Overlapping requests and retries, with failing calls, a dying process and
\* an expiring key.
SPECIFICATION Spec
CONSTANTS
    Requests = {r1, r2}
    Events = {e1, e2}
    EventLimit = 3
    MaxBatch = 2
    MaxSubmissions = 4
    MaxFaults = 2
    MaxDeaths = 1
    MaxExpiries = 1
SYMMETRY Symmetry
INVARIANTS QuotaHolds RefundsBalance OncePerKey LossExplained
CHECK_DEADLOCK FALSE
