CONSTANTS
    Request = {r1}
    Forwarder = {f1}
    Quota = 0
    MaxConcurrent = 1
    MaxReports = 0
    MaxOutages = 1
    Worker = {w1}
    Handler = {h1}
    MaxRuns = 1
    MaxEdits = 0
    MaxFaults = 1
SPECIFICATION DeliverySpec
INVARIANTS
    DeliveriesBounded
PROPERTIES
    ImplementsRetry
CHECK_DEADLOCK FALSE
