CONSTANTS
    Request = {r1, r2, r3}
    Forwarder = {}
    Quota = 1
    MaxConcurrent = 2
    MaxReports = 0
    MaxOutages = 1
SPECIFICATION Spec
INVARIANTS
    QuotaOvershootBounded
    CountWithinArrivals
SYMMETRY Alike
CHECK_DEADLOCK FALSE
