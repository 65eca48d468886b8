CONSTANTS
    Request = {r1, r2}
    Forwarder = {w1}
    Quota = 1
    MaxConcurrent = 1
    MaxReports = 2
    MaxOutages = 2
SPECIFICATION Spec
INVARIANTS
    TypeOK
    ForwardNotForgotten
    RetriedIffFailed
    ResultVisible
SYMMETRY Alike
CHECK_DEADLOCK FALSE
