CONSTANTS
    Request = {r1}
    Worker = {w1, w2}
    Handler = {h1}
    MaxRuns = 1
    MaxEdits = 1
    MaxFaults = 1
SPECIFICATION Spec
INVARIANTS
    NoSilentStop
    FreshPayload
SYMMETRY Interchangeable
CHECK_DEADLOCK FALSE
