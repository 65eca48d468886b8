CONSTANTS
    Request = {r1}
    Worker = {w1}
    Handler = {h1}
    MaxRuns = 0
    MaxEdits = 0
    MaxFaults = 0
SPECIFICATION Spec
PROPERTY SuccessMeansAnswered
CHECK_DEADLOCK FALSE
