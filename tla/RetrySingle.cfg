CONSTANTS
    Request = {r1}
    Worker = {w1}
    Handler = {h1, h2}
    MaxRuns = 2
    MaxEdits = 1
    MaxFaults = 2
SPECIFICATION FairSpec
INVARIANTS
    TypeOK
    SendsAccounted
    SendsBounded
PROPERTIES
    ImplementsContract
    
CHECK_DEADLOCK FALSE
