CONSTANTS
    Scan = {s1, s2}
    Owner = {o1}
    Mails = TRUE
    MaxAlerts = 3
    MaxEdits = 1
    MaxFaults = 1
SPECIFICATION Spec
INVARIANTS
    TypeOK
    DuplicatesBounded
    AlertAnnounced
SYMMETRY Alike
CHECK_DEADLOCK FALSE
