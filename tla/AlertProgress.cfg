CONSTANTS
    Scan = {s1}
    Owner = {o1}
    Mails = FALSE
    MaxAlerts = 3
    MaxEdits = 1
    MaxFaults = 1
SPECIFICATION FairSpec
PROPERTIES
    AlertsSpaced
    AlertRaised
    
CHECK_DEADLOCK FALSE
