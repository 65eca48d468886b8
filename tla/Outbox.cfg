CONSTANTS
    Tick = {t1, t2}
    MaxAttempts = 2
    Limit = 2
    MaxMails = 2
    MaxFaults = 1
SPECIFICATION FairSpec
INVARIANTS
    TypeOK
    OutcomeTruthful
    DeliveredOnce
PROPERTIES
    SettledStays
    MailSettles
CHECK_DEADLOCK FALSE
