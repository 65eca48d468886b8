SPECIFICATION BackOfficeFairSpec
CONSTANTS
    Null = Null
    MaxCalls = 3
    MaxFaults = 1
    Member = {m1}
    Email = {e1}
    Handle = {h1}
    Owner = {u1, u2}
    Socket = {s1}
    Prefix = {p1, p2}
    Customer = {u1}
    Subscription = {a, b}
    Price = {x, y}
    Listed = {x}
    MaxEvents = 3
    Tenant = {u1}
    Made = {i1}
    Limit = {1, 2}
    Reader = {u1, u2}
    Page = {g1}
    Address = {e1}
    PageSize = 2
    MaxRows = 4
    MaxArrivals = 2
    Layout = {{}, {f, g}}
    Inherited = {g}
    Kind = {x}
    Value = {a}
INVARIANTS
    BackOfficeTypeOK
    SocketsSpeakForOwners
    RetiredTokenDead
    
    EndpointsBounded
    VersionsChained
    NoNotificationMissed
    OneWelcome
    WalkNearlyExact
    ScansTell
PROPERTIES
    OnlyAskedColumnsChange
    SpentTokenStaysSpent
    EventsSettle
CHECK_DEADLOCK FALSE
