\* Three requests for two prefixes neither of which begins the other; two
\* programs rewriting BIRD's file; two lookups of names that share an address.
SPECIFICATION ToolsSpec
CONSTANTS
    r1 = r1
    r2 = r2
    r3 = r3
    p1 = p1
    p2 = p2
    t1 = t1
    Vpn = Vpn
    Blackhole = Blackhole
    Via = Via
    None = None
    NoText = NoText
    Nobody = Nobody
    Requests = {r1, r2, r3}
    Networks = {p1, p2}
    Begins = {}
    Texts = {}
    Faults = {"bird", "disk", "crash", "restart"}
    MaxCrashes = 1
    a = a
    b = b
    c = c
    CommentLine = CommentLine
    CutLine = CutLine
    Missing = Missing
    Nothing = Nothing
    RouteLines <- BirdRoutes
    Updates <- UpdateLists
    Batches <- BatchLists
    Addresses <- Hosts
    Domains <- Resolved
    BirdProcesses = {1, 2}
    BirdFaults = {"create", "read", "rename", "disk", "socket", "crash"}
    x = x
    y = y
    d1 = d1
    d2 = d2
    Direct = Direct
    NotCached = NotCached
    Lookups = {1, 2}
    LookupFaults = {"dns", "route", "whois", "api"}
INVARIANTS
    
    DriftHasCause
    OneLinePerPrefix
    DriftIsReported
    FileIsOneList
    AnswersFit

    
\* Every request is handled once.
CHECK_DEADLOCK FALSE
