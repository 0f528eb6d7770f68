\* Three hosts, limits that are reached from below and from above, a clock of
\* three instants with routes expiring after two.
SPECIFICATION Spec
CONSTANTS
    u1 = u1
    u2 = u2
    NoRoute = NoRoute
    Hosts = {1, 2, 3}
    Upstreams = {u1, u2}
    TTL = 2
    Limits = {0, 2}
    Lag = 1
    MaxTime = 3
SYMMETRY UpstreamSymmetry
INVARIANTS
    RoutesDurable
    CleanIsSaved
    PruneLoopAgrees
PROPERTIES
    EvictsLeastRecentlyUsed
    LimitHeld
    ImplementsRouteTable
