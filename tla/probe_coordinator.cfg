\* Four hosts, room for three, three probers, a backoff of two ticks.
SPECIFICATION FairSpec
CONSTANTS
    h1 = h1
    h2 = h2
    h3 = h3
    h4 = h4
    p1 = p1
    p2 = p2
    p3 = p3
    NoState = NoState
    Hosts = {h1, h2, h3, h4}
    Probers = {p1, p2, p3}
    Backoff = 2
    MaxStates = 3
INVARIANTS
    ActiveIsOwned
    Bounded
PROPERTIES
    SuppressionHolds
    NeverLockedOut
