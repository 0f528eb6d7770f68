\* Two sessions, two targets given by name, one route, one probe at a time,
\* and every mishap except the expiry of routes.
SPECIFICATION Spec
CONSTANTS
    s1 = s1
    s2 = s2
    name = name
    other = other
    address = address
    u1 = u1
    u2 = u2
    None = None
    Direct = Direct
    Sessions = {s1, s2}
    Hosts = {name, other}
    Addresses = {}
    Silenced = {other}
    Upstreams = {u1}
    Fallbacks = {u1, None}
    MaxRoutes = 1
    MaxStates = 1
    Backoff = 1
    Faults = {"connectFails", "probeFails", "saveFails", "filtered", "leaves", "operator"}
SYMMETRY SessionSymmetry
PROPERTIES
    ImplementsCoordinator
    RetryUsesLearned
