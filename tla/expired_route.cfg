\* One silenced target given by name, whose learned route may expire.
SPECIFICATION Spec
CONSTANTS
    s1 = s1
    s2 = s2
    name = name
    other = other
    address = address
    u1 = u1
    u2 = u2
    None = None
    Direct = Direct
    Sessions = {s1}
    Hosts = {name}
    Addresses = {}
    Silenced = {name}
    Upstreams = {u1}
    Fallbacks = {u1, None}
    MaxRoutes = 1
    MaxStates = 1
    Backoff = 1
    Faults = {"leaves", "expiry"}
PROPERTIES
    RetryUsesLearned
