\* A slow target: its answer may come at any time.
SPECIFICATION Spec
CONSTANTS
    s1 = s1
    s2 = s2
    name = name
    other = other
    address = address
    u1 = u1
    u2 = u2
    None = None
    Direct = Direct
    Sessions = {s1}
    Hosts = {name}
    Addresses = {}
    Silenced = {}
    Upstreams = {u1}
    Fallbacks = {u1, None}
    MaxRoutes = 1
    MaxStates = 1
    Backoff = 1
    Faults = {"leaves"}
INVARIANTS
    ClosesOnlySilent
