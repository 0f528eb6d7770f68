\* Two sessions of a silenced target, probes that get through, clients that leave,
\* routes that expire and an operator who deletes and adds them.
SPECIFICATION FairSpec
CONSTANTS
    s1 = s1
    s2 = s2
    name = name
    other = other
    address = address
    u1 = u1
    u2 = u2
    None = None
    Direct = Direct
    Sessions = {s1, s2}
    Hosts = {other}
    Addresses = {}
    Silenced = {other}
    Upstreams = {u1, u2}
    Fallbacks = {u1, u2}
    MaxRoutes = 1
    MaxStates = 1
    Backoff = 1
    Faults = {"connectFails", "leaves", "operator", "expiry"}
PROPERTIES
    SessionsDrain
    HealsSilenced
