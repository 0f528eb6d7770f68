\* Two upstreams, two dialers that both use the second, and the health loop.
\* A dial is shorter than the cooldown, as with the defaults (5s against 30s).
SPECIFICATION FairSpec
CONSTANTS
    d1 = d1
    d2 = d2
    NumUpstreams = 2
    Chosen = {2}
    Dialers = {d1, d2}
    Enabled = TRUE
    Threshold = 2
    Cooldown = 2
    DialTimeout = 1
INVARIANTS
    HalfOpenIsOwned
    ClosedBelowThreshold
    SingleTrial
PROPERTIES
    RecoveredCloses
    GaugeRecovers
