\* One session: every form and cut of the client's request, configurations of
\* at most two strategies, all answers of an upstream; four bytes read up to
\* three at a time, of which the first three are cut in chunks of two; a first
\* record that fits the buffer for it exactly, is shorter, or does not fit.
SPECIFICATION SessionSpec
CONSTANTS
    ReadSize = 3
    TlsBufferSize = 3
    HeaderSize = 2
    FragmentSize = 2
    InitialFragSize = 3
    RingSize = 2
    MaxBytes = 4
    MaxAnswers = 1
    MaxCaptures = 3
    Policies <- StreamPolicies
    Records <- FirstRecords
    Histories <- Earlier
    ClientStreams <- Clients
    UpstreamStreams <- Upstreams
    Configs <- Files
    LearnedUpstreams <- Known
    Filters <- Lists
    LowerCase <- Cases
    RandomSize = 3
    Hellos <- Sayings
INVARIANTS
    InOrderOnce
    FirstBytesCut
    TimerAfterHello
    DecoyInTime
    DecoyNumbersMatch
    
    HandedOverIntact
    NoConnectionLeaks
    RouteHonoured
    DecoyImitates
PROPERTIES
    EndsTogether
\* Sessions end.
CHECK_DEADLOCK FALSE
