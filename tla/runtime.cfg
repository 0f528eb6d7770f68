\* Two reloaders, two edits of the file, three runtimes, one session and two hosts.
\* The process stops when it has shut down.
SPECIFICATION Spec
CONSTANTS
    r1 = r1
    r2 = r2
    s1 = s1
    h1 = h1
    h2 = h2
    Nobody = Nobody
    Nothing = Nothing
    Broken = Broken
    Reloaders = {r1, r2}
    Sessions = {s1}
    Hosts = {h1, h2}
    Configs <- Choices
    MaxEdits = 2
    MaxRuntimes = 3
CHECK_DEADLOCK FALSE
INVARIANTS
    OneLiveLoop
    FlushedAtExit
PROPERTIES
    InstallsInOrder
