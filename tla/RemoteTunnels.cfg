\* Two endpoints, two attach calls and two detach calls, sessions that break, under fairness.
CONSTANTS
    e1 = e1
    e2 = e2
    c1 = c1
    c2 = c2
    None = None
    Endpoints = {e1, e2}
    Calls = {c1, c2}
    MaxDetaches = 2
    MaxFaults = 2
SPECIFICATION FairSpec
CHECK_DEADLOCK FALSE
INVARIANTS
    TypeOK
    AttachmentsBacked
    TunnelsAccounted
    ClosingIsIdle
PROPERTIES
    Settles
