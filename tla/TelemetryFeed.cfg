\* Two connects of an operator, heartbeats in any order, a break and a restart.
CONSTANTS
    m1 = m1
    m2 = m2
    Machines = {m1}
    MaxTime = 2
    MaxPending = 1
    MaxOps = 2
    MaxBreaks = 1
    MaxRestarts = 1
    MaxFrames = 1
SPECIFICATION FairSpec
CHECK_DEADLOCK FALSE
INVARIANTS
    TypeOK
    ViewsAgree
    StatusIsOwn
PROPERTIES
    OfflineReported
