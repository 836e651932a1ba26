\* Two tasks at one instant, two slots: three events of changes, a run by hand, a failed write, a restart.
CONSTANTS
    t1 = t1
    t2 = t2
    i1 = i1
    i2 = i2
    Tasks = {t1, t2}
    Known = {t1, t2}
    Instants = {i1}
    Schedules = {i1}
    MaxConcurrentRuns = 2
    BackoffSteps = 2
    MaxSnapshots = 1
    MaxRuns = 2
    MaxByHand = 1
    MaxChanges = 2
    MaxFaults = 1
    MaxStops = 1
SPECIFICATION Spec
SYMMETRY TaskSymmetry
ACTION_CONSTRAINT FewEvents
CHECK_DEADLOCK FALSE
INVARIANTS
    TypeOK
    OneRunUnlessOverridden
    OneShotOnce

    
