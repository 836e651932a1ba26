\* Two tasks and one slot, changes, a restart; no runs by hand, no failed writes.
CONSTANTS
    t1 = t1
    t2 = t2
    i1 = i1
    i2 = i2
    Tasks = {t1, t2}
    Known = {t1, t2}
    Instants = {i1}
    Schedules = {"recurring"}
    MaxConcurrentRuns = 1
    BackoffSteps = 2
    MaxSnapshots = 1
    MaxRuns = 2
    MaxByHand = 0
    MaxChanges = 1
    MaxFaults = 0
    MaxStops = 1
SPECIFICATION FairSpec
CHECK_DEADLOCK FALSE

    
PROPERTIES
    FallsAsleepOnly
    RunsAgain
