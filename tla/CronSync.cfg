\* Two jobs, two requests at once, a change of each kind, a fault and a crash of the bridge.
CONSTANTS
    v1 = v1
    v2 = v2
    d1 = d1
    f1 = f1
    f2 = f2
    p1 = p1
    p2 = p2
    JobLists = {v1, v2}
    Configs = {d1}
    Unparsable = {v2}
    Missing = Missing
    Nothing = Nothing
    Jobs = {f1, f2}
    Pushes = {p1, p2}
    BodyLimit = 1
    MaxRecords = 1
    MaxChanges = 1
    MaxFaults = 1
    MaxCrashes = 1
SPECIFICATION Spec
CHECK_DEADLOCK FALSE
SYMMETRY SyncSymmetry
INVARIANTS
    TypeOK
    RecordsMirrored
    HashIsOfMirror
