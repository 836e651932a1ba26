\* Two applies, of a queue or a recipe, three commands, discards, rollbacks, edits, a failure and a crash.
CONSTANTS
    x1 = x1
    x2 = x2
    x3 = x3
    a1 = a1
    a2 = a2
    d1 = d1
    Commands = {x1, x2, x3}
    Edits = {d1}
    Calls = {a1, a2}
    MaxBatch = 2
    MaxChanges = 2
    MaxFaults = 1
    MaxCrashes = 1
SPECIFICATION Spec
CHECK_DEADLOCK FALSE
SYMMETRY CommandSymmetry
INVARIANTS
    TypeOK
    QueuedOnce
PROPERTIES
    AllOrNothing
