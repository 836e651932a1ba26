\* One machine: two commands, and every kind of fault of network, disk and processes.
CONSTANTS
    m1 = m1
    v1 = v1
    v2 = v2
    Machines = {m1}
    Versions = {v1}
    MaxCommands = 2
    MaxApprovals = 1
    MaxRestarts = 1
    ReceiptCap = 1
    DeadletterAfter = 2
    Limit <- EachOnce
SPECIFICATION Spec
INVARIANTS
    TypeOK
    RunOnceUnlessForgotten
    AttemptsAgree
PROPERTIES
    ImplementsContract
