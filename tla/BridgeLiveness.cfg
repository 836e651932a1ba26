\* The verdict of every command that may run, under fair bridges.
CONSTANTS
    m1 = m1
    v1 = v1
    v2 = v2
    Machines = {m1}
    Versions = {v1, v2}
    MaxCommands = 1
    MaxApprovals = 2
    MaxRestarts = 1
    ReceiptCap = 1
    DeadletterAfter = 3
    Limit <- ServerStaysUp
SPECIFICATION FairSpec
PROPERTIES
    EventuallySettled
