\* A bridge's target and the local one, two policies, a webhook, an approval, changes, a fault and a restart.
CONSTANTS
    r1 = r1
    l1 = l1
    fast = fast
    slow = slow
    p0 = p0
    p1 = p1
    d1 = d1
    k1 = k1
    None = None
    Targets = {r1, l1}
    Remote = {r1}
    Local = l1
    Options = {slow, fast}
    DefaultOptions = fast
    Policies = {p0, p1}
    Default = p0
    DefaultDemands = {}
    DemandChoices <- OneDemand
    Destinations = {d1}
    SettingChoices <- Hooks
    Tables <- BridgeTable
    Threshold = 0
    Tokens = {k1}
    MaxChanges = 2
    MaxFaults = 1
    MaxRestarts = 1
SPECIFICATION Spec
CHECK_DEADLOCK FALSE
INVARIANTS
    TypeOK
    SyncFollowsStore
    ApprovedBatches
PROPERTIES
    AlertsTold
