\* Two setups and a retry between them, one route, two lost sessions or failed commands.
CONSTANTS
    c1 = c1
    Calls = {c1}
    MaxAttempts = 2
    MaxSetups = 2
    MaxClients = 3
    MaxFailures = 2
SPECIFICATION SetupSpec
CHECK_DEADLOCK FALSE
INVARIANTS
    SetupTypeOK
    SessionsOwned
    OneAtATime
    StatusIsTrue
