SPECIFICATION FairSpec
CONSTANTS
    Creates = {c1}
    Connects = {k1}
    Hosts = {1, 2}
    Devices = {1, 2, 3}
    FirstHosts = {1}
    FirstDevices <- OneDevice
    Doomed = {2}
    NumInstances = 2
    RetryAttempts = 1
    MaxOps = 2
INVARIANTS TypeOK GroupsOwn Complete Reported
PROPERTY Ends
CHECK_DEADLOCK FALSE
