SPECIFICATION FairSpec
CONSTANTS
    MaxErrors = 2
    DeviceMsgs = {"offer"}
    MaxLog = 1
    MaxIce = 1
PROPERTY PeerGoneStops
CHECK_DEADLOCK FALSE
