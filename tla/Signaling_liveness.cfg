SPECIFICATION FairSpec
CONSTANTS
    MaxErrors = 2
    DeviceMsgs = {"offer", "candidate", "bad"}
    MaxLog = 2
    MaxIce = 1
PROPERTY SignalingEnds
CHECK_DEADLOCK FALSE
