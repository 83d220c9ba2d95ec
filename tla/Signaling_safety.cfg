SPECIFICATION Spec
CONSTANTS
    MaxErrors = 2
    DeviceMsgs = {"offer", "candidate", "bad", "noise"}
    MaxLog = 3
    MaxIce = 1
INVARIANTS TypeOK NoChannelPanic OneResult InOrder
CHECK_DEADLOCK FALSE
