SPECIFICATION FairSpec
CONSTANTS
    Calls = {r1, r2, r3}
    MaxMessages = 3
INVARIANTS TypeOK
PROPERTIES KeepsMailbox Delivered
CHECK_DEADLOCK FALSE
