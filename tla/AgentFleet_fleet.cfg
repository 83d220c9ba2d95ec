SPECIFICATION FairSpec
CONSTANTS
    Agents = {a1, a2}
    Commands = {c1}
    CVDs = {d1, d2}
    Ports = {p1, p2}
    Kinds = {"disconnect", "args", "delete"}
    MayKill = TRUE
INVARIANTS TypeOK Reachable DuplicatesRaced
PROPERTIES ToldStops
CHECK_DEADLOCK FALSE
