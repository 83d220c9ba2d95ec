SPECIFICATION FairSpec
CONSTANTS
    def = def
    other = other
    h1 = h1
    h2 = h2
    Aliases = {def, other}
    Default = def
    Hosts = {h1, h2}
    Home <- MCHome
    Operations <- MCOperations
    Starts <- MCStarts
    MaxClicks = 1
INVARIANTS TypeOK SettledExact WaitsTracked
PROPERTIES RuntimesKept RefreshEnds
CHECK_DEADLOCK FALSE
