SPECIFICATION FairAgentSpec
CONSTANT MaxConns = 2
INVARIANTS AgentTypeOK Released OneServed
PROPERTIES KeepsContract AgentEnds
CHECK_DEADLOCK FALSE
