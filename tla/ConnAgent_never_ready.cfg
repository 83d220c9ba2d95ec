SPECIFICATION FairAgentSpec
CONSTANT MaxConns = 1
PROPERTY LostAnswers
CHECK_DEADLOCK FALSE
