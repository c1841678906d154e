\* The program from its start to its end, with up to two connections.
SPECIFICATION FairSpec
CONSTANTS
    MaxConnections = 2
    MayBlock = TRUE
CHECK_DEADLOCK FALSE
INVARIANTS HandlerFindsLogger AcceptPosted LogDrained
PROPERTY EndsOnSignal
