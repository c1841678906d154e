\* Two client objects, one alive at a time, each with its mock; a server that
\* may refuse, every kind of file id, with and without the configuration file.
SPECIFICATION SwapSpec
CONSTANTS
    Clients = {c1, c2}
    Faults = TRUE
    MaxAlive = 1
    MaxFiles = 1
    NoReason = NoReason
INVARIANTS LibraryReady 
PROPERTY KeepsPromise
