\* Both sinks of text.cpp, in processes that exit and die; the sink of the
\* server, with failing fopen and writes, power failures, and a restart that
\* finds the name of an earlier file.  Every flush_log.
SPECIFICATION Spec
CONSTANTS
    Settings <- MCSettings
    MaxSize = 2
    FlushLogs = {0, 1, 2}
    BatchSizes = {0, 1, 2}
    NoFile = NoFile
    MaxBytes = 4
INVARIANTS TypeOK Kept FlushPromise Ordered RollBound
