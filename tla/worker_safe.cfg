\* A producer waits for room: spurious wakeups and parked producers.
SPECIFICATION FairSpec
CONSTANTS
    m1 = m1
    m2 = m2
    p1 = p1
    p2 = p2
    Msgs = {m1, m2}
    Size <- OneAndFull
    NoMsg = NoMsg
    Producers = {p1, p2}
    WorkerThread = WorkerThread
    Nobody = Nobody
    Garbage = Garbage
    AsyncType = "ASYNC_SAFE"
    BufferSize = 3
    Threshold = 4
    LinearGrowth = 3
    IntMod = 64
    MaxBytes = 10
INVARIANT NothingLost
PROPERTIES EventuallyWritten StopReturns
