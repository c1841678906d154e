\* One thread downloads, the other uploads.
SPECIFICATION FairSpec
CONSTANTS
    t1 = t1
    t2 = t2
    u1 = u1
    u2 = u2
    none = none
    old = old
    new = new
    raw = raw
    torn = torn
    Threads = {t1, t2}
    Main = Main
    Nobody = Nobody
    NoArg = NoArg
    URLs = {u1, u2, none}
    NoUrl = none
    Infos = {old, torn}
    Torn = torn
    Unloadable = {}
    Operations = {"upload", "download"}
    Faults = FALSE
    CrashWhen = {}
    MaxUploads = 2
CHECK_DEADLOCK FALSE
PROPERTY EveryCallReturns
