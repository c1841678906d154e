\* Two handler threads that upload and list, a failing file system, crashes anywhere.
SPECIFICATION FairSpec
CONSTANTS
    t1 = t1
    t2 = t2
    u1 = u1
    u2 = u2
    none = none
    old = old
    new = new
    raw = raw
    torn = torn
    Threads = {t1, t2}
    Main = Main
    Nobody = Nobody
    NoArg = NoArg
    URLs = {u1, u2, none}
    NoUrl = none
    Infos = {old, raw, torn}
    Torn = torn
    Unloadable = {raw}
    Operations = {"upload", "list"}
    Faults = TRUE
    CrashWhen = {"quiet", "serving", "loading"}
    MaxUploads = 3
PROPERTIES SoloPersisted EveryCallReturns
