\* Two handler threads with every request, a failing file system, crashes anywhere.
SPECIFICATION Spec
CONSTANTS
    t1 = t1
    t2 = t2
    u1 = u1
    u2 = u2
    none = none
    old = old
    new = new
    raw = raw
    torn = torn
    Threads = {t1, t2}
    Main = Main
    Nobody = Nobody
    NoArg = NoArg
    URLs = {u1, u2, none}
    NoUrl = none
    Infos = {old, new, raw, torn}
    Torn = torn
    Unloadable = {raw}
    Operations = {"upload", "download", "list"}
    Faults = TRUE
    CrashWhen = {"quiet", "serving", "loading"}
    MaxUploads = 4
INVARIANTS TypeOK PersistedWhenQuiet UploadsKept
