\* Two handler threads that upload, download and list; failing writes, restarts.
SPECIFICATION Spec
CONSTANTS
    t1 = t1
    t2 = t2
    name1 = name1
    name2 = name2
    short = short
    long = long
    binary = binary
    Threads = {t1, t2}
    Main = Main
    Nobody = Nobody
    NoArg = NoArg
    Operations = {"upload", "download", "list"}
    Faults = TRUE
    StoreFaults = TRUE
    CrashWhen = {"quiet", "serving", "loading"}
    MaxUploads = 2
    Names = {name1, name2}
    NoUrl = NoUrl
    Raw = Raw
    Torn = Torn
    Contents = {short, long, binary}
    Size <- MCSize
    Text <- MCText
    Garbage = Garbage
    Nothing = Nothing
SYMMETRY MCSymmetry
CHECK_DEADLOCK FALSE
INVARIANTS ServesLast OneContent TableMatchesDisk GhostOnlyAfterRemoval DownloadsApart
