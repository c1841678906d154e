------------------------- MODULE FileServiceProofs -------------------------
(***************************************************************************)
(* Of the file service, for any threads, names and contents, any number of  *)
(* uploads, and a file system and a process that fail at any moment: two    *)
(* downloads never overlap; a record without an url gets into the table     *)
(* only after a download has removed a stored file, or from a torn file; a  *)
(* download never mixes two uploads; the service uses the store as the      *)
(* store is specified; and while the file of the table is known to hold the *)
(* record of an upload, the table has it and says of the file what is on    *)
(* disk, and a download that overlaps no upload of its name serves it.      *)
(***************************************************************************)
EXTENDS FileService, TLAPS

(* Only a job between NewStorageInfo and its answer is inside Insert, only  *)
(* a process that serves has jobs, and a download holds the lock of the     *)
(* table from its GetOneByURL to its end.                                   *)
Shape ==
    /\ DOMAIN job = Threads /\ DOMAIN pc = Store!Procs
    /\ \A t \in Threads : {"stage", "name", "type", "info"} \subseteq DOMAIN job[t]

ApartInv ==
    /\ Shape
    /\ \A t \in Threads : pc[t] # "idle" => job[t].stage = "insert"
    /\ pc[Main] # "idle" => proc = "loading"
    /\ proc # "up" => \A t \in Threads : Idle(t)
    /\ \A t \in Threads : Downloading(t) => writer = t

(* The same for the steps of one job that leave the table alone: another    *)
(* stage of the same kind, or the end of the job.                           *)
JobMoves(t) ==
    /\ UNCHANGED storeVars
    /\ DOMAIN job' = Threads
    /\ \A s \in Threads : {"stage", "name", "type", "info"} \subseteq DOMAIN job'[s]
    /\ \A s \in Threads \ {t} : job'[s].stage = job[s].stage
    /\ pc[t] = "idle" \/ job'[t].stage = "insert"
    /\ \/ Idle(t)'
       \/ proc = "up" /\ Uploading(t)'
       \/ Downloading(t)

-----------------------------------------------------------------------------
LEMMA ApartInit == Init => ApartInv
<1> SUFFICES ASSUME Init PROVE ApartInv
  OBVIOUS
<1>1. /\ DOMAIN job = Threads
      /\ \A t \in Threads : job[t] = NoJob
  BY DEF Init
<1>2. {"stage", "name", "type", "info"} \subseteq DOMAIN NoJob /\ NoJob.stage = "idle"
  BY DEF NoJob
<1>3. DOMAIN pc = Store!Procs /\ \A t \in Store!Procs : pc[t] = "idle"
  BY DEF Init, Store!Init
<1>4. QED
  BY <1>1, <1>2, <1>3
  DEF ApartInv, Shape, Idle, Downloading, Uploading, Store!Procs

LEMMA JobMovesApart ==
    ASSUME ApartInv, NEW t \in Threads, JobMoves(t)
    PROVE  ApartInv'
<1>1. UNCHANGED <<proc, writer, pc>>
  BY DEF JobMoves, storeVars
<1>2. Shape'
  BY <1>1 DEF JobMoves, ApartInv, Shape
<1>3. \A s \in Threads \ {t} : job'[s].stage = job[s].stage
  BY DEF JobMoves
<1>4. QED
  BY <1>1, <1>2, <1>3
  DEF JobMoves, ApartInv, Idle, Uploading, Downloading

(* The steps of an upload. *)
LEMMA UploadApart ==
    ASSUME ApartInv, NEW t \in Threads, Upload(t)
    PROVE  ApartInv'
<1> USE DEF ApartInv, Shape
<1>0. "stage" \in DOMAIN job[t] /\ t \in DOMAIN job
  OBVIOUS
<1>1. CASE Refuse(t) \/ CreateFails(t) \/ Uploaded(t)
  <2>1. JobMoves(t)
    BY <1>1 DEF Refuse, CreateFails, Uploaded, Ends, NoJob, JobMoves, Idle, Store!Idle
  <2>2. QED BY <2>1, JobMovesApart
<1>2. ASSUME NEW n \in Names, NEW type \in Types, NEW c \in Contents,
             StartUpload(t, n, type, c)
      PROVE  ApartInv'
  <2>1. JobMoves(t)
    BY <1>2 DEF StartUpload, NoJob, JobMoves, Idle, Uploading, Store!Idle
  <2>2. QED BY <2>1, JobMovesApart
<1>3. CASE Create(t) \/ Write(t) \/ WriteFails(t)
  <2>1. proc = "up" /\ pc[t] = "idle"
    BY <1>3 DEF Create, OpenFor, Write, WriteFails, Idle
  <2>2. JobMoves(t)
    BY <1>0, <1>3, <2>1
    DEF Create, OpenFor, Write, WriteFails, Goes, Ends, NoJob, JobMoves, Idle,
        Uploading
  <2>3. QED BY <2>2, JobMovesApart
<1>4. CASE NewStorageInfo(t)
  <2>1. /\ proc' = proc /\ writer' = writer
        /\ pc' = [pc EXCEPT ![t] = "insert"]
        /\ proc = "up"
    BY <1>4 DEF NewStorageInfo, LookAt, Store!Upload, Store!StartInsert
  <2>2. job' = [job EXCEPT ![t].stage = "insert"]
    BY <1>4 DEF NewStorageInfo, LookAt, Goes
  <2>3. Shape'
    BY <2>1, <2>2
  <2>4. job'[t].stage = "insert"
    BY <1>0, <2>2
  <2>5. \A s \in Threads \ {t} : job'[s] = job[s] /\ pc'[s] = pc[s]
    BY <2>1, <2>2 DEF Store!Procs
  <2>6. pc'[Main] = pc[Main]
    BY <2>1, FileAssumption DEF Store!Procs
  <2>7. QED
    BY <2>1, <2>3, <2>4, <2>5, <2>6 DEF Idle, Uploading, Downloading
<1>5. QED
  BY <1>1, <1>2, <1>3, <1>4 DEF Upload

(* A download or a list gets the lock only when no other download has it.   *)
LEMMA LockApart ==
    ASSUME ApartInv, NEW t \in Threads, Idle(t), Store!WrLock(t)
    PROVE  \A s \in Threads : ~Downloading(s)
BY FileAssumption DEF ApartInv, Store!WrLock, Downloading

LEMMA LookupApart ==
    ASSUME ApartInv, NEW t \in Threads, NEW n \in Names, Lookup(t, n)
    PROVE  ApartInv'
<1>1. /\ Idle(t) /\ Store!WrLock(t)
      /\ writer' = t /\ proc = "up" /\ pc[t] = "idle"
      /\ UNCHANGED <<proc, pc>>
  BY DEF Lookup, Find, Store!GetOneByURL, Store!Idle
<1>2. \A s \in Threads : ~Downloading(s)
  BY <1>1, LockApart
<1>3. /\ DOMAIN job' = Threads
      /\ \A s \in Threads : {"stage", "name", "type", "info"} \subseteq DOMAIN job'[s]
      /\ \A s \in Threads \ {t} : job'[s].stage = job[s].stage
      /\ job'[t].stage \in {"idle", "exists"}
  <2> DEFINE found == [NoJob EXCEPT !.stage = "exists", !.name = n, !.info = table[n],
                         !.clean = {s \in Threads : Uploading(s) /\ job[s].name = n} = {}]
  <2>1. CASE n \in DOMAIN table
    <3>1. /\ {"stage", "name", "type", "info"} \subseteq DOMAIN found
          /\ found.stage = "exists"
      BY DEF NoJob
    <3>2. /\ DOMAIN job' = Threads
          /\ job'[t] = found
          /\ \A s \in Threads \ {t} :
                job'[s] \in {job[s], [job[s] EXCEPT !.clean = FALSE]}
      BY <2>1 DEF Lookup, Find
    <3> HIDE DEF found
    <3>3. \A s \in Threads \ {t} :
             /\ DOMAIN job'[s] = DOMAIN job[s]
             /\ job'[s].stage = job[s].stage
      BY <3>2 DEF ApartInv, Shape
    <3>4. QED BY <3>1, <3>2, <3>3 DEF ApartInv, Shape
  <2>2. CASE n \notin DOMAIN table
    <3>1. job' = [job EXCEPT ![t] = NoJob]
      BY <2>2 DEF Lookup, Find, Ends
    <3>2. QED BY <3>1 DEF NoJob, ApartInv, Shape
  <2>3. QED BY <2>1, <2>2
<1>4. QED
  BY <1>1, <1>2, <1>3 DEF ApartInv, Shape, Idle, Uploading, Downloading

(* The steps of a download. *)
LEMMA DownloadApart ==
    ASSUME ApartInv, NEW t \in Threads, Download(t)
    PROVE  ApartInv'
<1>1. CASE \E n \in Names : Lookup(t, n)
  BY <1>1, LookupApart
<1>2. CASE ~\E n \in Names : Lookup(t, n)
  <2>0. "stage" \in DOMAIN job[t] /\ t \in DOMAIN job
    BY DEF ApartInv, Shape
  <2>1. Downloading(t) /\ pc[t] = "idle"
    BY <1>2
    DEF Download, Exists, Open, CheckSize, Allocate, Read, Send, ReadFails, Remove,
        Idle, Uploading, Downloading, ApartInv
  <2>2. UNCHANGED storeVars
    BY <1>2
    DEF Download, Exists, Open, CheckSize, Allocate, Read, Send, ReadFails, Remove
  <2>3. \/ job' = [job EXCEPT ![t] = NoJob]
        \/ \E g \in {"open", "buffer", "remove"} : job' = [job EXCEPT ![t].stage = g]
        \/ \E i : job' = [job EXCEPT ![t].stage = "size", ![t].inode = i]
        \/ \E i : job' = [job EXCEPT ![t].stage = "read", ![t].size = i]
    BY <1>2
    DEF Download, Exists, Open, CheckSize, Allocate, Read, Send, ReadFails, Remove,
        Goes, Ends, Absent
  <2>4. JobMoves(t)
    BY <2>0, <2>1, <2>2, <2>3 DEF JobMoves, NoJob, ApartInv, Shape
  <2>5. QED BY <2>4, JobMovesApart
<1>3. QED BY <1>1, <1>2

(* The steps of Insert, of a handler or of InitLoad.                        *)
LEMMA InsertApart ==
    ASSUME ApartInv, NEW t \in Threads \cup {Main}, Insert(t)
    PROVE  ApartInv'
<1>1. UNCHANGED job
  BY DEF Insert
<1>2. pc[t] # "idle" /\ proc' = proc
  BY DEF Insert, Store!Insert, Store!InsertRecord, Store!StorageGetAll, Store!OpenFile,
         Store!OpenFails, Store!WriteFile, Store!WriteFails, Store!Return
<1>3. \E g : pc' = [pc EXCEPT ![t] = g]
  BY DEF Insert, Store!Insert, Store!InsertRecord, Store!StorageGetAll, Store!OpenFile,
         Store!OpenFails, Store!WriteFile, Store!WriteFails, Store!Return
<1>4. \/ writer' = writer
      \/ writer' = Nobody /\ Store!WrLock(t)
  BY DEF Insert, Store!Insert, Store!InsertRecord, Store!StorageGetAll, Store!OpenFile,
         Store!OpenFails, Store!WriteFile, Store!WriteFails, Store!Return
<1>5. \A s \in Threads : Downloading(s) => ~Store!WrLock(t)
  <2>1. SUFFICES ASSUME NEW s \in Threads, Downloading(s), Store!WrLock(t)
                 PROVE  FALSE
    OBVIOUS
  <2>2. writer = s
    BY <2>1 DEF ApartInv
  <2>3. s = t
    BY <2>1, <2>2, FileAssumption DEF Store!WrLock
  <2>4. QED
    BY <1>2, <2>1, <2>3 DEF ApartInv, Downloading, Uploading
<1>6. QED
  BY <1>1, <1>2, <1>3, <1>4, <1>5
  DEF ApartInv, Shape, Idle, Uploading, Downloading, Store!Procs

LEMMA StartApart ==
    ASSUME ApartInv, Start
    PROVE  ApartInv'
<1>1. UNCHANGED job /\ proc # "up" /\ Main \in Store!Procs /\ Threads \subseteq Store!Procs
  BY DEF Start, Store!Load, Store!LoadThrows, Store!LoadDone, Store!Restart, Store!Procs
<1>2. \A t \in Threads : Idle(t) /\ pc[t] = "idle"
  BY <1>1 DEF ApartInv, Idle
<1>3. /\ DOMAIN pc' = Store!Procs
      /\ \A t \in Threads : pc'[t] = "idle"
      /\ pc'[Main] # "idle" => proc' = "loading"
  <2>1. ASSUME NEW u, Store!Load(u) PROVE <1>3!:
    BY <1>1, <1>2, <2>1, FileAssumption DEF Store!Load, Store!StartInsert, ApartInv, Shape
  <2>2. ASSUME NEW u, Store!LoadThrows(u) PROVE <1>3!:
    BY <1>1, <2>2 DEF Store!LoadThrows, Store!Die
  <2>3. CASE Store!LoadDone
    BY <1>1, <1>2, <2>3 DEF Store!LoadDone, Store!tvars, Store!Idle, ApartInv, Shape
  <2>4. CASE Store!Restart
    BY <1>1, <1>2, <2>4 DEF Store!Restart, Store!tvars, ApartInv, Shape
  <2>5. QED BY <2>1, <2>2, <2>3, <2>4 DEF Start
<1>4. QED
  BY <1>1, <1>2, <1>3 DEF ApartInv, Shape, Idle, Uploading, Downloading

LEMMA CrashApart == ASSUME ApartInv, Crash PROVE ApartInv'
<1>1. /\ DOMAIN pc' = Store!Procs
      /\ \A t \in Store!Procs : pc'[t] = "idle"
  BY DEF Crash, Store!Crash, Store!Die
<1>2. job' = [t \in Threads |-> NoJob]
  BY DEF Crash
<1>3. {"stage", "name", "type", "info"} \subseteq DOMAIN NoJob /\ NoJob.stage = "idle"
  BY DEF NoJob
<1>4. QED
  BY <1>1, <1>2, <1>3
  DEF ApartInv, Shape, Idle, Uploading, Downloading, Store!Procs

LEMMA ApartStep == ApartInv /\ [Next]_vars => ApartInv'
<1> SUFFICES ASSUME ApartInv, [Next]_vars PROVE ApartInv'
  OBVIOUS
<1>1. CASE \E t \in Threads : Upload(t) \/ Download(t)
  BY <1>1, UploadApart, DownloadApart
<1>2. ASSUME NEW t \in Threads, ListShow(t) PROVE ApartInv'
  <2>1. Idle(t) /\ Store!WrLock(t) /\ UNCHANGED <<proc, pc>>
    BY <1>2 DEF ListShow, Store!GetAll
  <2>2. \A s \in Threads : ~Downloading(s)
    BY <2>1, LockApart
  <2>3. job' = [job EXCEPT ![t] = NoJob] /\ pc[t] = "idle"
    BY <1>2 DEF ListShow, Ends, Store!GetAll, Store!Idle
  <2>4. QED
    BY <2>1, <2>2, <2>3
    DEF ApartInv, Shape, NoJob, Idle, Uploading, Downloading, Store!Procs
<1>3. CASE \E t \in Threads \cup {Main} : Insert(t)
  BY <1>3, InsertApart
<1>4. CASE Start
  BY <1>4, StartApart
<1>5. CASE Crash
  BY <1>5, CrashApart
<1>6. CASE UNCHANGED vars
  BY <1>6 DEF vars, storeVars, ApartInv, Shape, Idle, Uploading, Downloading
<1>7. QED
  BY <1>1, <1>2, <1>3, <1>4, <1>5, <1>6 DEF Next

THEOREM ApartInvariant == Spec => []ApartInv
BY ApartInit, ApartStep, PTL DEF Spec

(* Service.cpp:370 with DataManager.h:157: a download that has found its    *)
(* file has the process to itself until it ends, as far as other downloads  *)
(* go: no other opens or removes the path they share.                       *)
THEOREM DownloadsNeverMeet == Spec => []DownloadsApart
<1>1. ApartInv => DownloadsApart
  BY DEF ApartInv, DownloadsApart
<1>2. QED BY <1>1, ApartInvariant, PTL

-----------------------------------------------------------------------------
(* A record without an url is one that a failed write has torn, in the      *)
(* table, its file, a copy or an Insert.                                    *)
TornOnly(T) == NoUrl \in DOMAIN T => StoreFaults /\ T[NoUrl] = Torn

NoGhost ==
    /\ TornOnly(table) /\ TornOnly(file) /\ TornOnly(toLoad)
    /\ \A t \in Store!Procs :
          /\ TornOnly(snap[t])
          /\ pc[t] # "idle" /\ arg[t].url = NoUrl => StoreFaults /\ arg[t].info = Torn

(* Between its creation of a file and NewStorageInfo an upload finds it.    *)
FileThere ==
    \A t \in Threads : job[t].stage \in {"write", "stat"} => disk[Target(t)] # 0

GhostTypes ==
    /\ DOMAIN arg = Store!Procs /\ DOMAIN snap = Store!Procs /\ DOMAIN disk = Paths
    /\ removed \in BOOLEAN
    /\ \E n \in Nat : DOMAIN data = 1 .. n
    /\ \A t \in Threads : Uploading(t) => job[t].name \in Names /\ job[t].type \in Types

GhostInv == ApartInv /\ GhostTypes /\ (removed \/ (NoGhost /\ FileThere))

(* What the steps of the table keep; what the steps of the files do.        *)
StoreKeeps == /\ DOMAIN arg' = Store!Procs /\ DOMAIN snap' = Store!Procs
              /\ NoGhost => NoGhost'

FilesKeep ==
    /\ UNCHANGED removed
    /\ DOMAIN disk' = Paths /\ \A p \in Paths : disk[p] # 0 => disk'[p] # 0
    /\ \E n \in Nat : DOMAIN data' = 1 .. n

-----------------------------------------------------------------------------
LEMMA TornNoRecords == TornOnly(Store!NoRecords)
BY DEF TornOnly, Store!NoRecords

LEMMA TornPut ==
    ASSUME NEW T, TornOnly(T), NEW u, NEW i, u = NoUrl => StoreFaults /\ i = Torn
    PROVE  TornOnly(Store!Put(T, u, i))
BY DEF TornOnly, Store!Put

LEMMA TornSubset ==
    ASSUME NEW T, TornOnly(T), NEW D \in SUBSET DOMAIN T
    PROVE  TornOnly(Store!Only(T, D))
BY DEF TornOnly, Store!Only

LEMMA GhostInit == Init => GhostInv
<1> SUFFICES ASSUME Init PROVE GhostInv
  OBVIOUS
<1>1. ApartInv
  BY ApartInit
<1>2. DOMAIN data = 1 .. 0 /\ 0 \in Nat
  BY DEF Init
<1>3. NoGhost
  BY TornNoRecords DEF Init, Store!Init, NoGhost
<1>4. \A t \in Threads : job[t].stage = "idle"
  BY DEF Init, NoJob
<1>5. DOMAIN arg = Store!Procs /\ DOMAIN snap = Store!Procs /\ DOMAIN disk = Paths
      /\ removed = FALSE
  BY DEF Init, Store!Init
<1>6. QED
  BY <1>1, <1>2, <1>3, <1>4, <1>5 DEF GhostInv, GhostTypes, FileThere, Uploading

(* A step that leaves the process, the table and its Inserts alone.         *)
LEMMA StoreSame == ASSUME GhostInv, UNCHANGED storeVars PROVE StoreKeeps
BY DEF GhostInv, GhostTypes, StoreKeeps, NoGhost, storeVars

(* So it is with every step of Insert.                                      *)
LEMMA InsertKeeps ==
    ASSUME GhostInv, NEW t \in Store!Procs, Store!Insert(t)
    PROVE  StoreKeeps
<1> USE DEF GhostInv, GhostTypes, StoreKeeps, NoGhost
<1>1. CASE Store!InsertRecord(t)
  <2>1. TornOnly(table) /\ NoGhost => TornOnly(table')
    BY <1>1, TornPut DEF Store!InsertRecord
  <2>2. QED BY <1>1, <2>1 DEF Store!InsertRecord, ApartInv, Shape
<1>2. CASE Store!StorageGetAll(t)
  BY <1>2 DEF Store!StorageGetAll, ApartInv, Shape
<1>3. CASE Store!OpenFile(t)
  BY <1>3, TornNoRecords DEF Store!OpenFile, ApartInv, Shape
<1>4. CASE Store!OpenFails(t)
  BY <1>4, TornNoRecords DEF Store!OpenFails, Store!Return, ApartInv, Shape
<1>5. CASE Store!WriteFile(t)
  BY <1>5, TornNoRecords DEF Store!WriteFile, Store!Return, ApartInv, Shape
<1>6. CASE Store!WriteFails(t)
  <2>1. PICK D \in SUBSET DOMAIN snap[t] :
           \/ file' = Store!Only(snap[t], D)
           \/ file' = Store!Put(Store!Only(snap[t], D), NoUrl, Torn)
    BY <1>6 DEF Store!WriteFails
  <2>2. StoreFaults
    BY <1>6 DEF Store!WriteFails
  <2>3. TornOnly(snap[t]) => TornOnly(file')
    BY <2>1, <2>2, TornSubset, TornPut
  <2>4. QED
    BY <1>6, <2>3, TornNoRecords DEF Store!WriteFails, Store!Return, ApartInv, Shape
<1>7. QED
  BY <1>1, <1>2, <1>3, <1>4, <1>5, <1>6 DEF Store!Insert

(* So do the steps of the process: what InitLoad reads was in the file.     *)
LEMMA DieKeeps == ASSUME GhostInv, Store!Die PROVE StoreKeeps
BY TornNoRecords DEF GhostInv, GhostTypes, StoreKeeps, NoGhost, Store!Die

LEMMA StartKeeps == ASSUME GhostInv, Start PROVE StoreKeeps
<1> USE DEF GhostInv, GhostTypes, StoreKeeps, NoGhost
<1>1. ASSUME NEW u, Store!Load(u) PROVE StoreKeeps
  <2>1. NoGhost => TornOnly(toLoad')
    BY <1>1, TornSubset DEF Store!Load
  <2>2. NoGhost /\ u = NoUrl => StoreFaults /\ toLoad[u] = Torn
    BY <1>1 DEF Store!Load, TornOnly
  <2>3. /\ arg' = [arg EXCEPT ![Main] = [url |-> u, info |-> toLoad[u]]]
        /\ pc' = [pc EXCEPT ![Main] = "insert"]
        /\ UNCHANGED <<table, file, snap>>
    BY <1>1 DEF Store!Load, Store!StartInsert
  <2>4. QED
    BY <2>1, <2>2, <2>3 DEF ApartInv, Shape
<1>2. ASSUME NEW u, Store!LoadThrows(u) PROVE StoreKeeps
  BY <1>2, DieKeeps DEF Store!LoadThrows
<1>3. CASE Store!LoadDone
  BY <1>3 DEF Store!LoadDone, Store!tvars
<1>4. CASE Store!Restart
  BY <1>4, TornNoRecords DEF Store!Restart, Store!tvars
<1>5. QED BY <1>1, <1>2, <1>3, <1>4 DEF Start

(* An inode written keeps its place, and a new one comes after the others.  *)
LEMMA DataGrows ==
    ASSUME NEW n \in Nat, DOMAIN data = 1 .. n, NEW d,
           data' = Append(data, d) /\ Len(data) = n
    PROVE  DOMAIN data' = 1 .. (n + 1)
OBVIOUS

LEMMA DataLength ==
    ASSUME NEW n \in Nat, DOMAIN data = 1 .. n
    PROVE  Len(data) = n
OBVIOUS

(* The steps of an upload on its file. *)
LEMMA CreateKeepsFiles ==
    ASSUME GhostInv, NEW t \in Threads, Create(t)
    PROVE  FilesKeep /\ disk'[Target(t)] # 0
<1>1. PICK n \in Nat : DOMAIN data = 1 .. n
  BY DEF GhostInv, GhostTypes
<1>2. Len(data) = n
  BY <1>1, DataLength
<1>3. Target(t) \in Paths
  BY DEF Create, OpenFor, Target, Paths, Uploading, GhostInv, GhostTypes
<1> DEFINE i == IF disk[Target(t)] = 0 THEN Len(data) + 1 ELSE disk[Target(t)]
<1>4. i # 0
  BY <1>2
<1>5. disk' = [disk EXCEPT ![Target(t)] = i] /\ UNCHANGED removed
  BY DEF Create, OpenFor
<1>6. data' = Append(data, <<>>) \/ \E d : data' = [data EXCEPT ![i] = d]
  BY DEF Create, OpenFor
<1>7. DOMAIN data' = 1 .. (n + 1) \/ DOMAIN data' = 1 .. n
  BY <1>1, <1>2, <1>6, DataGrows
<1> HIDE DEF i
<1>8. QED
  BY <1>1, <1>3, <1>4, <1>5, <1>7 DEF FilesKeep, GhostInv, GhostTypes

LEMMA WriteKeepsFiles ==
    ASSUME GhostInv, NEW t \in Threads, Write(t) \/ WriteFails(t)
    PROVE  FilesKeep
<1>1. UNCHANGED <<disk, removed>> /\ \E d : data' = [data EXCEPT ![job[t].inode] = d]
  BY DEF Write, WriteFails
<1>2. QED BY <1>1 DEF FilesKeep, GhostInv, GhostTypes

(* Where a step of thread t leaves the jobs of an upload.                   *)
JobsKeep(t) ==
    /\ \A s \in Threads \ {t} :
          /\ job'[s].stage = job[s].stage
          /\ job'[s].name = job[s].name /\ job'[s].type = job[s].type
    /\ Uploading(t)' => job'[t].name \in Names /\ job'[t].type \in Types
    /\ job'[t].stage \in {"write", "stat"} => disk'[Target(t)'] # 0

(* With the table, the files and the jobs as they should be, the invariant  *)
(* goes on.                                                                 *)
LEMMA GhostGoesOn ==
    ASSUME GhostInv, ApartInv', StoreKeeps, FilesKeep, NEW t \in Threads, JobsKeep(t)
    PROVE  GhostInv'
<1>1. GhostTypes'
  BY DEF GhostInv, GhostTypes, StoreKeeps, FilesKeep, JobsKeep, Uploading
<1>2. ASSUME FileThere PROVE FileThere'
  <2>1. SUFFICES ASSUME NEW s \in Threads \ {t}, job'[s].stage \in {"write", "stat"}
                 PROVE  disk'[Target(s)'] # 0
    BY DEF FileThere, JobsKeep
  <2>2. Target(s)' = Target(s) /\ job[s].stage \in {"write", "stat"}
    BY <2>1 DEF JobsKeep, Target, Uploading
  <2>3. disk[Target(s)] # 0 /\ Target(s) \in Paths
    BY <1>2, <2>2 DEF FileThere, Target, Paths, Uploading, GhostInv, GhostTypes
  <2>4. QED BY <2>2, <2>3 DEF FilesKeep
<1>3. QED
  BY <1>1, <1>2 DEF GhostInv, StoreKeeps, FilesKeep

LEMMA FilesSame ==
    ASSUME GhostInv, UNCHANGED fileVars
    PROVE  FilesKeep
BY DEF FilesKeep, fileVars, GhostInv, GhostTypes

LEMMA UploadGhost ==
    ASSUME GhostInv, NEW t \in Threads, Upload(t)
    PROVE  GhostInv'
<1>0. ApartInv' /\ Shape /\ {"stage", "name", "type"} \subseteq DOMAIN job[t]
  BY UploadApart DEF GhostInv, ApartInv, Shape
<1>1. CASE Refuse(t) \/ CreateFails(t) \/ Uploaded(t)
  <2>1. UNCHANGED <<storeVars, fileVars>> /\ job' = [job EXCEPT ![t] = NoJob]
    BY <1>1 DEF Refuse, CreateFails, Uploaded, Ends
  <2>2. JobsKeep(t)
    BY <1>0, <2>1 DEF JobsKeep, NoJob, Uploading, Shape
  <2>3. QED BY <1>0, <2>1, <2>2, StoreSame, FilesSame, GhostGoesOn
<1>2. ASSUME NEW n \in Names, NEW type \in Types, NEW c \in Contents,
             StartUpload(t, n, type, c)
      PROVE  GhostInv'
  <2>1. UNCHANGED <<storeVars, fileVars>>
    BY <1>2 DEF StartUpload
  <2>2. /\ job'[t].stage = "create" /\ job'[t].name = n /\ job'[t].type = type
        /\ \A s \in Threads \ {t} :
              job'[s] \in {job[s], [job[s] EXCEPT !.clean = FALSE]}
    BY <1>2 DEF StartUpload, NoJob
  <2>3. JobsKeep(t)
    BY <1>0, <2>2 DEF JobsKeep, Uploading, Shape
  <2>4. QED BY <1>0, <2>1, <2>3, StoreSame, FilesSame, GhostGoesOn
<1>3. CASE Create(t)
  <2>1. FilesKeep /\ disk'[Target(t)] # 0
    BY <1>3, CreateKeepsFiles
  <2>2. /\ UNCHANGED storeVars
        /\ job[t].stage = "create"
        /\ \E i : job' = [job EXCEPT ![t].stage = "write", ![t].inode = i]
    BY <1>3 DEF Create, OpenFor
  <2>3. /\ job'[t].stage = "write" /\ job'[t].name = job[t].name
        /\ job'[t].type = job[t].type
        /\ \A s \in Threads \ {t} : job'[s] = job[s]
    BY <1>0, <2>2 DEF Shape
  <2>4. Target(t)' = Target(t) /\ Uploading(t)
    BY <2>2, <2>3 DEF Target, Uploading
  <2>5. JobsKeep(t)
    BY <2>1, <2>3, <2>4 DEF JobsKeep, GhostInv, GhostTypes
  <2>6. QED BY <1>0, <2>1, <2>2, <2>5, StoreSame, GhostGoesOn
<1>4. CASE Write(t) \/ WriteFails(t)
  <2>1. FilesKeep /\ UNCHANGED <<storeVars, disk, removed>>
    BY <1>4, WriteKeepsFiles DEF Write, WriteFails
  <2>2. job[t].stage = "write" /\ Uploading(t)
    BY <1>4 DEF Write, WriteFails, Uploading
  <2>3. CASE job' = [job EXCEPT ![t] = NoJob]
    <3>1. JobsKeep(t)
      BY <1>0, <2>3 DEF JobsKeep, NoJob, Uploading, Shape
    <3>2. QED BY <1>0, <2>1, <3>1, StoreSame, GhostGoesOn
  <2>4. CASE /\ job'[t].stage = "stat" /\ job'[t].name = job[t].name
             /\ job'[t].type = job[t].type
             /\ \A s \in Threads \ {t} : job'[s] = job[s]
    <3>1. Target(t)' = Target(t)
      BY <2>2, <2>4 DEF Target, Uploading
    <3>2. CASE removed
      <4>1. GhostTypes'
        BY <2>1, <2>2, <2>4, StoreSame
        DEF GhostInv, GhostTypes, FilesKeep, StoreKeeps, Uploading
      <4>2. QED BY <1>0, <2>1, <3>2, <4>1 DEF GhostInv
    <3>3. CASE ~removed
      <4>1. disk[Target(t)] # 0
        BY <2>2, <3>3 DEF GhostInv, FileThere
      <4>2. JobsKeep(t)
        BY <2>1, <2>2, <2>4, <3>1, <4>1 DEF JobsKeep, GhostInv, GhostTypes
      <4>3. QED BY <1>0, <2>1, <4>2, StoreSame, GhostGoesOn
    <3>4. QED BY <3>2, <3>3
  <2>5. \/ job' = [job EXCEPT ![t] = NoJob]
        \/ job' = [job EXCEPT ![t].stage = "stat"]
        \/ job' = [job EXCEPT ![t].stage = "stat", ![t].clean = FALSE]
    BY <1>4 DEF Write, WriteFails, Goes, Ends
  <2>6. QED BY <1>0, <2>3, <2>4, <2>5 DEF Shape
<1>5. CASE NewStorageInfo(t)
  <2>1. /\ UNCHANGED fileVars
        /\ job' = [job EXCEPT ![t].stage = "insert"]
        /\ job[t].stage = "stat"
    BY <1>5 DEF NewStorageInfo, LookAt, Goes
  <2>2. JobsKeep(t)
    BY <1>0, <2>1 DEF JobsKeep, Uploading, Shape, GhostInv, GhostTypes
  <2>3. \E u, i : Store!Upload(t, u, i) /\ (disk[Target(t)] # 0 => u = job[t].name)
    BY <1>5 DEF NewStorageInfo, LookAt
  <2>4. CASE removed
    <3>1. DOMAIN arg' = Store!Procs /\ DOMAIN snap' = Store!Procs
      BY <2>3 DEF Store!Upload, Store!StartInsert, GhostInv, GhostTypes
    <3>2. GhostTypes'
      BY <2>1, <2>2, <3>1, FilesSame
      DEF GhostInv, GhostTypes, FilesKeep, JobsKeep, Uploading
    <3>3. QED BY <1>0, <2>1, <2>4, <3>2 DEF GhostInv, fileVars
  <2>5. CASE ~removed
    <3>1. job[t].name # NoUrl
      BY <2>1, FileAssumption DEF GhostInv, GhostTypes, Uploading
    <3>2. disk[Target(t)] # 0
      BY <2>1, <2>5 DEF GhostInv, FileThere
    <3>3. StoreKeeps
      BY <2>3, <3>1, <3>2
      DEF Store!Upload, Store!StartInsert, StoreKeeps, NoGhost, GhostInv, GhostTypes,
          ApartInv, Shape
    <3>4. QED BY <1>0, <2>1, <2>2, <3>3, FilesSame, GhostGoesOn
  <2>6. QED BY <2>4, <2>5
<1>6. QED
  BY <1>1, <1>2, <1>3, <1>4, <1>5 DEF Upload

(* The steps of a download: the removal is the one that makes ghosts        *)
(* possible.                                                                *)
LEMMA LookupStep ==
    ASSUME GhostInv, NEW t \in Threads, NEW n \in Names, Lookup(t, n)
    PROVE  GhostInv'
<1>0. ApartInv' /\ Shape
  BY LookupApart DEF GhostInv, ApartInv
<1>1. /\ UNCHANGED <<fileVars, table, file, toLoad, snap, arg, pc>>
      /\ Idle(t)
  BY DEF Lookup, Find, Store!GetOneByURL
<1>2. StoreKeeps
  BY <1>1 DEF StoreKeeps, NoGhost, GhostInv, GhostTypes
<1>3. JobsKeep(t)
  <2>1. CASE n \in DOMAIN table
    <3>1. /\ job'[t].stage = "exists"
          /\ \A s \in Threads \ {t} :
                job'[s] \in {job[s], [job[s] EXCEPT !.clean = FALSE]}
      BY <2>1 DEF Lookup, Find, NoJob
    <3>2. QED BY <1>0, <3>1 DEF JobsKeep, Uploading, Shape
  <2>2. CASE n \notin DOMAIN table
    <3>1. job' = [job EXCEPT ![t] = NoJob]
      BY <2>2 DEF Lookup, Find, Ends
    <3>2. QED BY <1>0, <3>1 DEF JobsKeep, NoJob, Uploading, Shape
  <2>3. QED BY <2>1, <2>2
<1>4. QED BY <1>0, <1>1, <1>2, <1>3, FilesSame, GhostGoesOn

LEMMA DownloadGhost ==
    ASSUME GhostInv, NEW t \in Threads, Download(t)
    PROVE  GhostInv'
<1>0. ApartInv' /\ Shape
  BY DownloadApart DEF GhostInv, ApartInv
<1>1. CASE \E n \in Names : Lookup(t, n)
  BY <1>1, LookupStep
<1>2. CASE Remove(t)
  <2>1. /\ UNCHANGED <<storeVars, data>> /\ job' = [job EXCEPT ![t] = NoJob]
        /\ disk' = [disk EXCEPT ![Target(t)] = 0]
        /\ removed' = (removed \/ disk[Target(t)] # 0)
    BY <1>2 DEF Remove
  <2>2. JobsKeep(t)
    BY <1>0, <2>1 DEF JobsKeep, NoJob, Uploading, Shape
  <2>3. removed' \in BOOLEAN /\ DOMAIN disk' = Paths
    BY <2>1 DEF GhostInv, GhostTypes
  <2>4. CASE removed'
    <3>1. GhostTypes'
      BY <2>1, <2>2, <2>3, StoreSame DEF GhostInv, GhostTypes, StoreKeeps, JobsKeep, Uploading
    <3>2. QED BY <1>0, <2>4, <3>1 DEF GhostInv
  <2>5. CASE ~removed'
    <3>1. UNCHANGED removed /\ \A p \in Paths : disk[p] # 0 => disk'[p] # 0
      BY <2>1, <2>5 DEF GhostInv, GhostTypes
    <3>2. FilesKeep
      BY <2>1, <2>3, <3>1 DEF FilesKeep, GhostInv, GhostTypes
    <3>3. QED BY <1>0, <2>1, <2>2, <3>2, StoreSame, GhostGoesOn
  <2>6. QED BY <2>4, <2>5
<1>3. CASE ~Remove(t) /\ ~\E n \in Names : Lookup(t, n)
  <2>1. UNCHANGED <<storeVars, fileVars>>
    BY <1>3
    DEF Download, Exists, Open, CheckSize, Allocate, Read, Send, ReadFails, Absent
  <2>2. \/ job' = [job EXCEPT ![t] = NoJob]
        \/ \E g \in {"open", "buffer", "remove"} : job' = [job EXCEPT ![t].stage = g]
        \/ \E i : job' = [job EXCEPT ![t].stage = "size", ![t].inode = i]
        \/ \E i : job' = [job EXCEPT ![t].stage = "read", ![t].size = i]
    BY <1>3
    DEF Download, Exists, Open, CheckSize, Allocate, Read, Send, ReadFails, Goes, Ends,
        Absent
  <2>3. JobsKeep(t)
    BY <1>0, <2>2 DEF JobsKeep, NoJob, Uploading, Shape
  <2>4. QED BY <1>0, <2>1, <2>3, StoreSame, FilesSame, GhostGoesOn
<1>4. QED BY <1>1, <1>2, <1>3

LEMMA GhostStep == GhostInv /\ [Next]_vars => GhostInv'
<1> SUFFICES ASSUME GhostInv, [Next]_vars PROVE GhostInv'
  OBVIOUS
<1>0. ApartInv' /\ Shape
  BY ApartStep DEF GhostInv, ApartInv
<1>1. ASSUME StoreKeeps, UNCHANGED <<fileVars, job>> PROVE GhostInv'
  BY <1>0, <1>1
  DEF GhostInv, GhostTypes, StoreKeeps, FileThere, Target, Uploading, fileVars
<1>2. CASE \E t \in Threads : Upload(t) \/ Download(t)
  BY <1>2, UploadGhost, DownloadGhost
<1>3. ASSUME NEW t \in Threads, ListShow(t) PROVE GhostInv'
  <2>1. UNCHANGED <<fileVars, table, file, toLoad, snap, arg, pc>>
    BY <1>3 DEF ListShow, Store!GetAll
  <2>2. StoreKeeps
    BY <2>1 DEF StoreKeeps, NoGhost, GhostInv, GhostTypes
  <2>3. job' = [job EXCEPT ![t] = NoJob]
    BY <1>3 DEF ListShow, Ends
  <2>4. JobsKeep(t)
    BY <1>0, <2>3 DEF JobsKeep, NoJob, Uploading, Shape
  <2>5. QED BY <1>0, <2>1, <2>2, <2>4, FilesSame, GhostGoesOn
<1>4. ASSUME NEW t \in Threads \cup {Main}, Insert(t) PROVE GhostInv'
  <2>1. t \in Store!Procs /\ Store!Insert(t) /\ UNCHANGED <<fileVars, job>>
    BY <1>4 DEF Insert, Store!Procs
  <2>2. QED BY <1>1, <2>1, InsertKeeps
<1>5. CASE Start
  BY <1>1, <1>5, StartKeeps DEF Start
<1>6. CASE Crash
  <2>1. StoreKeeps /\ UNCHANGED fileVars
    BY <1>6, DieKeeps DEF Crash, Store!Crash
  <2>2. \A t \in Threads : job'[t].stage = "idle"
    BY <1>6 DEF Crash, NoJob
  <2>3. QED
    BY <1>0, <2>1, <2>2
    DEF GhostInv, GhostTypes, StoreKeeps, FileThere, Uploading, fileVars
<1>7. CASE UNCHANGED vars
  BY <1>1, <1>7, StoreSame DEF vars
<1>8. QED
  BY <1>2, <1>3, <1>4, <1>5, <1>6, <1>7 DEF Next

(* Service.cpp:130: a record without an url gets into the table, over       *)
(* restarts too, only if a download has removed a stored file (line 370) or *)
(* a failed write has torn the file of the table: of an info that           *)
(* NewStorageInfo could not fill in, the first is the only cause.           *)
THEOREM GhostsNeedRemovals == Spec => []GhostOnlyAfterRemoval
<1>1. GhostInv => GhostOnlyAfterRemoval
  BY DEF GhostInv, NoGhost, TornOnly, GhostOnlyAfterRemoval
<1>2. QED BY <1>1, GhostInit, GhostStep, PTL DEF Spec

-----------------------------------------------------------------------------
(* Types *)

Byte == (Contents \X Nat) \cup {Garbage}

(* The infos that NewStorageInfo may make of a file of name n. *)
RecordOf(n) == [path : Types \X {n}, size : Nat]

UpStages   == {"create", "write", "stat", "insert"}
DownStages == {"exists", "open", "size", "buffer", "read", "remove"}

JobRecord == [stage : {"idle"} \cup UpStages \cup DownStages,
              name : Names \cup {NoUrl}, type : Types, content : Contents \cup {Nothing},
              info : [path : Paths, size : Nat] \cup {Raw},
              inode : Nat, size : Nat, clean : BOOLEAN]

(* A job has what its stage needs. *)
GoodJob(j) ==
    /\ j \in JobRecord
    /\ j.stage \in UpStages => j.name \in Names /\ j.content \in Contents
    /\ j.stage \in DownStages => j.name \in Names /\ j.info \in RecordOf(j.name)

(* A table has records of names under them, and whatever under no name.     *)
Named(T) ==
    /\ DOMAIN T \subseteq Names \cup {NoUrl}
    /\ \A n \in Names : n \in DOMAIN T => T[n] \in RecordOf(n)

JobTypes == \A t \in Threads : GoodJob(job[t])

RecordsInv ==
    /\ DOMAIN arg = Store!Procs /\ DOMAIN snap = Store!Procs
    /\ Named(table) /\ Named(file) /\ Named(toLoad)
    /\ \A t \in Store!Procs :
          /\ Named(snap[t])
          /\ pc[t] # "idle" => /\ arg[t].url \in Names \cup {NoUrl}
                               /\ arg[t].url \in Names => arg[t].info \in RecordOf(arg[t].url)
    /\ \A t \in Threads : pc[t] # "idle" => arg[t].url \in {job[t].name, NoUrl}
    /\ proc = "up" => DOMAIN toLoad = {}

FileTypes ==
    /\ data \in Seq(Seq(Byte)) /\ disk \in [Paths -> 0 .. Len(data)]
    /\ promised \in [Names -> [type : Types, content : Contents] \cup {Nothing}]
    /\ mixed \subseteq Names

TypesInv == ApartInv /\ JobTypes /\ RecordsInv /\ FileTypes

-----------------------------------------------------------------------------
(* Bytes and sequences *)

LEMMA SeqExcept ==
    ASSUME NEW S, NEW q \in Seq(S), NEW i \in 1 .. Len(q), NEW x \in S
    PROVE  /\ [q EXCEPT ![i] = x] \in Seq(S) /\ Len([q EXCEPT ![i] = x]) = Len(q)
           /\ [q EXCEPT ![i] = x][i] = x
           /\ \A j \in 1 .. Len(q) : j # i => [q EXCEPT ![i] = x][j] = q[j]
OBVIOUS

LEMMA SeqAppend ==
    ASSUME NEW S, NEW q \in Seq(S), NEW x \in S
    PROVE  /\ Append(q, x) \in Seq(S) /\ Len(Append(q, x)) = Len(q) + 1
           /\ Append(q, x)[Len(q) + 1] = x
           /\ \A j \in 1 .. Len(q) : Append(q, x)[j] = q[j]
OBVIOUS

LEMMA WrittenType ==
    ASSUME NEW c \in Contents
    PROVE  /\ Size[c] \in Nat /\ Size[c] > 0 /\ Text[c] \in Nat
           /\ Written(c) \in Seq(Byte) /\ Len(Written(c)) = Size[c]
           /\ \A i \in 1 .. Size[c] : Written(c)[i] = IF i <= Text[c] + 1 THEN <<c, i>> ELSE Garbage
<1>1. Size[c] \in Nat /\ Size[c] > 0 /\ Text[c] \in Nat
  BY FileAssumption DEF Sizes
<1>2. \A i \in 1 .. Size[c] : (IF i <= Text[c] + 1 THEN <<c, i>> ELSE Garbage) \in Byte
  BY <1>1 DEF Byte
<1>3. Written(c) \in [1 .. Size[c] -> Byte]
  BY <1>2 DEF Written
<1>4. Written(c) \in Seq(Byte) /\ Len(Written(c)) = Size[c]
  BY <1>1, <1>3
<1>5. QED BY <1>1, <1>4 DEF Written

LEMMA BytesType ==
    ASSUME NEW j, j.type \in Types, j.content \in Contents
    PROVE  /\ Bytes(j) \in Seq(Byte) /\ Len(Bytes(j)) \in Nat
           /\ j.type = "low" => Len(Bytes(j)) = Size[j.content]
<1>1. CASE j.type = "low"
  BY <1>1, WrittenType DEF Bytes
<1>2. CASE j.type # "low"
  <2>1. Bytes(j) = <<<<j.content, Text[j.content]>>>>
    BY <1>2 DEF Bytes, Packed
  <2>2. <<j.content, Text[j.content]>> \in Byte
    BY WrittenType DEF Byte
  <2>3. QED BY <1>2, <2>1, <2>2
<1>3. QED BY <1>1, <1>2

LEMMA OverlayType ==
    ASSUME NEW S, NEW a \in Seq(S), NEW b \in Seq(S)
    PROVE  Overlay(a, b) \in Seq(S) /\ Overlay(a, <<>>) = a
<1> DEFINE len == IF Len(a) > Len(b) THEN Len(a) ELSE Len(b)
<1>1. len \in Nat /\ Len(a) \in Nat /\ Len(b) \in Nat
  OBVIOUS
<1>2. \A i \in 1 .. len : (IF i <= Len(a) THEN a[i] ELSE b[i]) \in S
  BY <1>1
<1>3. Overlay(a, b) \in [1 .. len -> S]
  BY <1>2 DEF Overlay
<1> HIDE DEF len
<1>4. Overlay(a, b) \in Seq(S)
  BY <1>1, <1>3
<1>5. Overlay(a, <<>>) = a
  <2>1. Len(<<>>) = 0 /\ (IF Len(a) > 0 THEN Len(a) ELSE 0) = Len(a)
    BY <1>1
  <2>2. Overlay(a, <<>>) = [i \in 1 .. Len(a) |-> IF i <= Len(a) THEN a[i] ELSE <<>>[i]]
    BY <2>1 DEF Overlay
  <2>3. \A i \in 1 .. Len(a) : (IF i <= Len(a) THEN a[i] ELSE <<>>[i]) = a[i]
    OBVIOUS
  <2>4. a = [i \in 1 .. Len(a) |-> a[i]]
    OBVIOUS
  <2>5. QED BY <2>2, <2>3, <2>4
<1>6. QED BY <1>4, <1>5

LEMMA CutType ==
    ASSUME NEW S, NEW a \in Seq(S), NEW k \in 0 .. Len(a)
    PROVE  /\ SubSeq(a, 1, k) \in Seq(S) /\ Len(SubSeq(a, 1, k)) = k
           /\ \A i \in 1 .. k : SubSeq(a, 1, k)[i] = a[i]
OBVIOUS

(* What a write puts into a file. *)
LEMMA WritesBytes ==
    ASSUME FileTypes, NEW t \in Threads, GoodJob(job[t]), Write(t) \/ WriteFails(t)
    PROVE  \E b \in Seq(Byte) :
              /\ data' = [data EXCEPT ![job[t].inode] = Overlay(b, @)]
              /\ Write(t) => b = Bytes(job[t])
              /\ \E k \in 0 .. Len(Bytes(job[t])) : b = SubSeq(Bytes(job[t]), 1, k)
<1>1. Bytes(job[t]) \in Seq(Byte) /\ Len(Bytes(job[t])) \in Nat
  BY BytesType DEF Write, WriteFails, GoodJob, JobRecord, UpStages
<1>2. CASE Write(t)
  <2>1. /\ SubSeq(Bytes(job[t]), 1, Len(Bytes(job[t]))) = Bytes(job[t])
        /\ Len(Bytes(job[t])) \in 0 .. Len(Bytes(job[t]))
    BY <1>1
  <2>2. QED BY <1>1, <1>2, <2>1 DEF Write
<1>3. CASE WriteFails(t) /\ ~Write(t)
  <2>1. PICK k \in 0 .. Len(Bytes(job[t])) - 1 :
           data' = [data EXCEPT ![job[t].inode] = Overlay(SubSeq(Bytes(job[t]), 1, k), @)]
    BY <1>3 DEF WriteFails
  <2>2. k \in 0 .. Len(Bytes(job[t]))
    BY <1>1
  <2>3. SubSeq(Bytes(job[t]), 1, k) \in Seq(Byte)
    BY <1>1, <2>2, CutType
  <2>4. QED BY <1>3, <2>1, <2>2, <2>3
<1>4. QED BY <1>2, <1>3

LEMMA SizeType ==
    ASSUME FileTypes, NEW p \in Paths
    PROVE  FileSize(p) \in Nat /\ (disk[p] # 0 => data[disk[p]] \in Seq(Byte))
<1>1. CASE disk[p] = 0
  BY <1>1 DEF FileSize
<1>2. CASE disk[p] # 0
  <2>1. disk[p] \in 1 .. Len(data)
    BY <1>2 DEF FileTypes
  <2>2. data[disk[p]] \in Seq(Byte)
    BY <2>1 DEF FileTypes
  <2>3. QED BY <1>2, <2>2 DEF FileSize
<1>3. QED BY <1>1, <1>2

-----------------------------------------------------------------------------
(* Jobs *)

(* Job j has become k, at stage g and of the same file. *)
Becomes(j, k, g) ==
    /\ k \in JobRecord /\ k.stage = g
    /\ k.name = j.name /\ k.type = j.type /\ k.content = j.content /\ k.info = j.info
    /\ k.clean => j.clean

OthersSame(t) == \A s \in Threads \ {t} : job'[s] = job[s]
OthersKeep(t) ==
    \A s \in Threads \ {t} : job'[s] \in {job[s], [job[s] EXCEPT !.clean = FALSE]}

(* Most steps move one job to another stage of its kind, or end it.         *)
JobStep(t) ==
    /\ OthersSame(t)
    /\ \/ job'[t] = NoJob
       \/ \E K \in {UpStages, DownStages} :
             job[t].stage \in K /\ \E g \in K : Becomes(job[t], job'[t], g)

LEMMA NoJobGood == GoodJob(NoJob) /\ NoJob.stage = "idle" /\ NoJob.inode = 0 /\ ~NoJob.clean
BY DEF GoodJob, NoJob, JobRecord, UpStages, DownStages, Types

LEMMA BecomesGood ==
    ASSUME NEW j, GoodJob(j), NEW k, NEW K \in {UpStages, DownStages},
           j.stage \in K, NEW g \in K, Becomes(j, k, g)
    PROVE  GoodJob(k)
BY DEF GoodJob, Becomes, UpStages, DownStages

(* What the stages say. *)
LEMMA Kinds ==
    ASSUME JobTypes, NEW t \in Threads
    PROVE  /\ Uploading(t) <=> job[t].stage \in UpStages
           /\ Downloading(t) <=> job[t].stage \in DownStages
           /\ Idle(t) <=> job[t].stage = "idle"
BY DEF JobTypes, GoodJob, JobRecord, Uploading, Downloading, Idle, UpStages, DownStages

(* A step of the job of thread t. *)
LEMMA JobAt ==
    ASSUME ApartInv, JobTypes, NEW t \in Threads, NEW k, job' = [job EXCEPT ![t] = k]
    PROVE  job'[t] = k /\ OthersSame(t)
BY DEF ApartInv, Shape, OthersSame

LEMMA EndStep ==
    ASSUME ApartInv, JobTypes, NEW t \in Threads, job' = [job EXCEPT ![t] = NoJob]
    PROVE  JobStep(t) /\ job'[t] = NoJob
BY JobAt DEF JobStep

LEMMA MoveStep ==
    ASSUME ApartInv, JobTypes, NEW t \in Threads, NEW K \in {UpStages, DownStages},
           job[t].stage \in K, NEW g \in K, NEW i \in Nat, NEW k,
           k \in {[job[t] EXCEPT !.stage = g], [job[t] EXCEPT !.stage = g, !.inode = i],
                  [job[t] EXCEPT !.stage = g, !.size = i],
                  [job[t] EXCEPT !.stage = g, !.clean = FALSE]},
           job' = [job EXCEPT ![t] = k]
    PROVE  /\ JobStep(t) /\ job'[t] = k /\ OthersSame(t) /\ Becomes(job[t], job'[t], g)
<1>1. job'[t] = k /\ OthersSame(t)
  BY JobAt
<1>2. job[t] \in JobRecord /\ g \in UpStages \cup DownStages
  BY DEF JobTypes, GoodJob
<1>3. Becomes(job[t], k, g)
  BY <1>2 DEF Becomes, JobRecord
<1>4. QED BY <1>1, <1>3 DEF JobStep

(* The steps of an upload. *)
LEMMA CreateStep ==
    ASSUME TypesInv, NEW t \in Threads, Create(t)
    PROVE  LET i == IF disk[Target(t)] = 0 THEN Len(data) + 1 ELSE disk[Target(t)] IN
           /\ job[t].stage = "create" /\ JobStep(t) /\ OthersSame(t)
           /\ Becomes(job[t], job'[t], "write") /\ job'[t].inode = i
           /\ Target(t) \in Paths
<1> DEFINE i == IF disk[Target(t)] = 0 THEN Len(data) + 1 ELSE disk[Target(t)]
<1>1. job[t].stage = "create" /\ job[t].stage \in UpStages /\ "write" \in UpStages
  BY DEF Create, OpenFor, UpStages
<1>2. job[t].name \in Names /\ job[t].type \in Types /\ GoodJob(job[t])
  BY <1>1 DEF TypesInv, JobTypes, GoodJob, JobRecord
<1>3. Target(t) \in Paths
  BY <1>1, <1>2 DEF Target, Uploading, Paths, UpStages
<1>4. i \in Nat
  BY <1>3 DEF TypesInv, FileTypes
<1>5. job' = [job EXCEPT ![t] = [job[t] EXCEPT !.stage = "write", !.inode = i]]
  BY DEF Create, OpenFor
<1> HIDE DEF i
<1> DEFINE k == [job[t] EXCEPT !.stage = "write", !.inode = i]
<1>6. /\ JobStep(t) /\ OthersSame(t) /\ Becomes(job[t], job'[t], "write")
      /\ job'[t] = k
  <2>1. job'[t] = k /\ OthersSame(t)
    BY <1>5, JobAt DEF TypesInv
  <2>2. Becomes(job[t], k, "write")
    BY <1>2, <1>4 DEF Becomes, GoodJob, JobRecord, UpStages
  <2>3. QED BY <1>1, <2>1, <2>2 DEF JobStep
<1>7. job'[t].inode = i
  BY <1>2, <1>4, <1>6 DEF GoodJob, JobRecord
<1>8. QED BY <1>1, <1>3, <1>6, <1>7 DEF i

LEMMA WriteStep ==
    ASSUME TypesInv, NEW t \in Threads, Write(t) \/ WriteFails(t)
    PROVE  /\ job[t].stage = "write" /\ JobStep(t) /\ OthersSame(t)
           /\ \/ job'[t] = NoJob
              \/ /\ Becomes(job[t], job'[t], "stat") /\ job'[t].inode = job[t].inode
                 /\ job'[t].clean => Write(t)
<1>1. job[t].stage = "write" /\ job[t].stage \in UpStages /\ "stat" \in UpStages /\ 0 \in Nat
  BY DEF Write, WriteFails, UpStages
<1>2. \/ job' = [job EXCEPT ![t] = NoJob]
      \/ Write(t) /\ job' = [job EXCEPT ![t] = [job[t] EXCEPT !.stage = "stat"]]
      \/ job' = [job EXCEPT ![t] = [job[t] EXCEPT !.stage = "stat", !.clean = FALSE]]
  BY DEF Write, WriteFails, Goes, Ends
<1>3. CASE job' = [job EXCEPT ![t] = NoJob]
  BY <1>1, <1>3, EndStep DEF TypesInv, JobStep
<1>4. CASE Write(t) /\ job' = [job EXCEPT ![t] = [job[t] EXCEPT !.stage = "stat"]]
  <2>1. /\ JobStep(t) /\ OthersSame(t) /\ Becomes(job[t], job'[t], "stat")
        /\ job'[t] = [job[t] EXCEPT !.stage = "stat"]
    BY <1>1, <1>4, MoveStep DEF TypesInv
  <2>2. job'[t].inode = job[t].inode
    BY <2>1 DEF TypesInv, JobTypes, GoodJob, JobRecord
  <2>3. QED BY <1>1, <1>4, <2>1, <2>2
<1>5. CASE job' = [job EXCEPT ![t] = [job[t] EXCEPT !.stage = "stat", !.clean = FALSE]]
  <2>1. /\ JobStep(t) /\ OthersSame(t) /\ Becomes(job[t], job'[t], "stat")
        /\ job'[t] = [job[t] EXCEPT !.stage = "stat", !.clean = FALSE]
    BY <1>1, <1>5, MoveStep DEF TypesInv
  <2>2. job'[t].inode = job[t].inode /\ ~job'[t].clean
    BY <2>1 DEF TypesInv, JobTypes, GoodJob, JobRecord
  <2>3. QED BY <1>1, <2>1, <2>2
<1>6. QED BY <1>2, <1>3, <1>4, <1>5

LEMMA LookStep ==
    ASSUME TypesInv, NEW t \in Threads, NewStorageInfo(t)
    PROVE  /\ job[t].stage = "stat" /\ JobStep(t) /\ OthersSame(t)
           /\ Becomes(job[t], job'[t], "insert")
           /\ job'[t].inode = job[t].inode /\ job'[t].clean = job[t].clean
           /\ Target(t) = <<job[t].type, job[t].name>> /\ Target(t) \in Paths
           /\ FileSize(Target(t)) \in Nat
<1>1. job[t].stage = "stat" /\ job[t].stage \in UpStages /\ "insert" \in UpStages /\ 0 \in Nat
  BY DEF NewStorageInfo, LookAt, UpStages
<1>2. job' = [job EXCEPT ![t] = [job[t] EXCEPT !.stage = "insert"]]
  BY DEF NewStorageInfo, LookAt, Goes
<1>3. /\ JobStep(t) /\ OthersSame(t) /\ Becomes(job[t], job'[t], "insert")
      /\ job'[t] = [job[t] EXCEPT !.stage = "insert"]
  BY <1>1, <1>2, MoveStep DEF TypesInv
<1>4. job'[t].inode = job[t].inode /\ job'[t].clean = job[t].clean
  BY <1>1, <1>3 DEF TypesInv, JobTypes, GoodJob, JobRecord
<1>5. Target(t) = <<job[t].type, job[t].name>> /\ Target(t) \in Paths
  BY <1>1 DEF Target, Uploading, Paths, TypesInv, JobTypes, GoodJob, JobRecord
<1>6. FileSize(Target(t)) \in Nat
  BY <1>5, SizeType DEF TypesInv
<1>7. QED BY <1>1, <1>3, <1>4, <1>5, <1>6

LEMMA StartStep ==
    ASSUME TypesInv, NEW t \in Threads, NEW n \in Names, NEW type \in Types, NEW c \in Contents,
           StartUpload(t, n, type, c)
    PROVE  LET others == {s \in Threads : ~Idle(s) /\ job[s].name = n} IN
           /\ Idle(t) /\ OthersKeep(t) /\ GoodJob(job'[t])
           /\ job'[t].stage = "create" /\ job'[t].name = n /\ job'[t].type = type
           /\ job'[t].content = c /\ job'[t].inode = 0
           /\ job'[t].clean = \A s \in others : Downloading(s) /\ ~Deep(job[s])
           /\ \A s \in others : ~job'[s].clean
<1> DEFINE others == {s \in Threads : ~Idle(s) /\ job[s].name = n}
           clean  == \A s \in others : Downloading(s) /\ ~Deep(job[s])
           new    == [NoJob EXCEPT !.stage = "create", !.name = n, !.type = type,
                                   !.content = c, !.clean = clean]
<1>1. /\ Idle(t) /\ t \notin others
      /\ job' = [s \in Threads |-> IF s = t THEN new
                                   ELSE IF s \in others THEN [job[s] EXCEPT !.clean = FALSE]
                                   ELSE job[s]]
  BY DEF StartUpload
<1>2. clean \in BOOLEAN
  OBVIOUS
<1> HIDE DEF clean
<1>3. /\ GoodJob(new) /\ new.stage = "create" /\ new.name = n /\ new.type = type
      /\ new.content = c /\ new.inode = 0 /\ new.clean = clean
  BY <1>2 DEF NoJob, GoodJob, JobRecord, UpStages, DownStages, Types
<1> HIDE DEF new
<1>4. job'[t] = new /\ \A s \in Threads \ {t} : job'[s] = IF s \in others THEN [job[s] EXCEPT !.clean = FALSE]
                                   ELSE job[s]
  BY <1>1
<1>5. \A s \in others : job'[s] = [job[s] EXCEPT !.clean = FALSE] /\ job[s] \in JobRecord
  BY <1>1, <1>4 DEF TypesInv, JobTypes, GoodJob
<1>6. \A s \in others : ~job'[s].clean
  BY <1>5 DEF JobRecord
<1> HIDE DEF others
<1>7. OthersKeep(t)
  BY <1>4 DEF OthersKeep
<1>8. QED BY <1>1, <1>3, <1>4, <1>6, <1>7 DEF clean, others

(* The steps of a download. *)
LEMMA FindStep ==
    ASSUME TypesInv, NEW t \in Threads, NEW n \in Names, Lookup(t, n)
    PROVE  LET others == {s \in Threads : Uploading(s) /\ job[s].name = n} IN
           /\ Idle(t) /\ OthersKeep(t) /\ GoodJob(job'[t])
           /\ \/ JobStep(t) /\ job'[t] = NoJob
              \/ /\ n \in DOMAIN table /\ table[n] \in RecordOf(n)
                 /\ job'[t].stage = "exists" /\ job'[t].name = n /\ job'[t].info = table[n]
                 /\ job'[t].inode = 0 /\ job'[t].clean = (others = {})
                 /\ Deep(job'[t]) => \A s \in others : ~job'[s].clean
<1> DEFINE others == {s \in Threads : Uploading(s) /\ job[s].name = n}
           clean == others = {}
           found == [NoJob EXCEPT !.stage = "exists", !.name = n, !.info = table[n],
                                  !.clean = clean]
<1>1. Idle(t) /\ t \notin others
  BY DEF Lookup, Find, Idle, Uploading
<1>2. CASE n \notin DOMAIN table
  <2>1. job' = [job EXCEPT ![t] = NoJob]
    BY <1>2 DEF Lookup, Find, Ends
  <2>2. QED BY <1>1, <2>1, EndStep, NoJobGood DEF TypesInv, JobStep, OthersSame, OthersKeep
<1>3. CASE n \in DOMAIN table
  <2>1. table[n] \in RecordOf(n) /\ table[n] \in [path : Paths, size : Nat]
    BY <1>3 DEF TypesInv, RecordsInv, Named, RecordOf, Paths
  <2>2. job' = [s \in Threads |-> IF s = t THEN found
                                  ELSE IF s \in others /\ Deep(found)
                                    THEN [job[s] EXCEPT !.clean = FALSE] ELSE job[s]]
    BY <1>3 DEF Lookup, Find
  <2>3. clean \in BOOLEAN
    OBVIOUS
  <2> HIDE DEF clean
  <2>4. /\ GoodJob(found) /\ found.stage = "exists" /\ found.name = n /\ found.info = table[n]
        /\ found.inode = 0 /\ found.clean = clean
    BY <2>1, <2>3 DEF NoJob, GoodJob, JobRecord, UpStages, DownStages, Types
  <2> HIDE DEF found
  <2>5. job'[t] = found /\ OthersKeep(t)
    BY <2>2 DEF OthersKeep
  <2>6. ASSUME Deep(job'[t]), NEW s \in others PROVE ~job'[s].clean
    <3>1. job'[s] = [job[s] EXCEPT !.clean = FALSE] /\ job[s] \in JobRecord
      BY <1>1, <2>2, <2>5, <2>6 DEF TypesInv, JobTypes, GoodJob
    <3>2. QED BY <3>1 DEF JobRecord
  <2>7. QED BY <1>1, <1>3, <2>1, <2>4, <2>5, <2>6 DEF clean
<1>4. QED BY <1>2, <1>3

(* A step of a download: another stage, or the end. *)
DownStep(t) ==
    /\ job[t].stage \in DownStages /\ OthersSame(t)
    /\ UNCHANGED <<storeVars, data, promised, mixed>>
    /\ \/ /\ job'[t] = NoJob
          /\ (disk' = disk /\ removed' = removed) \/ Remove(t)
       \/ /\ UNCHANGED <<disk, removed>>
          /\ \/ /\ job[t].stage = "exists" /\ Becomes(job[t], job'[t], "open")
                /\ job'[t].inode = job[t].inode
             \/ /\ job[t].stage = "open" /\ Becomes(job[t], job'[t], "size")
                /\ job'[t].inode = disk[Target(t)] /\ disk[Target(t)] # 0
             \/ /\ job[t].stage = "size" /\ Becomes(job[t], job'[t], "buffer")
                /\ job'[t].inode = job[t].inode
             \/ /\ job[t].stage = "buffer" /\ Becomes(job[t], job'[t], "read")
                /\ job'[t].inode = job[t].inode /\ job'[t].size = FileSize(Target(t))
             \/ /\ job[t].stage = "read" /\ Becomes(job[t], job'[t], "remove")
                /\ job'[t].inode = job[t].inode /\ job[t].info.path # Target(t)

LEMMA DownSteps ==
    ASSUME TypesInv, NEW t \in Threads,
           \/ Exists(t) \/ Open(t) \/ CheckSize(t) \/ Allocate(t)
           \/ Read(t) \/ ReadFails(t) \/ Remove(t)
    PROVE  DownStep(t) /\ JobStep(t)
<1>1. job[t].stage \in DownStages /\ UNCHANGED <<storeVars, data, promised, mixed>>
  BY DEF Exists, Open, CheckSize, Allocate, Read, Send, ReadFails, Remove, DownStages,
         Absent, fileVars
<1>2. GoodJob(job[t]) /\ job[t] \in JobRecord /\ Target(t) = <<"low", job[t].name>>
      /\ Target(t) \in Paths
  BY <1>1 DEF TypesInv, JobTypes, GoodJob, Target, Uploading, DownStages, Paths, Types
<1>3. disk[Target(t)] \in Nat /\ FileSize(Target(t)) \in Nat
  BY <1>2, SizeType DEF TypesInv, FileTypes
<1>4. (disk' = disk /\ removed' = removed) \/ Remove(t)
  BY DEF Exists, Open, CheckSize, Allocate, Read, Send, ReadFails, Absent, fileVars
<1>5. ASSUME NEW k, job' = [job EXCEPT ![t] = k]
      PROVE  job'[t] = k /\ OthersSame(t)
  BY <1>5, JobAt DEF TypesInv
<1>6. CASE job' = [job EXCEPT ![t] = NoJob]
  BY <1>1, <1>4, <1>5, <1>6 DEF DownStep, JobStep
<1>7. CASE job' # [job EXCEPT ![t] = NoJob]
  <2>1. UNCHANGED <<disk, removed>>
    BY <1>4, <1>7 DEF Remove
  <2>2. CASE Exists(t)
    <3>1. job[t].stage = "exists" /\ job' = [job EXCEPT ![t] = [job[t] EXCEPT !.stage = "open"]]
      BY <1>7, <2>2 DEF Exists, Goes, Absent, Ends
    <3>2. OthersSame(t) /\ job'[t] = [job[t] EXCEPT !.stage = "open"]
      BY <1>5, <3>1
    <3>3. Becomes(job[t], job'[t], "open") /\ job'[t].inode = job[t].inode
      BY <1>2, <3>2 DEF Becomes, JobRecord, DownStages
    <3>4. QED BY <1>1, <2>1, <3>1, <3>2, <3>3 DEF DownStep, JobStep, DownStages
  <2>3. CASE Open(t)
    <3>1. /\ job[t].stage = "open" /\ disk[Target(t)] # 0
          /\ job' = [job EXCEPT ![t] = [job[t] EXCEPT !.stage = "size", !.inode = disk[Target(t)]]]
      BY <1>7, <2>3 DEF Open, Absent, Ends
    <3>2. OthersSame(t) /\ job'[t] = [job[t] EXCEPT !.stage = "size", !.inode = disk[Target(t)]]
      BY <1>5, <3>1
    <3>3. Becomes(job[t], job'[t], "size") /\ job'[t].inode = disk[Target(t)]
      BY <1>2, <1>3, <3>2 DEF Becomes, JobRecord, DownStages
    <3>4. QED BY <1>1, <2>1, <3>1, <3>2, <3>3 DEF DownStep, JobStep, DownStages
  <2>4. CASE CheckSize(t)
    <3>1. job[t].stage = "size" /\ job' = [job EXCEPT ![t] = [job[t] EXCEPT !.stage = "buffer"]]
      BY <1>7, <2>4 DEF CheckSize, Goes, Absent, Ends
    <3>2. OthersSame(t) /\ job'[t] = [job[t] EXCEPT !.stage = "buffer"]
      BY <1>5, <3>1
    <3>3. Becomes(job[t], job'[t], "buffer") /\ job'[t].inode = job[t].inode
      BY <1>2, <3>2 DEF Becomes, JobRecord, DownStages
    <3>4. QED BY <1>1, <2>1, <3>1, <3>2, <3>3 DEF DownStep, JobStep, DownStages
  <2>5. CASE Allocate(t)
    <3>1. /\ job[t].stage = "buffer"
          /\ job' = [job EXCEPT ![t] = [job[t] EXCEPT !.stage = "read", !.size = FileSize(Target(t))]]
      BY <2>5 DEF Allocate
    <3>2. OthersSame(t) /\ job'[t] = [job[t] EXCEPT !.stage = "read", !.size = FileSize(Target(t))]
      BY <1>5, <3>1
    <3>3. /\ Becomes(job[t], job'[t], "read") /\ job'[t].inode = job[t].inode
          /\ job'[t].size = FileSize(Target(t))
      BY <1>2, <1>3, <3>2 DEF Becomes, JobRecord, DownStages
    <3>4. QED BY <1>1, <2>1, <3>1, <3>2, <3>3 DEF DownStep, JobStep, DownStages
  <2>6. CASE Read(t)
    <3>1. /\ job[t].stage = "read" /\ job[t].info.path # Target(t)
          /\ job' = [job EXCEPT ![t] = [job[t] EXCEPT !.stage = "remove"]]
      BY <1>7, <2>6 DEF Read, Send, Goes
    <3>2. OthersSame(t) /\ job'[t] = [job[t] EXCEPT !.stage = "remove"]
      BY <1>5, <3>1
    <3>3. Becomes(job[t], job'[t], "remove") /\ job'[t].inode = job[t].inode
      BY <1>2, <3>2 DEF Becomes, JobRecord, DownStages
    <3>4. QED BY <1>1, <2>1, <3>1, <3>2, <3>3 DEF DownStep, JobStep, DownStages
  <2>7. QED BY <1>7, <2>2, <2>3, <2>4, <2>5, <2>6 DEF ReadFails, Remove, Ends
<1>8. QED BY <1>6, <1>7

-----------------------------------------------------------------------------
(* Jobs keep their types. *)
LEMMA OthersGood ==
    ASSUME JobTypes, NEW t \in Threads, OthersKeep(t), GoodJob(job'[t])
    PROVE  JobTypes'
<1>1. SUFFICES ASSUME NEW s \in Threads \ {t} PROVE GoodJob(job'[s])
  BY DEF JobTypes, GoodJob, JobRecord
<1>2. GoodJob(job[s]) /\ job'[s] \in {job[s], [job[s] EXCEPT !.clean = FALSE]}
  BY DEF JobTypes, OthersKeep
<1>3. ASSUME job'[s] = [job[s] EXCEPT !.clean = FALSE] PROVE GoodJob(job'[s])
  BY <1>2, <1>3 DEF GoodJob, JobRecord
<1>4. QED BY <1>2, <1>3

LEMMA JobStepGood == ASSUME JobTypes, NEW t \in Threads, JobStep(t) PROVE JobTypes'
<1>1. OthersKeep(t) /\ GoodJob(job[t])
  BY DEF JobStep, OthersSame, OthersKeep, JobTypes
<1>2. GoodJob(job'[t])
  BY <1>1, NoJobGood, BecomesGood DEF JobStep
<1>3. QED BY <1>1, <1>2, OthersGood

-----------------------------------------------------------------------------
(* What the steps are, seen from the jobs. *)

tableVars == <<proc, table, file, pc, arg, snap, toLoad, kept, solo>>

(* A thread answers and has changed nothing, or takes a request it answers  *)
(* at once.                                                                 *)
Quits(t) == /\ JobStep(t) /\ job'[t] = NoJob
            /\ UNCHANGED <<tableVars, fileVars, promised, mixed>>

Steps(t) ==
    \/ Quits(t)
    \/ \E n \in Names, type \in Types, c \in Contents : StartUpload(t, n, type, c)
    \/ Create(t)
    \/ Write(t) \/ WriteFails(t)
    \/ NewStorageInfo(t)
    \/ Uploaded(t)
    \/ \E n \in Names : Lookup(t, n) /\ n \in DOMAIN table
    \/ DownStep(t)

LEMMA StepKinds ==
    ASSUME TypesInv, [Next]_vars
    PROVE  \/ \E t \in Threads : Steps(t)
           \/ \E t \in Threads \cup {Main} : Insert(t)
           \/ Start
           \/ Crash
           \/ UNCHANGED vars
<1>1. ASSUME NEW t \in Threads, Upload(t) \/ Download(t) \/ ListShow(t)
      PROVE  Steps(t)
  <2>1. CASE Refuse(t) \/ CreateFails(t) \/ ListShow(t)
    <3>1. /\ job' = [job EXCEPT ![t] = NoJob]
          /\ UNCHANGED <<tableVars, fileVars, promised, mixed>>
      BY <2>1 DEF Refuse, CreateFails, ListShow, Ends, Store!GetAll, storeVars, tableVars
    <3>2. QED BY <3>1, EndStep DEF Steps, Quits, TypesInv
  <2>2. ASSUME NEW n \in Names, Lookup(t, n) PROVE Steps(t)
    <3>1. CASE n \in DOMAIN table
      BY <2>2, <3>1 DEF Steps
    <3>2. CASE n \notin DOMAIN table
      <4>1. /\ job' = [job EXCEPT ![t] = NoJob]
            /\ UNCHANGED <<tableVars, fileVars, promised, mixed>>
        BY <2>2, <3>2 DEF Lookup, Find, Ends, Store!GetOneByURL, storeVars, tableVars
      <4>2. QED BY <4>1, EndStep DEF Steps, Quits, TypesInv
    <3>3. QED BY <3>1, <3>2
  <2>3. CASE \/ Exists(t) \/ Open(t) \/ CheckSize(t) \/ Allocate(t)
             \/ Read(t) \/ ReadFails(t) \/ Remove(t)
    BY <2>3, DownSteps DEF Steps
  <2>4. QED BY <1>1, <2>1, <2>2, <2>3 DEF Upload, Download, Steps
<1>2. QED BY <1>1 DEF Next

LEMMA JobsStep ==
    ASSUME TypesInv, NEW t \in Threads, Steps(t)
    PROVE  JobTypes'
<1>0. ApartInv /\ JobTypes
  BY DEF TypesInv
<1>1. CASE Quits(t)
  BY <1>0, <1>1, JobStepGood DEF Quits
<1>2. ASSUME NEW n \in Names, NEW type \in Types, NEW c \in Contents, StartUpload(t, n, type, c)
      PROVE  JobTypes'
  BY <1>0, <1>2, StartStep, OthersGood
<1>3. CASE Create(t) \/ Write(t) \/ WriteFails(t) \/ NewStorageInfo(t)
  BY <1>0, <1>3, CreateStep, WriteStep, LookStep, JobStepGood
<1>4. CASE Uploaded(t)
  BY <1>0, <1>4, EndStep, JobStepGood DEF Uploaded, Ends
<1>5. ASSUME NEW n \in Names, Lookup(t, n) PROVE JobTypes'
  BY <1>0, <1>5, FindStep, OthersGood
<1>6. CASE DownStep(t)
  <2>1. JobStep(t)
    BY <1>6 DEF DownStep, JobStep, DownStages
  <2>2. QED BY <1>0, <2>1, JobStepGood
<1>7. QED BY <1>1, <1>2, <1>3, <1>4, <1>5, <1>6 DEF Steps

(* The files keep their types. *)
LEMMA CreateFile ==
    ASSUME TypesInv, NEW t \in Threads, Create(t)
    PROVE  LET p == Target(t) IN
           /\ FileTypes' /\ p \in Paths /\ disk'[p] = job'[t].inode
           /\ data'[disk'[p]] = <<>> /\ disk'[p] \in 1 .. Len(data')
           /\ \A q \in Paths \ {p} : disk'[q] = disk[q]
           /\ \A i \in 1 .. Len(data) : i # disk'[p] => data'[i] = data[i]
           /\ disk[p] = 0 => disk'[p] = Len(data) + 1
           /\ disk[p] # 0 => disk'[p] = disk[p]
           /\ Len(data') >= Len(data)
<1> DEFINE p == Target(t)
           i == IF disk[p] = 0 THEN Len(data) + 1 ELSE disk[p]
<1>1. p \in Paths /\ job'[t].inode = i /\ disk \in [Paths -> 0 .. Len(data)]
      /\ data \in Seq(Seq(Byte)) /\ <<>> \in Seq(Byte) /\ Len(data) \in Nat
  BY CreateStep DEF TypesInv, FileTypes
<1>2. /\ disk' = [disk EXCEPT ![p] = i] /\ UNCHANGED <<promised, mixed>>
      /\ data' = IF disk[p] = 0 THEN Append(data, <<>>) ELSE [data EXCEPT ![i] = <<>>]
  BY DEF Create, OpenFor
<1> HIDE DEF p
<1>3. disk[p] \in 0 .. Len(data) /\ disk'[p] = i /\ \A q \in Paths \ {p} : disk'[q] = disk[q]
  BY <1>1, <1>2
<1>4. CASE disk[p] = 0
  <2>1. i = Len(data) + 1 /\ data' = Append(data, <<>>)
    BY <1>2, <1>4
  <2> HIDE DEF i
  <2>2. /\ data' \in Seq(Seq(Byte)) /\ Len(data') = i /\ data'[i] = <<>>
        /\ \A j \in 1 .. Len(data) : data'[j] = data[j]
    BY <1>1, <2>1, SeqAppend
  <2>3. i \in 1 .. Len(data') /\ Len(data') >= Len(data) /\ 0 .. Len(data) \subseteq 0 .. Len(data')
        /\ i \in 0 .. Len(data')
    BY <1>1, <2>1, <2>2
  <2>4. disk' \in [Paths -> 0 .. Len(data')]
    BY <1>1, <1>2, <2>3
  <2>5. FileTypes'
    BY <1>2, <2>2, <2>4 DEF TypesInv, FileTypes
  <2>6. QED BY <1>1, <1>3, <1>4, <2>1, <2>2, <2>3, <2>5 DEF p
<1>5. CASE disk[p] # 0
  <2>1. i = disk[p] /\ data' = [data EXCEPT ![i] = <<>>] /\ i \in 1 .. Len(data)
    BY <1>2, <1>3, <1>5
  <2> HIDE DEF i
  <2>2. /\ data' \in Seq(Seq(Byte)) /\ Len(data') = Len(data) /\ data'[i] = <<>>
        /\ \A j \in 1 .. Len(data) : j # i => data'[j] = data[j]
    BY <1>1, <2>1, SeqExcept
  <2>3. i \in 1 .. Len(data') /\ Len(data') >= Len(data) /\ i \in 0 .. Len(data')
    BY <1>1, <2>1, <2>2
  <2>4. disk' \in [Paths -> 0 .. Len(data')]
    BY <1>1, <1>2, <2>2, <2>3
  <2>5. FileTypes'
    BY <1>2, <2>2, <2>4 DEF TypesInv, FileTypes
  <2>6. QED BY <1>1, <1>3, <1>5, <2>1, <2>2, <2>3, <2>5 DEF p
<1>6. QED BY <1>4, <1>5

LEMMA WriteFile ==
    ASSUME TypesInv, NEW t \in Threads, Write(t) \/ WriteFails(t)
    PROVE  /\ FileTypes' /\ UNCHANGED <<storeVars, disk, removed, promised, mixed>>
           /\ Len(data') = Len(data)
           /\ \A i \in 1 .. Len(data) : i # job[t].inode => data'[i] = data[i]
           /\ job[t].inode \in 1 .. Len(data) /\ data[job[t].inode] = <<>> =>
                 /\ Write(t) => data'[job[t].inode] = Bytes(job[t])
                 /\ \E k \in 0 .. Len(Bytes(job[t])) :
                       data'[job[t].inode] = SubSeq(Bytes(job[t]), 1, k)
<1> DEFINE i == job[t].inode
<1>1. PICK b \in Seq(Byte) :
              /\ data' = [data EXCEPT ![i] = Overlay(b, @)]
              /\ Write(t) => b = Bytes(job[t])
              /\ \E k \in 0 .. Len(Bytes(job[t])) : b = SubSeq(Bytes(job[t]), 1, k)
  BY WritesBytes DEF TypesInv, JobTypes
<1>2. UNCHANGED <<storeVars, disk, removed, promised, mixed>>
  BY DEF Write, WriteFails
<1>3. data \in Seq(Seq(Byte)) /\ i \in Nat
  BY DEF TypesInv, FileTypes, JobTypes, GoodJob, JobRecord
<1> HIDE DEF i
<1>4. CASE i \in 1 .. Len(data)
  <2>1. data[i] \in Seq(Byte) /\ data' = [data EXCEPT ![i] = Overlay(b, data[i])]
    BY <1>1, <1>3, <1>4
  <2>2. Overlay(b, data[i]) \in Seq(Byte) /\ Overlay(b, <<>>) = b
    BY <2>1, OverlayType
  <2>3. /\ data' \in Seq(Seq(Byte)) /\ Len(data') = Len(data)
        /\ data'[i] = Overlay(b, data[i])
        /\ \A j \in 1 .. Len(data) : j # i => data'[j] = data[j]
    BY <1>3, <1>4, <2>1, <2>2, SeqExcept
  <2>4. FileTypes'
    BY <1>2, <2>3 DEF TypesInv, FileTypes
  <2>5. QED BY <1>1, <1>2, <2>2, <2>3, <2>4 DEF i
<1>5. CASE i \notin 1 .. Len(data)
  <2>1. data' = data
    BY <1>1, <1>3, <1>5
  <2>2. FileTypes'
    BY <1>2, <2>1 DEF TypesInv, FileTypes
  <2>3. QED BY <1>2, <1>5, <2>1, <2>2 DEF i
<1>6. QED BY <1>4, <1>5

LEMMA FilesStep ==
    ASSUME TypesInv, NEW t \in Threads, Steps(t)
    PROVE  FileTypes'
<1>0. FileTypes
  BY DEF TypesInv
<1>1. CASE Quits(t)
  BY <1>0, <1>1 DEF Quits, fileVars, FileTypes
<1>2. ASSUME NEW n \in Names, NEW type \in Types, NEW c \in Contents, StartUpload(t, n, type, c)
      PROVE  FileTypes'
  BY <1>0, <1>2 DEF StartUpload, fileVars, FileTypes
<1>3. CASE Create(t)
  BY <1>3, CreateFile
<1>4. CASE Write(t) \/ WriteFails(t)
  BY <1>4, WriteFile
<1>5. CASE NewStorageInfo(t)
  BY <1>0, <1>5 DEF NewStorageInfo, LookAt, fileVars, FileTypes
<1>6. CASE Uploaded(t)
  <2>1. job[t].type \in Types /\ job[t].content \in Contents
    BY <1>6 DEF Uploaded, TypesInv, JobTypes, GoodJob, JobRecord, UpStages
  <2>2. /\ UNCHANGED <<disk, data, mixed>>
        /\ \E d \in {[type |-> job[t].type, content |-> job[t].content], Nothing} :
              promised' = [promised EXCEPT ![job[t].name] = d]
    BY <1>6 DEF Uploaded, fileVars
  <2>3. [type |-> job[t].type, content |-> job[t].content] \in [type : Types, content : Contents]
    BY <2>1
  <2>4. PICK d \in [type : Types, content : Contents] \cup {Nothing} :
           promised' = [promised EXCEPT ![job[t].name] = d]
    BY <2>2, <2>3
  <2>5. QED BY <1>0, <2>2, <2>4 DEF FileTypes
<1>7. ASSUME NEW n \in Names, Lookup(t, n) PROVE FileTypes'
  BY <1>0, <1>7 DEF Lookup, Find, fileVars, FileTypes
<1>8. CASE DownStep(t)
  <2>1. UNCHANGED <<data, promised, mixed>>
    BY <1>8 DEF DownStep
  <2>2. disk' = disk \/ \E p : disk' = [disk EXCEPT ![p] = 0]
    BY <1>8 DEF DownStep, Remove
  <2>3. 0 \in 0 .. Len(data)
    BY <1>0 DEF FileTypes
  <2>4. QED BY <1>0, <2>1, <2>2, <2>3 DEF FileTypes
<1>9. QED BY <1>1, <1>2, <1>3, <1>4, <1>5, <1>6, <1>7, <1>8 DEF Steps

-----------------------------------------------------------------------------
(* The records keep their types. *)

LEMMA NameKept ==
    ASSUME JobTypes, NEW t \in Threads, JobStep(t), job'[t].stage = "insert"
    PROVE  \A s \in Threads : job'[s].name = job[s].name
BY NoJobGood DEF JobStep, OthersSame, Becomes

LEMMA OthersName ==
    ASSUME JobTypes, NEW t \in Threads, OthersKeep(t)
    PROVE  \A s \in Threads \ {t} :
              /\ job'[s].name = job[s].name /\ job'[s].stage = job[s].stage
              /\ job'[s].type = job[s].type /\ job'[s].content = job[s].content
              /\ job'[s].info = job[s].info /\ job'[s].inode = job[s].inode
              /\ job'[s].size = job[s].size /\ (job'[s].clean => job[s].clean)
BY DEF JobTypes, GoodJob, JobRecord, OthersKeep

LEMMA RecordsSame ==
    ASSUME TypesInv, ApartInv', UNCHANGED <<arg, snap, table, file, toLoad, proc, pc>>,
           \A s \in Threads : job'[s].stage = "insert" => job'[s].name = job[s].name
    PROVE  RecordsInv'
<1>1. RecordsInv
  BY DEF TypesInv
<1>2. ASSUME NEW s \in Threads, pc[s] # "idle" PROVE arg[s].url \in {job'[s].name, NoUrl}
  <2>1. pc'[s] # "idle"
    BY <1>2
  <2>2. job'[s].stage = "insert"
    BY <2>1 DEF ApartInv
  <2>3. arg[s].url \in {job[s].name, NoUrl}
    BY <1>1, <1>2 DEF RecordsInv
  <2>4. QED BY <2>2, <2>3
<1>3. QED BY <1>1, <1>2 DEF RecordsInv, Store!Procs, Named

LEMMA RecordsJobs ==
    ASSUME TypesInv, ApartInv', UNCHANGED <<arg, snap, table, file, toLoad, proc, pc>>,
           NEW t \in Threads, OthersKeep(t), JobStep(t) \/ job'[t].stage # "insert"
    PROVE  RecordsInv'
<1>1. \A s \in Threads : job'[s].stage = "insert" => job'[s].name = job[s].name
  BY NameKept, OthersName DEF TypesInv
<1>2. QED BY <1>1, RecordsSame

LEMMA SameKeeps == ASSUME NEW t, OthersSame(t) PROVE OthersKeep(t)
BY DEF OthersSame, OthersKeep

LEMMA RecordsLook ==
    ASSUME TypesInv, ApartInv', NEW t \in Threads, NewStorageInfo(t)
    PROVE  /\ RecordsInv'
           /\ pc' = [pc EXCEPT ![t] = "insert"] /\ pc[t] = "idle" /\ proc = "up"
           /\ UNCHANGED <<snap, table, file, toLoad, proc>>
           /\ \A s \in Store!Procs \ {t} : arg'[s] = arg[s]
           /\ arg'[t] = IF disk[Target(t)] = 0 THEN [url |-> NoUrl, info |-> Raw]
                        ELSE [url |-> job[t].name,
                              info |-> [path |-> <<job[t].type, job[t].name>>,
                                        size |-> FileSize(Target(t))]]
           /\ solo' = [s \in Store!Procs |-> s = t /\ \A r \in Store!Procs : pc[r] = "idle"]
<1>1. /\ pc' = [pc EXCEPT ![t] = "insert"] /\ pc[t] = "idle"
      /\ UNCHANGED <<snap, table, file, toLoad, proc>> /\ proc = "up"
      /\ solo' = [s \in Store!Procs |-> s = t /\ \A r \in Store!Procs : pc[r] = "idle"]
  BY DEF NewStorageInfo, LookAt, Store!Upload, Store!StartInsert, Store!Idle
<1>2. t \in Store!Procs /\ DOMAIN arg = Store!Procs /\ DOMAIN pc = Store!Procs
  BY DEF Store!Procs, TypesInv, RecordsInv, ApartInv, Shape
<1> DEFINE u == IF disk[Target(t)] = 0 THEN NoUrl ELSE job[t].name
           i == IF disk[Target(t)] = 0 THEN Raw
                ELSE [path |-> <<job[t].type, job[t].name>>, size |-> FileSize(Target(t))]
<1>3. Target(t) = <<job[t].type, job[t].name>> /\ FileSize(Target(t)) \in Nat
      /\ job[t].name \in Names /\ job[t].type \in Types
  BY LookStep DEF TypesInv, JobTypes, GoodJob, JobRecord, UpStages
<1>4. arg' = [arg EXCEPT ![t] = [url |-> u, info |-> i]]
  BY <1>3 DEF NewStorageInfo, LookAt, Store!Upload, Store!StartInsert
<1>5. u \in {job[t].name, NoUrl} /\ (u \in Names => i \in RecordOf(u))
  BY <1>3, FileAssumption DEF RecordOf
<1>6. arg'[t] = IF disk[Target(t)] = 0 THEN [url |-> NoUrl, info |-> Raw]
                ELSE [url |-> job[t].name,
                      info |-> [path |-> <<job[t].type, job[t].name>>,
                                size |-> FileSize(Target(t))]]
  BY <1>2, <1>4
<1> HIDE DEF u, i
<1>7. DOMAIN arg' = Store!Procs /\ \A s \in Store!Procs \ {t} : arg'[s] = arg[s] /\ pc'[s] = pc[s]
  BY <1>1, <1>2, <1>4
<1>8. arg'[t].url = u /\ arg'[t].info = i
  BY <1>2, <1>4
<1>9. \A s \in Threads : job'[s].name = job[s].name
  BY LookStep, NameKept DEF TypesInv, Becomes
<1>10. RecordsInv'
  <2>1. RecordsInv
    BY DEF TypesInv
  <2>2. \A s \in Store!Procs : pc'[s] # "idle" =>
           /\ arg'[s].url \in Names \cup {NoUrl}
           /\ arg'[s].url \in Names => arg'[s].info \in RecordOf(arg'[s].url)
    BY <1>3, <1>5, <1>7, <1>8, <2>1 DEF RecordsInv
  <2>3. \A s \in Threads : pc'[s] # "idle" => arg'[s].url \in {job'[s].name, NoUrl}
    BY <1>5, <1>7, <1>8, <1>9, <2>1 DEF RecordsInv, Store!Procs
  <2>4. Named(table') /\ Named(file') /\ Named(toLoad') /\ \A s \in Store!Procs : Named(snap'[s])
    BY <1>1, <2>1 DEF RecordsInv, Named
  <2>5. proc' = "up" => DOMAIN toLoad' = {}
    BY <1>1, <2>1 DEF RecordsInv
  <2>6. DOMAIN snap' = Store!Procs
    BY <1>1, <2>1 DEF RecordsInv
  <2>7. QED BY <1>7, <2>2, <2>3, <2>4, <2>5, <2>6 DEF RecordsInv
<1>11. QED BY <1>1, <1>6, <1>7, <1>10

LEMMA PutNamed ==
    ASSUME NEW T, Named(T), NEW u \in Names \cup {NoUrl}, NEW i,
           u \in Names => i \in RecordOf(u)
    PROVE  /\ Named(Store!Put(T, u, i)) /\ Store!Put(T, u, i)[u] = i
           /\ DOMAIN Store!Put(T, u, i) = DOMAIN T \cup {u}
           /\ \A v \in DOMAIN T : v # u => Store!Put(T, u, i)[v] = T[v]
BY DEF Named, Store!Put

LEMMA OnlyNamed ==
    ASSUME NEW T, Named(T), NEW D \in SUBSET DOMAIN T
    PROVE  Named(Store!Only(T, D))
BY DEF Named, Store!Only

LEMMA NoneNamed == Named(Store!NoRecords) /\ DOMAIN Store!NoRecords = {}
BY DEF Named, Store!NoRecords

(* Where a step of Insert may go. *)
LEMMA InsertStep ==
    ASSUME TypesInv, NEW t \in Store!Procs, Store!Insert(t)
    PROVE  /\ UNCHANGED <<proc, toLoad>>
           /\ pc[t] # "idle"
           /\ \A s \in Store!Procs \ {t} : pc'[s] = pc[s] /\ arg'[s] = arg[s] /\ snap'[s] = snap[s]
           /\ DOMAIN arg' = Store!Procs /\ DOMAIN snap' = Store!Procs
           /\ \/ /\ pc[t] = "insert" /\ pc'[t] = "getall"
                 /\ table' = Store!Put(table, arg[t].url, arg[t].info)
                 /\ UNCHANGED <<file, arg, snap>>
              \/ /\ pc[t] = "getall" /\ pc'[t] = "open" /\ snap'[t] = table
                 /\ UNCHANGED <<table, file, arg>>
              \/ /\ pc[t] = "open" /\ pc'[t] = "write" /\ file' = Store!NoRecords
                 /\ UNCHANGED <<table, arg, snap>>
              \/ /\ pc[t] = "open" /\ StoreFaults /\ pc'[t] = "idle"
                 /\ snap'[t] = Store!NoRecords /\ UNCHANGED <<table, file>>
              \/ /\ pc[t] = "write" /\ pc'[t] = "idle" /\ snap'[t] = Store!NoRecords
                 /\ UNCHANGED table
                 /\ \/ file' = snap[t]
                    \/ /\ StoreFaults
                       /\ \E D \in SUBSET DOMAIN snap[t] :
                             \/ file' = Store!Only(snap[t], D)
                             \/ file' = Store!Put(Store!Only(snap[t], D), NoUrl, Torn)
<1>0. DOMAIN pc = Store!Procs /\ DOMAIN arg = Store!Procs /\ DOMAIN snap = Store!Procs
  BY DEF TypesInv, ApartInv, Shape, RecordsInv
<1>1. CASE Store!InsertRecord(t)
  BY <1>0, <1>1 DEF Store!InsertRecord
<1>2. CASE Store!StorageGetAll(t)
  BY <1>0, <1>2 DEF Store!StorageGetAll
<1>3. CASE Store!OpenFile(t)
  BY <1>0, <1>3 DEF Store!OpenFile
<1>4. CASE Store!OpenFails(t)
  BY <1>0, <1>4 DEF Store!OpenFails, Store!Return
<1>5. CASE Store!WriteFile(t)
  BY <1>0, <1>5 DEF Store!WriteFile, Store!Return
<1>6. CASE Store!WriteFails(t)
  BY <1>0, <1>6 DEF Store!WriteFails, Store!Return
<1>7. QED BY <1>1, <1>2, <1>3, <1>4, <1>5, <1>6 DEF Store!Insert

LEMMA RecordsInsert ==
    ASSUME TypesInv, NEW t \in Store!Procs, Insert(t)
    PROVE  RecordsInv'
<1>1. Store!Insert(t) /\ UNCHANGED job
  BY DEF Insert
<1>2. RecordsInv
  BY DEF TypesInv
<1>3. Named(table) /\ Named(file) /\ Named(toLoad) /\ \A s \in Store!Procs : Named(snap[s])
  BY <1>2 DEF RecordsInv
<1>4. /\ pc[t] # "idle" /\ arg[t].url \in Names \cup {NoUrl}
      /\ arg[t].url \in Names => arg[t].info \in RecordOf(arg[t].url)
  BY <1>1, <1>2, InsertStep DEF RecordsInv
<1>5. Named(table')
  <2>1. Named(Store!Put(table, arg[t].url, arg[t].info))
    BY <1>3, <1>4, PutNamed
  <2>2. table' = table \/ table' = Store!Put(table, arg[t].url, arg[t].info)
    BY <1>1, InsertStep
  <2>3. QED BY <1>3, <2>1, <2>2
<1>6. Named(snap'[t])
  BY <1>1, <1>3, InsertStep, NoneNamed
<1>7. Named(file')
  <2>1. ASSUME NEW D \in SUBSET DOMAIN snap[t]
        PROVE  /\ Named(Store!Only(snap[t], D))
               /\ Named(Store!Put(Store!Only(snap[t], D), NoUrl, Torn))
    <3>1. Named(Store!Only(snap[t], D))
      BY <1>3, OnlyNamed
    <3>2. NoUrl \in Names \cup {NoUrl} /\ NoUrl \notin Names
      BY FileAssumption
    <3>3. QED BY <3>1, <3>2, PutNamed
  <2>2. QED BY <1>1, <1>3, <2>1, InsertStep, NoneNamed
<1>8. pc'[t] # "idle" => arg'[t] = arg[t]
  BY <1>1, InsertStep
<1>9. \A s \in Store!Procs :
         /\ Named(snap'[s])
         /\ pc'[s] # "idle" => pc[s] # "idle" /\ arg'[s] = arg[s]
  BY <1>1, <1>3, <1>4, <1>6, <1>8, InsertStep
<1>10. UNCHANGED <<proc, toLoad>> /\ DOMAIN arg' = Store!Procs /\ DOMAIN snap' = Store!Procs
  BY <1>1, InsertStep
<1>11. \A s \in Threads : s \in Store!Procs
  BY DEF Store!Procs
<1>12. QED
  BY <1>1, <1>2, <1>3, <1>5, <1>7, <1>9, <1>10, <1>11 DEF RecordsInv

LEMMA RecordsDie ==
    ASSUME TypesInv, Store!Die, ApartInv'
    PROVE  RecordsInv'
BY NoneNamed DEF Store!Die, TypesInv, RecordsInv, Store!Procs

LEMMA RecordsStart ==
    ASSUME TypesInv, ApartInv', Start
    PROVE  RecordsInv'
<1>0. RecordsInv /\ DOMAIN pc = Store!Procs /\ Main \in Store!Procs /\ Threads \subseteq Store!Procs
  BY DEF TypesInv, ApartInv, Shape, Store!Procs
<1>1. ASSUME NEW u \in Names \cup {NoUrl}, Store!Load(u) PROVE RecordsInv'
  <2>1. /\ arg' = [arg EXCEPT ![Main] = [url |-> u, info |-> toLoad[u]]]
        /\ pc' = [pc EXCEPT ![Main] = "insert"]
        /\ UNCHANGED <<table, file, snap, proc>> /\ proc = "loading" /\ u \in DOMAIN toLoad
        /\ toLoad' = Store!Only(toLoad, DOMAIN toLoad \ {u})
    BY <1>1 DEF Store!Load, Store!StartInsert
  <2>2. Named(toLoad')
    BY <1>0, <2>1, OnlyNamed DEF RecordsInv
  <2>3. u \in Names => toLoad[u] \in RecordOf(u)
    BY <1>0, <2>1 DEF RecordsInv, Named
  <2>4. /\ arg'[Main].url = u /\ arg'[Main].info = toLoad[u] /\ DOMAIN arg' = Store!Procs
        /\ \A s \in Store!Procs \ {Main} : arg'[s] = arg[s] /\ pc'[s] = pc[s]
    BY <1>0, <2>1 DEF RecordsInv
  <2>5. UNCHANGED job
    BY DEF Start
  <2>6. \A s \in Threads : s # Main
    BY FileAssumption
  <2>7. \A s \in Threads : pc'[s] # "idle" => arg'[s].url \in {job'[s].name, NoUrl}
    BY <1>0, <2>4, <2>5, <2>6 DEF RecordsInv
  <2>8. \A s \in Store!Procs : pc'[s] # "idle" =>
           /\ arg'[s].url \in Names \cup {NoUrl}
           /\ arg'[s].url \in Names => arg'[s].info \in RecordOf(arg'[s].url)
    BY <1>0, <2>3, <2>4 DEF RecordsInv
  <2>9. QED BY <1>0, <2>1, <2>2, <2>4, <2>7, <2>8 DEF RecordsInv
<1>2. ASSUME NEW u, Store!LoadThrows(u) PROVE RecordsInv'
  BY <1>2, RecordsDie DEF Store!LoadThrows
<1>3. CASE Store!LoadDone
  BY <1>0, <1>3 DEF Start, Store!LoadDone, Store!tvars, RecordsInv
<1>4. CASE Store!Restart
  BY <1>0, <1>4, NoneNamed DEF Start, Store!Restart, Store!tvars, RecordsInv
<1>5. QED BY <1>1, <1>2, <1>3, <1>4 DEF Start

LEMMA RecordsStep ==
    ASSUME TypesInv, ApartInv', NEW t \in Threads, Steps(t)
    PROVE  RecordsInv'
<1>1. CASE Quits(t)
  BY <1>1, RecordsJobs, SameKeeps DEF Quits, tableVars, JobStep
<1>2. ASSUME NEW n \in Names, NEW type \in Types, NEW c \in Contents, StartUpload(t, n, type, c)
      PROVE  RecordsInv'
  <2>1. OthersKeep(t) /\ job'[t].stage = "create"
    BY <1>2, StartStep
  <2>2. QED BY <1>2, <2>1, RecordsJobs DEF StartUpload, storeVars
<1>3. CASE Create(t)
  BY <1>3, CreateStep, SameKeeps, RecordsJobs DEF Create, OpenFor, storeVars
<1>4. CASE Write(t) \/ WriteFails(t)
  BY <1>4, WriteStep, SameKeeps, RecordsJobs DEF Write, WriteFails, storeVars
<1>5. CASE NewStorageInfo(t)
  BY <1>5, RecordsLook
<1>6. CASE Uploaded(t)
  <2>1. JobStep(t) /\ UNCHANGED storeVars
    BY <1>6, EndStep DEF Uploaded, Ends, TypesInv
  <2>2. QED BY <2>1, RecordsJobs, SameKeeps DEF JobStep, storeVars
<1>7. ASSUME NEW n \in Names, Lookup(t, n), n \in DOMAIN table PROVE RecordsInv'
  <2>1. OthersKeep(t) /\ (JobStep(t) \/ job'[t].stage = "exists")
    BY <1>7, FindStep
  <2>2. UNCHANGED <<arg, snap, table, file, toLoad, proc, pc>>
    BY <1>7 DEF Lookup, Find, Store!GetOneByURL
  <2>3. QED BY <2>1, <2>2, RecordsJobs
<1>8. CASE DownStep(t)
  <2>1. JobStep(t) /\ UNCHANGED storeVars
    BY <1>8 DEF DownStep, JobStep, DownStages
  <2>2. QED BY <2>1, RecordsJobs, SameKeeps DEF JobStep, storeVars
<1>9. QED BY <1>1, <1>2, <1>3, <1>4, <1>5, <1>6, <1>7, <1>8 DEF Steps

(* Of a step that withdraws promises, none made. *)
LEMMA Withdraws ==
    ASSUME FileTypes, KeepPromises
    PROVE  /\ promised' \in [Names -> [type : Types, content : Contents] \cup {Nothing}]
           /\ \A n \in Names : /\ promised'[n] \in {promised[n], Nothing}
                               /\ promised'[n] # Nothing => n \in DOMAIN kept'
BY DEF FileTypes, KeepPromises

LEMMA TypesInit == Init => TypesInv
<1> SUFFICES ASSUME Init PROVE TypesInv
  OBVIOUS
<1>1. ApartInv
  BY ApartInit
<1>2. JobTypes
  BY NoJobGood DEF Init, JobTypes
<1>3. RecordsInv
  BY NoneNamed DEF Init, Store!Init, RecordsInv, Store!Procs
<1>4. FileTypes
  BY DEF Init, FileTypes
<1>5. QED BY <1>1, <1>2, <1>3, <1>4 DEF TypesInv

LEMMA TypesStep == TypesInv /\ [Next]_vars => TypesInv'
<1> SUFFICES ASSUME TypesInv, [Next]_vars PROVE TypesInv'
  OBVIOUS
<1>1. ApartInv' /\ JobTypes /\ FileTypes /\ RecordsInv
  BY ApartStep DEF TypesInv
<1>2. ASSUME NEW t \in Threads, Steps(t) PROVE TypesInv'
  BY <1>1, <1>2, JobsStep, RecordsStep, FilesStep DEF TypesInv
<1>3. ASSUME UNCHANGED <<fileVars, mixed>>, KeepPromises \/ UNCHANGED promised
      PROVE  FileTypes'
  BY <1>1, <1>3, Withdraws DEF FileTypes, fileVars
<1>4. ASSUME NEW t \in Threads \cup {Main}, Insert(t) PROVE TypesInv'
  <2>1. t \in Store!Procs /\ UNCHANGED <<job, fileVars, mixed>> /\ KeepPromises
    BY <1>4 DEF Insert, Store!Procs
  <2>2. QED BY <1>1, <1>3, <1>4, <2>1, RecordsInsert DEF TypesInv, JobTypes
<1>5. CASE Start
  BY <1>1, <1>3, <1>5, RecordsStart DEF Start, TypesInv, JobTypes
<1>6. CASE Crash
  <2>1. JobTypes'
    BY <1>6, NoJobGood DEF Crash, JobTypes
  <2>2. FileTypes'
    BY <1>3, <1>6 DEF Crash
  <2>3. RecordsInv'
    BY <1>1, <1>6, RecordsDie DEF Crash, Store!Crash
  <2>4. QED BY <1>1, <2>1, <2>2, <2>3 DEF TypesInv
<1>7. CASE UNCHANGED vars
  <2>1. RecordsInv'
    BY <1>1, <1>7, RecordsSame DEF vars, storeVars
  <2>2. QED BY <1>1, <1>3, <1>7, <2>1 DEF vars, TypesInv, JobTypes
<1>8. QED BY <1>2, <1>4, <1>5, <1>6, <1>7, StepKinds

-----------------------------------------------------------------------------
(* Inodes: a job with a file open has the inode of its own path, or one     *)
(* that no path leads to any more.                                          *)

Closed == {"idle", "create", "exists", "open"}

Place(j) == IF j.stage \in UpStages THEN <<j.type, j.name>> ELSE <<"low", j.name>>

InodeInv ==
    /\ \A t \in Threads : job[t].inode \in 0 .. Len(data)
    /\ \A t \in Threads : job[t].inode = 0 <=> job[t].stage \in Closed
    /\ \A p, q \in Paths : disk[p] = disk[q] /\ disk[p] # 0 => p = q
    /\ \A t \in Threads, p \in Paths :
          job[t].inode # 0 /\ disk[p] = job[t].inode => p = Place(job[t])
    /\ \A s, t \in Threads :
          job[s].inode = job[t].inode /\ job[s].inode # 0 => Place(job[s]) = Place(job[t])

FilesInv == TypesInv /\ InodeInv

LEMMA PlaceTarget == \A t \in Threads : Target(t) = Place(job[t])
BY DEF Target, Place, Uploading, UpStages

(* A job keeps its file, or has none. *)
Stays(j, k) ==
    \/ k.inode = 0 /\ k.stage \in Closed
    \/ /\ k.inode = j.inode /\ (k.stage \in Closed <=> j.stage \in Closed)
       /\ Place(k) = Place(j)

LEMMA InodeSame ==
    ASSUME InodeInv, Len(data') = Len(data),
           \A p \in Paths : disk'[p] \in {disk[p], 0},
           \A s \in Threads : Stays(job[s], job'[s])
    PROVE  InodeInv'
BY DEF InodeInv, Stays

LEMMA OpenInode ==
    ASSUME FilesInv, NEW t \in Threads, job[t].stage \notin Closed
    PROVE  job[t].inode \in 1 .. Len(data) /\ data[job[t].inode] \in Seq(Byte)
<1>1. data \in Seq(Seq(Byte)) /\ Len(data) \in Nat
  BY DEF FilesInv, TypesInv, FileTypes
<1>2. job[t].inode \in 0 .. Len(data) /\ job[t].inode # 0
  BY DEF FilesInv, InodeInv
<1>3. job[t].inode \in 1 .. Len(data)
  BY <1>1, <1>2
<1>4. QED BY <1>1, <1>3

LEMMA StaysPut ==
    /\ \A j : Stays(j, j)
    /\ \A j : Stays(j, NoJob)
    /\ \A j, k : \A K \in {UpStages, DownStages} : \A g \in K :
          /\ Becomes(j, k, g) /\ j.stage \in K /\ k.inode = j.inode
          /\ (g \in Closed <=> j.stage \in Closed)
          => Stays(j, k)
<1>1. \A j : Stays(j, j) /\ Stays(j, NoJob)
  BY NoJobGood DEF Stays, Closed
<1>2. ASSUME NEW j, NEW k, NEW K \in {UpStages, DownStages}, NEW g \in K,
             Becomes(j, k, g), j.stage \in K, k.inode = j.inode,
             g \in Closed <=> j.stage \in Closed
      PROVE  Stays(j, k)
  <2>1. Place(k) = Place(j)
    BY <1>2 DEF Place, Becomes, UpStages, DownStages
  <2>2. QED BY <1>2, <2>1 DEF Stays, Becomes
<1>3. QED BY <1>1, <1>2

LEMMA OthersStay ==
    ASSUME JobTypes, NEW t \in Threads, OthersKeep(t)
    PROVE  \A s \in Threads \ {t} : Stays(job[s], job'[s])
BY OthersName DEF Stays, Place

LEMMA InodeCreate ==
    ASSUME FilesInv, NEW t \in Threads, Create(t)
    PROVE  InodeInv'
<1> DEFINE p == Target(t)
           i == disk'[p]
<1>1. /\ p \in Paths /\ i = job'[t].inode /\ i \in 1 .. Len(data')
      /\ \A q \in Paths \ {p} : disk'[q] = disk[q]
      /\ disk[p] = 0 => i = Len(data) + 1
      /\ disk[p] # 0 => i = disk[p]
      /\ Len(data') >= Len(data)
  BY CreateFile DEF FilesInv
<1>2. /\ job[t].stage = "create" /\ job'[t].stage = "write"
      /\ job'[t].name = job[t].name /\ job'[t].type = job[t].type
      /\ \A s \in Threads \ {t} : job'[s] = job[s]
  BY CreateStep DEF FilesInv, OthersSame, Becomes
<1>3. Place(job'[t]) = p
  BY <1>2, PlaceTarget DEF Place, UpStages
<1>4. Len(data) \in Nat /\ Len(data') \in Nat /\ \A q \in Paths : disk[q] \in 0 .. Len(data)
  BY CreateFile DEF FilesInv, TypesInv, FileTypes
<1> HIDE DEF p, i
<1>5. InodeInv
  BY DEF FilesInv
<1>6. disk'[p] = i /\ i # 0
  BY <1>1 DEF i
<1>7. \A q \in Paths : disk'[q] = i => q = p
  BY <1>1, <1>4, <1>5 DEF InodeInv
<1>8. \A s \in Threads \ {t} : job[s].inode = i => Place(job[s]) = p
  BY <1>1, <1>4, <1>5, <1>6 DEF InodeInv
<1>9. \A s \in Threads : job'[s].inode \in 0 .. Len(data')
  BY <1>1, <1>2, <1>4, <1>5 DEF InodeInv
<1>10. \A s \in Threads : job'[s].inode = 0 <=> job'[s].stage \in Closed
  BY <1>1, <1>2, <1>5, <1>6 DEF InodeInv, Closed
<1>11. \A q, r \in Paths : disk'[q] = disk'[r] /\ disk'[q] # 0 => q = r
  BY <1>1, <1>5, <1>6, <1>7 DEF InodeInv
<1>12. \A s \in Threads, q \in Paths :
          job'[s].inode # 0 /\ disk'[q] = job'[s].inode => q = Place(job'[s])
  BY <1>1, <1>2, <1>3, <1>5, <1>6, <1>7, <1>8 DEF InodeInv
<1>13. \A r, s \in Threads :
          job'[r].inode = job'[s].inode /\ job'[r].inode # 0 => Place(job'[r]) = Place(job'[s])
  BY <1>1, <1>2, <1>3, <1>5, <1>8 DEF InodeInv
<1>14. QED BY <1>9, <1>10, <1>11, <1>12, <1>13 DEF InodeInv

LEMMA InodeSteps ==
    ASSUME FilesInv, NEW t \in Threads, Steps(t)
    PROVE  InodeInv'
<1>0. InodeInv /\ JobTypes /\ TypesInv
  BY DEF FilesInv, TypesInv
<1>1. ASSUME OthersKeep(t), Stays(job[t], job'[t]), UNCHANGED <<disk, data>>
      PROVE  InodeInv'
  BY <1>0, <1>1, OthersStay, InodeSame
<1>2. CASE Quits(t)
  BY <1>1, <1>2, StaysPut, SameKeeps DEF Quits, JobStep, fileVars
<1>3. ASSUME NEW n \in Names, NEW type \in Types, NEW c \in Contents, StartUpload(t, n, type, c)
      PROVE  InodeInv'
  <2>1. OthersKeep(t) /\ Stays(job[t], job'[t])
    BY <1>0, <1>3, StartStep DEF Stays, Closed
  <2>2. QED BY <1>1, <1>3, <2>1 DEF StartUpload, fileVars
<1>4. CASE Create(t)
  BY <1>4, InodeCreate
<1>5. CASE Write(t) \/ WriteFails(t)
  <2>1. \A s \in Threads : Stays(job[s], job'[s])
    <3>1. OthersSame(t) /\ Stays(job[t], job'[t])
      BY <1>0, <1>5, WriteStep, StaysPut DEF UpStages, Closed
    <3>2. QED BY <3>1, StaysPut DEF OthersSame
  <2>2. Len(data') = Len(data) /\ UNCHANGED disk
    BY <1>0, <1>5, WriteFile
  <2>3. QED BY <1>0, <2>1, <2>2, InodeSame
<1>6. CASE NewStorageInfo(t)
  <2>1. OthersSame(t) /\ Stays(job[t], job'[t])
    BY <1>0, <1>6, LookStep, StaysPut DEF UpStages, Closed
  <2>2. QED BY <1>1, <1>6, <2>1, SameKeeps DEF NewStorageInfo, LookAt, fileVars
<1>7. CASE Uploaded(t)
  <2>1. JobStep(t) /\ job'[t] = NoJob
    BY <1>0, <1>7, EndStep DEF Uploaded, Ends, TypesInv
  <2>2. QED BY <1>1, <1>7, <2>1, StaysPut, SameKeeps DEF JobStep, Uploaded, fileVars
<1>8. ASSUME NEW n \in Names, Lookup(t, n) PROVE InodeInv'
  <2>1. OthersKeep(t) /\ Stays(job[t], job'[t])
    BY <1>0, <1>8, FindStep, StaysPut DEF Stays, Closed
  <2>2. QED BY <1>1, <1>8, <2>1 DEF Lookup, Find, fileVars
<1>9. CASE DownStep(t)
  <2>1. CASE job[t].stage = "open" /\ Becomes(job[t], job'[t], "size")
    <3>1. /\ job'[t].inode = disk[Target(t)] /\ disk[Target(t)] # 0 /\ UNCHANGED <<disk, data>>
          /\ job'[t].stage = "size" /\ job'[t].name = job[t].name
          /\ \A s \in Threads \ {t} : job'[s] = job[s]
      BY <1>9, <2>1, NoJobGood DEF DownStep, Becomes, OthersSame, Remove
    <3>2. Place(job'[t]) = Target(t) /\ Target(t) \in Paths
      BY <1>0, <2>1, <3>1, PlaceTarget
      DEF Place, UpStages, DownStages, JobTypes, GoodJob, Paths, Types
    <3>3. disk[Target(t)] \in 0 .. Len(data)
      BY <1>0, <3>2 DEF TypesInv, FileTypes
    <3>4. QED BY <1>0, <3>1, <3>2, <3>3 DEF InodeInv, Closed
  <2>2. CASE ~(job[t].stage = "open" /\ Becomes(job[t], job'[t], "size"))
    <3>1. Stays(job[t], job'[t])
      BY <1>9, <2>2, StaysPut DEF DownStep, DownStages, Closed
    <3>2. \A s \in Threads : Stays(job[s], job'[s])
      BY <1>9, <3>1, StaysPut DEF DownStep, OthersSame
    <3>3. UNCHANGED data /\ (UNCHANGED disk \/ \E p : disk' = [disk EXCEPT ![p] = 0])
      BY <1>9 DEF DownStep, Remove
    <3>4. \A p \in Paths : disk'[p] \in {disk[p], 0}
      BY <1>0, <3>3 DEF TypesInv, FileTypes
    <3>5. QED BY <1>0, <3>2, <3>3, <3>4, InodeSame
  <2>3. QED BY <2>1, <2>2
<1>10. QED BY <1>2, <1>3, <1>4, <1>5, <1>6, <1>7, <1>8, <1>9 DEF Steps

LEMMA FilesInvInit == Init => FilesInv
<1> SUFFICES ASSUME Init PROVE FilesInv
  OBVIOUS
<1>1. /\ \A t \in Threads : job[t].inode = 0 /\ job[t].stage = "idle"
      /\ \A p \in Paths : disk[p] = 0
  BY NoJobGood DEF Init
<1>2. data = <<>>
  BY DEF Init
<1>3. QED BY <1>1, <1>2, TypesInit DEF FilesInv, InodeInv, Closed

LEMMA FilesInvStep == FilesInv /\ [Next]_vars => FilesInv'
<1> SUFFICES ASSUME FilesInv, [Next]_vars PROVE FilesInv'
  OBVIOUS
<1>1. TypesInv' /\ TypesInv /\ InodeInv
  BY TypesStep DEF FilesInv
<1>2. ASSUME UNCHANGED <<job, disk, data>> PROVE InodeInv'
  BY <1>1, <1>2 DEF InodeInv
<1>3. CASE Crash
  <2>1. \A s \in Threads : Stays(job[s], job'[s])
    BY <1>3, StaysPut DEF Crash
  <2>2. QED BY <1>1, <1>3, <2>1, InodeSame DEF Crash, fileVars, FilesInv
<1>4. QED
  BY <1>1, <1>2, <1>3, StepKinds, InodeSteps
  DEF FilesInv, Insert, Start, vars, fileVars

-----------------------------------------------------------------------------
(* Answers *)

(* The download of a name that the table does not have. *)
Missed(n) ==
    [NoJob EXCEPT !.name = n,
                  !.clean = {s \in Threads : Uploading(s) /\ job[s].name = n} = {}]

(* What a step may have thread t answer. *)
Replies(t) ==
    \/ reply'[t] = reply[t]
    \/ \E status \in {"none", "ok", "error", "not found"} : reply'[t] = Plain(status)
    \/ Read(t) /\ reply'[t] = Answer(job[t], "ok", Got(job[t]), job[t].info.size)
    \/ /\ reply'[t] = Answer(job[t], "not found", <<>>, 0)
       /\ \/ job[t].stage \in {"exists", "open"} /\ disk[Target(t)] = 0
          \/ job[t].stage = "size" /\ FileSize(Target(t)) = 0
    \/ \E n \in Names : /\ Lookup(t, n) /\ n \notin DOMAIN table
                        /\ reply'[t] = Answer(Missed(n), "not found", <<>>, 0)

LEMMA AnswerIs ==
    \A j, status, body, etag : LET r == Answer(j, status, body, etag) IN
        /\ r.name = j.name /\ r.body = body /\ r.status = status /\ r.etag = etag
        /\ r.due = IF j.clean THEN promised[j.name] ELSE Nothing
BY DEF Answer

LEMMA ReplyStep ==
    ASSUME DOMAIN reply = Threads, [Next]_vars
    PROVE  DOMAIN reply' = Threads /\ \A t \in Threads : Replies(t)
<1>1. ASSUME NEW t \in Threads,
             \/ reply' = reply
             \/ \E r : reply' = [reply EXCEPT ![t] = r] /\ (reply'[t] = r => Replies(t))
      PROVE  DOMAIN reply' = Threads /\ \A s \in Threads : Replies(s)
  BY <1>1 DEF Replies
<1> DEFINE Gives(t) ==
               \E r : reply' = [reply EXCEPT ![t] = r] /\ (reply'[t] = r => Replies(t))
<1>2. ASSUME NEW t \in Threads, NEW status \in {"none", "ok", "error", "not found"},
             reply' = [reply EXCEPT ![t] = Plain(status)]
      PROVE  Gives(t)
  BY <1>2 DEF Replies
<1>3. ASSUME NEW t \in Threads,
             reply' = [reply EXCEPT ![t] = Answer(job[t], "not found", <<>>, 0)],
             \/ job[t].stage \in {"exists", "open"} /\ disk[Target(t)] = 0
             \/ job[t].stage = "size" /\ FileSize(Target(t)) = 0
      PROVE  Gives(t)
  BY <1>3 DEF Replies
<1>4. ASSUME NEW t \in Threads, Read(t) PROVE Gives(t)
  <2>1. reply' = [reply EXCEPT ![t] = Answer(job[t], "ok", Got(job[t]), job[t].info.size)]
    BY <1>4 DEF Read, Send
  <2>2. QED BY <1>4, <2>1 DEF Replies
<1>4a. ASSUME NEW t \in Threads, NEW n \in Names, Lookup(t, n) PROVE Gives(t)
  <2>1. CASE n \in DOMAIN table
    BY <1>2, <1>4a, <2>1 DEF Lookup, Find
  <2>2. CASE n \notin DOMAIN table
    <3>1. reply' = [reply EXCEPT ![t] = Answer(Missed(n), "not found", <<>>, 0)]
      BY <1>4a, <2>2 DEF Lookup, Find, Ends, Missed
    <3>2. QED BY <1>4a, <2>2, <3>1 DEF Replies
  <2>3. QED BY <2>1, <2>2
<1> HIDE DEF Gives
<1>5. ASSUME NEW t \in Threads, Upload(t) PROVE reply' = reply \/ Gives(t)
  BY <1>2, <1>5
  DEF Upload, Refuse, StartUpload, Create, OpenFor, CreateFails, Write, WriteFails,
      NewStorageInfo, LookAt, Uploaded, Ends
<1>6. ASSUME NEW t \in Threads, Download(t) PROVE reply' = reply \/ Gives(t)
  BY <1>2, <1>3, <1>4, <1>6, <1>4a
  DEF Download, Exists, Open, CheckSize, Allocate, ReadFails, Remove, Ends, Absent
<1>7. ASSUME NEW t \in Threads, ListShow(t) PROVE reply' = reply \/ Gives(t)
  BY <1>2, <1>7 DEF ListShow, Ends
<1>8. CASE \E t \in Threads : Upload(t) \/ Download(t) \/ ListShow(t)
  BY <1>1, <1>5, <1>6, <1>7, <1>8 DEF Gives
<1>9. CASE reply' = reply
  BY <1>9 DEF Replies
<1>10. CASE Crash
  BY <1>10 DEF Crash, Replies
<1>11. QED
  BY <1>8, <1>9, <1>10 DEF Next, Insert, Start, vars

-----------------------------------------------------------------------------
(* A file of the low storage holds a part of one upload. *)

PartOf(d) == \E c \in Contents : Len(d) <= Size[c] /\ d = SubSeq(Written(c), 1, Len(d))

Low(n) == <<"low", n>>

Alone == \A s, t \in Threads :
            /\ job[s].stage \in UpStages /\ job[t].stage \in UpStages
            /\ job[s].name = job[t].name /\ s # t
            => job[t].name \in mixed

PartInv ==
    /\ Alone
    /\ \A n \in Names : n \notin mixed /\ disk[Low(n)] # 0 => PartOf(data[disk[Low(n)]])
    /\ \A t \in Threads : job[t].name \notin mixed =>
          /\ job[t].stage = "write" => data[job[t].inode] = <<>>
          /\ job[t].stage \in {"size", "buffer", "read"} => PartOf(data[job[t].inode])

RepliesInv == /\ DOMAIN reply = Threads
              /\ \A t \in Threads : reply[t].name \notin mixed => PartOf(reply[t].body)

PartsInv == FilesInv /\ mixed \subseteq Names /\ PartInv /\ RepliesInv

LEMMA PartWritten ==
    ASSUME NEW c \in Contents, NEW k \in 0 .. Size[c]
    PROVE  PartOf(SubSeq(Written(c), 1, k))
<1>1. k \in 0 .. Len(Written(c)) /\ Written(c) \in Seq(Byte)
  BY WrittenType
<1>2. Len(SubSeq(Written(c), 1, k)) = k
  BY <1>1, CutType
<1>3. k <= Size[c]
  BY WrittenType
<1>4. QED BY <1>2, <1>3 DEF PartOf

LEMMA PartEmpty == PartOf(<<>>)
<1>1. PICK c \in Contents : TRUE
  BY FileAssumption
<1>2. 0 \in 0 .. Size[c] /\ Written(c) \in Seq(Byte)
  BY WrittenType
<1>3. SubSeq(Written(c), 1, 0) = <<>>
  BY <1>2
<1>4. QED BY <1>2, <1>3, PartWritten

LEMMA CutTwice ==
    ASSUME NEW S, NEW q \in Seq(S), NEW m \in 0 .. Len(q), NEW k \in 0 .. m
    PROVE  SubSeq(SubSeq(q, 1, m), 1, k) = SubSeq(q, 1, k)
OBVIOUS

LEMMA PartCut ==
    ASSUME NEW d \in Seq(Byte), PartOf(d), NEW k \in 0 .. Len(d)
    PROVE  PartOf(SubSeq(d, 1, k))
<1>1. PICK c \in Contents : Len(d) <= Size[c] /\ d = SubSeq(Written(c), 1, Len(d))
  BY DEF PartOf
<1>2. Len(d) \in 0 .. Len(Written(c)) /\ Written(c) \in Seq(Byte) /\ k \in 0 .. Size[c]
  BY <1>1, WrittenType
<1>3. SubSeq(d, 1, k) = SubSeq(Written(c), 1, k)
  BY <1>1, <1>2, CutTwice
<1>4. QED BY <1>2, <1>3, PartWritten

(* Each inode is as it was, or in the hand of nobody new. *)
LEMMA PartSame ==
    ASSUME PartInv, FilesInv, mixed \subseteq mixed', Alone',
           \A p \in Paths : disk'[p] \in {disk[p], 0},
           UNCHANGED data,
           \A s \in Threads :
              \/ job'[s].stage \notin {"write", "size", "buffer", "read"}
              \/ /\ job'[s].name = job[s].name /\ job'[s].inode = job[s].inode
                 /\ job'[s].stage = job[s].stage
              \/ /\ job'[s].name = job[s].name /\ job'[s].inode = job[s].inode
                 /\ job[s].stage \in {"size", "buffer", "read"}
                 /\ job'[s].stage \in {"size", "buffer", "read"}
    PROVE  PartInv'
<1>1. \A n \in Names : Low(n) \in Paths
  BY DEF Low, Paths, Types
<1>2. \A n \in Names : n \notin mixed' /\ disk'[Low(n)] # 0 => PartOf(data'[disk'[Low(n)]])
  BY <1>1 DEF PartInv
<1>3. ASSUME NEW s \in Threads, job'[s].name \notin mixed'
      PROVE  /\ job'[s].stage = "write" => data'[job'[s].inode] = <<>>
             /\ job'[s].stage \in {"size", "buffer", "read"} => PartOf(data'[job'[s].inode])
  BY <1>3 DEF PartInv
<1>4. QED BY <1>2, <1>3 DEF PartInv

LEMMA AloneSame ==
    ASSUME Alone, mixed \subseteq mixed',
           \A s \in Threads : job'[s].stage \in UpStages =>
              job[s].stage \in UpStages /\ job'[s].name = job[s].name
    PROVE  Alone'
BY DEF Alone

LEMMA MixedGrows ==
    ASSUME [Next]_vars, mixed \subseteq Names
    PROVE  mixed \subseteq mixed' /\ mixed' \subseteq Names
<1>1. mixed' = mixed \/ \E n \in Names : mixed' = mixed \cup {n}
  <2>1. ASSUME NEW t \in Threads, Upload(t) PROVE <1>1
    BY <2>1
    DEF Upload, Refuse, StartUpload, Create, OpenFor, CreateFails, Write, WriteFails,
        NewStorageInfo, LookAt, Uploaded
  <2>2. ASSUME NEW t \in Threads, Download(t) \/ ListShow(t) PROVE <1>1
    BY <2>2
    DEF Download, Lookup, Find, Exists, Open, CheckSize, Allocate, Read, Send, ReadFails,
        Remove, ListShow
  <2>3. QED BY <2>1, <2>2 DEF Next, Insert, Start, Crash, vars
<1>2. QED BY <1>1

LEMMA GotPart ==
    ASSUME FilesInv, NEW t \in Threads, job[t].stage = "read", PartOf(data[job[t].inode])
    PROVE  PartOf(Got(job[t])) /\ job[t].inode \in 1 .. Len(data)
<1>1. /\ job[t].inode \in 1 .. Len(data) /\ data[job[t].inode] \in Seq(Byte)
      /\ job[t].size \in Nat
  BY OpenInode DEF FilesInv, TypesInv, JobTypes, GoodJob, JobRecord, Closed
<1> DEFINE d == data[job[t].inode]
           k == IF job[t].size < Len(d) THEN job[t].size ELSE Len(d)
<1>2. d \in Seq(Byte)
  BY <1>1
<1> HIDE DEF d
<1>3. k \in 0 .. Len(d)
  BY <1>1, <1>2
<1> HIDE DEF k
<1>4. PartOf(SubSeq(d, 1, k))
  BY <1>2, <1>3, PartCut DEF d
<1>5. Got(job[t]) = SubSeq(d, 1, k)
  BY DEF Got, d, k
<1>6. QED BY <1>1, <1>4, <1>5

LEMMA RepliesStep ==
    ASSUME PartsInv, [Next]_vars
    PROVE  RepliesInv'
<1>1. mixed \subseteq mixed' /\ mixed' \subseteq Names /\ DOMAIN reply' = Threads
  BY MixedGrows, ReplyStep DEF PartsInv, RepliesInv
<1>2. SUFFICES ASSUME NEW t \in Threads, reply'[t].name \notin mixed'
               PROVE  PartOf(reply'[t].body)
  BY <1>1 DEF RepliesInv
<1>3. Replies(t)
  BY ReplyStep DEF PartsInv, RepliesInv
<1>4. CASE reply'[t] = reply[t]
  BY <1>1, <1>2, <1>4 DEF PartsInv, RepliesInv
<1>5. CASE reply'[t].body = <<>>
  BY <1>5, PartEmpty
<1>6. CASE Read(t) /\ reply'[t] = Answer(job[t], "ok", Got(job[t]), job[t].info.size)
  <2>1. job[t].stage = "read"
    BY <1>6 DEF Read, Send
  <2>2. reply'[t].name = job[t].name /\ reply'[t].body = Got(job[t])
    BY <1>6, AnswerIs
  <2>3. PartOf(data[job[t].inode])
    BY <1>1, <1>2, <2>1, <2>2 DEF PartsInv, PartInv
  <2>4. QED BY <2>1, <2>2, <2>3, GotPart DEF PartsInv
<1>7. ASSUME NEW status, reply'[t] = Plain(status) PROVE reply'[t].body = <<>>
  BY <1>7 DEF Plain
<1>8. ASSUME NEW j, reply'[t] = Answer(j, "not found", <<>>, 0) PROVE reply'[t].body = <<>>
  <2>1. Answer(j, "not found", <<>>, 0).body = <<>>
    BY DEF Answer
  <2> DEFINE a == Answer(j, "not found", <<>>, 0)
  <2> HIDE DEF a
  <2>2. reply'[t] = a /\ a.body = <<>>
    BY <1>8, <2>1 DEF a
  <2>3. QED BY <2>2
<1>9. QED BY <1>3, <1>4, <1>5, <1>6, <1>7, <1>8 DEF Replies

LEMMA PartStart ==
    ASSUME PartsInv, NEW t \in Threads, NEW n \in Names, NEW type \in Types, NEW c \in Contents,
           StartUpload(t, n, type, c)
    PROVE  PartInv'
<1>1. FilesInv /\ TypesInv /\ JobTypes /\ PartInv
  BY DEF PartsInv, FilesInv, TypesInv
<1>2. /\ OthersKeep(t) /\ job'[t].stage = "create" /\ job'[t].name = n
      /\ UNCHANGED <<disk, data>> /\ Idle(t)
      /\ mixed' = IF \E s \in Threads : ~Idle(s) /\ job[s].name = n /\ Uploading(s)
                  THEN mixed \cup {n} ELSE mixed
  <2>1. /\ UNCHANGED <<disk, data>>
        /\ mixed' = IF \E s \in {r \in Threads : ~Idle(r) /\ job[r].name = n} : Uploading(s)
                    THEN mixed \cup {n} ELSE mixed
    BY DEF StartUpload, fileVars
  <2>2. OthersKeep(t) /\ job'[t].stage = "create" /\ job'[t].name = n /\ Idle(t)
    BY <1>1, StartStep
  <2>3. QED BY <2>1, <2>2
<1>3. \A s \in Threads \ {t} : /\ job'[s].name = job[s].name /\ job'[s].stage = job[s].stage
                               /\ job'[s].inode = job[s].inode
  BY <1>1, <1>2, OthersName
<1>4. \A s \in Threads : job[s].stage \in UpStages => ~Idle(s) /\ Uploading(s)
  BY DEF UpStages, Idle, Uploading
<1>5. Alone'
  <2>1. SUFFICES ASSUME NEW r \in Threads, NEW s \in Threads, r # s,
                        job'[r].stage \in UpStages, job'[s].stage \in UpStages,
                        job'[r].name = job'[s].name
                 PROVE  job'[s].name \in mixed'
    BY DEF Alone
  <2>2. CASE r = t
    BY <1>2, <1>3, <1>4, <2>1, <2>2
  <2>3. CASE s = t
    BY <1>2, <1>3, <1>4, <2>1, <2>3
  <2>4. CASE r # t /\ s # t
    BY <1>1, <1>2, <1>3, <2>1, <2>4 DEF PartInv, Alone
  <2>5. QED BY <2>2, <2>3, <2>4
<1>6. QED BY <1>1, <1>2, <1>3, <1>5, PartSame

(* A file truncated is a part of whatever is written to it. *)
LEMMA PartCreate ==
    ASSUME PartsInv, NEW t \in Threads, Create(t), FilesInv'
    PROVE  PartInv'
<1>1. FilesInv /\ TypesInv /\ JobTypes /\ PartInv /\ Alone
  BY DEF PartsInv, FilesInv, TypesInv, PartInv
<1> DEFINE p == Target(t)
           i == disk'[p]
<1>2. /\ p \in Paths /\ i = job'[t].inode /\ data'[i] = <<>>
      /\ \A q \in Paths \ {p} : disk'[q] = disk[q]
      /\ \A j \in 1 .. Len(data) : j # i => data'[j] = data[j]
      /\ mixed' = mixed
  BY <1>1, CreateFile DEF Create, OpenFor
<1>3. /\ job[t].stage = "create" /\ job'[t].stage = "write" /\ job'[t].name = job[t].name
      /\ \A s \in Threads \ {t} : job'[s] = job[s]
  BY <1>1, CreateStep DEF OthersSame, Becomes
<1> HIDE DEF p, i
<1>4. Alone'
  BY <1>1, <1>2, <1>3, AloneSame DEF UpStages
<1>5. ASSUME NEW j \in 1 .. Len(data), PartOf(data[j]) PROVE PartOf(data'[j])
  BY <1>2, <1>5, PartEmpty
<1>6. ASSUME NEW n \in Names, n \notin mixed', disk'[Low(n)] # 0
      PROVE  PartOf(data'[disk'[Low(n)]])
  <2>1. Low(n) \in Paths /\ disk[Low(n)] \in 0 .. Len(data)
    BY <1>1 DEF Low, Paths, Types, TypesInv, FileTypes
  <2>2. CASE Low(n) = p
    BY <1>2, <2>2, PartEmpty DEF i
  <2>3. CASE Low(n) # p
    <3>1. disk'[Low(n)] = disk[Low(n)] /\ disk[Low(n)] \in 1 .. Len(data)
      BY <1>2, <1>6, <2>1, <2>3
    <3>2. QED BY <1>1, <1>2, <1>5, <1>6, <3>1 DEF PartInv
  <2>4. QED BY <2>2, <2>3
<1>7. ASSUME NEW s \in Threads, job'[s].name \notin mixed'
      PROVE  /\ job'[s].stage = "write" => data'[job'[s].inode] = <<>>
             /\ job'[s].stage \in {"size", "buffer", "read"} => PartOf(data'[job'[s].inode])
  <2>1. CASE s = t
    BY <1>2, <1>3, <2>1
  <2>2. CASE s # t /\ job[s].stage \in {"write", "size", "buffer", "read"}
    <3>1. job'[s] = job[s] /\ job[s].inode \in 1 .. Len(data)
      BY <1>1, <1>3, <2>2, OpenInode DEF Closed
    <3>2. QED BY <1>1, <1>2, <1>5, <1>7, <2>2, <3>1 DEF PartInv
  <2>3. QED BY <1>3, <2>1, <2>2
<1>8. QED BY <1>4, <1>6, <1>7 DEF PartInv

(* What a write leaves in a file that was empty is a part of the upload.    *)
LEMMA PartWrite ==
    ASSUME PartsInv, NEW t \in Threads, Write(t) \/ WriteFails(t)
    PROVE  PartInv'
<1>1. FilesInv /\ TypesInv /\ JobTypes /\ PartInv /\ Alone
  BY DEF PartsInv, FilesInv, TypesInv, PartInv
<1> DEFINE i == job[t].inode
<1>2. /\ UNCHANGED <<disk, mixed>>
      /\ \A j \in 1 .. Len(data) : j # i => data'[j] = data[j]
      /\ i \in 1 .. Len(data) /\ data[i] = <<>> =>
           \E k \in 0 .. Len(Bytes(job[t])) : data'[i] = SubSeq(Bytes(job[t]), 1, k)
  BY <1>1, WriteFile
<1>3. /\ job[t].stage = "write" /\ job'[t].stage \in {"idle", "stat"}
      /\ job'[t].stage = "stat" => job'[t].name = job[t].name
      /\ \A s \in Threads \ {t} : job'[s] = job[s]
  BY <1>1, WriteStep, NoJobGood DEF OthersSame, Becomes
<1>4. i \in 1 .. Len(data) /\ job[t].type \in Types /\ job[t].content \in Contents
  BY <1>1, <1>3, OpenInode DEF Closed, JobTypes, GoodJob, JobRecord, UpStages
<1>5. Place(job[t]) = <<job[t].type, job[t].name>>
  BY <1>3 DEF Place, UpStages
<1> HIDE DEF i
<1>6. ASSUME job[t].name \notin mixed, job[t].type = "low"
      PROVE  PartOf(data'[i])
  <2>1. data[i] = <<>>
    BY <1>1, <1>3, <1>6 DEF PartInv, i
  <2>2. Bytes(job[t]) = Written(job[t].content) /\ Len(Bytes(job[t])) = Size[job[t].content]
    BY <1>4, <1>6, BytesType DEF Bytes
  <2>3. PICK k \in 0 .. Size[job[t].content] :
           data'[i] = SubSeq(Written(job[t].content), 1, k)
    BY <1>2, <1>4, <2>1, <2>2
  <2>4. QED BY <1>4, <2>3, PartWritten
<1>7. Alone'
  BY <1>1, <1>2, <1>3, AloneSame DEF UpStages
<1>8. ASSUME NEW n \in Names, n \notin mixed', disk'[Low(n)] # 0
      PROVE  PartOf(data'[disk'[Low(n)]])
  <2>1. Low(n) \in Paths /\ disk[Low(n)] \in 1 .. Len(data)
    BY <1>1, <1>2, <1>8 DEF Low, Paths, Types, TypesInv, FileTypes
  <2>2. CASE disk[Low(n)] = i
    <3>1. Low(n) = <<job[t].type, job[t].name>>
      BY <1>1, <1>4, <1>5, <2>1, <2>2 DEF FilesInv, InodeInv, i
    <3>2. job[t].type = "low" /\ job[t].name = n
      BY <3>1 DEF Low
    <3>3. QED BY <1>2, <1>6, <1>8, <2>2, <3>2
  <2>3. CASE disk[Low(n)] # i
    BY <1>1, <1>2, <1>8, <2>1, <2>3 DEF PartInv
  <2>4. QED BY <2>2, <2>3
<1>9. ASSUME NEW s \in Threads, job'[s].name \notin mixed'
      PROVE  /\ job'[s].stage = "write" => data'[job'[s].inode] = <<>>
             /\ job'[s].stage \in {"size", "buffer", "read"} => PartOf(data'[job'[s].inode])
  <2>1. CASE s = t
    BY <1>3, <2>1
  <2>2. CASE s # t /\ job[s].stage \in {"write", "size", "buffer", "read"}
    <3>1. job'[s] = job[s] /\ job[s].inode \in 1 .. Len(data)
      BY <1>1, <1>3, <2>2, OpenInode DEF Closed
    <3>2. CASE job[s].inode # i
      BY <1>1, <1>2, <1>9, <2>2, <3>1, <3>2 DEF PartInv
    <3>3. CASE job[s].inode = i
      <4>1. Place(job[s]) = <<job[t].type, job[t].name>>
        BY <1>1, <1>4, <1>5, <3>3 DEF FilesInv, InodeInv, i
      <4>2. job[s].name = job[t].name
        BY <4>1 DEF Place
      <4>3. job[s].stage # "write"
        BY <1>1, <1>2, <1>3, <1>9, <2>2, <3>1, <4>2 DEF Alone, UpStages
      <4>4. job[t].type = "low"
        BY <2>2, <4>1, <4>3 DEF Place, UpStages
      <4>5. QED BY <1>2, <1>6, <1>9, <2>2, <3>1, <3>3, <4>2, <4>3, <4>4
    <3>4. QED BY <3>2, <3>3
  <2>3. QED BY <1>3, <2>1, <2>2
<1>10. QED BY <1>7, <1>8, <1>9 DEF PartInv

LEMMA PartSteps ==
    ASSUME PartsInv, FilesInv', mixed \subseteq mixed', NEW t \in Threads, Steps(t)
    PROVE  PartInv'
<1>0. FilesInv /\ TypesInv /\ JobTypes /\ ApartInv /\ PartInv /\ Alone
  BY DEF PartsInv, FilesInv, TypesInv, PartInv
<1> DEFINE Settled(s) ==
              \/ job'[s].stage \notin {"write", "size", "buffer", "read"}
              \/ /\ job'[s].name = job[s].name /\ job'[s].inode = job[s].inode
                 /\ job'[s].stage = job[s].stage
              \/ /\ job'[s].name = job[s].name /\ job'[s].inode = job[s].inode
                 /\ job[s].stage \in {"size", "buffer", "read"}
                 /\ job'[s].stage \in {"size", "buffer", "read"}
           Kept(s) == job'[s].stage \in UpStages =>
                         job[s].stage \in UpStages /\ job'[s].name = job[s].name
<1>1. ASSUME OthersKeep(t), UNCHANGED data, \A p \in Paths : disk'[p] \in {disk[p], 0},
             Settled(t), Kept(t)
      PROVE  PartInv'
  <2>1. \A s \in Threads : Settled(s) /\ Kept(s)
    BY <1>0, <1>1, OthersName
  <2>2. Alone'
    BY <1>0, <2>1, AloneSame
  <2>3. QED BY <1>0, <1>1, <2>1, <2>2, PartSame
<1>2. CASE Quits(t) \/ Uploaded(t)
  <2>1. JobStep(t) /\ job'[t] = NoJob /\ UNCHANGED <<disk, data>>
    BY <1>0, <1>2, EndStep DEF Quits, Uploaded, Ends, fileVars
  <2>2. Settled(t) /\ Kept(t)
    BY <2>1, NoJobGood DEF UpStages
  <2>3. QED BY <1>1, <2>1, <2>2, SameKeeps DEF JobStep
<1>3. CASE NewStorageInfo(t)
  <2>1. OthersSame(t) /\ UNCHANGED <<disk, data>> /\ Settled(t) /\ Kept(t)
    BY <1>0, <1>3, LookStep DEF Becomes, UpStages, NewStorageInfo, LookAt, fileVars
  <2>2. QED BY <1>1, <2>1, SameKeeps
<1>4. ASSUME NEW n \in Names, Lookup(t, n) PROVE PartInv'
  <2>1. OthersKeep(t) /\ UNCHANGED <<disk, data>> /\ job'[t].stage \in {"idle", "exists"}
    BY <1>0, <1>4, FindStep, NoJobGood DEF Lookup, Find, fileVars
  <2>2. Settled(t) /\ Kept(t)
    BY <2>1 DEF UpStages
  <2>3. QED BY <1>1, <2>1, <2>2
<1>5. CASE DownStep(t)
  <2>1. UNCHANGED data /\ (UNCHANGED disk \/ \E p : disk' = [disk EXCEPT ![p] = 0])
    BY <1>5 DEF DownStep, Remove
  <2>2. \A p \in Paths : disk'[p] \in {disk[p], 0}
    BY <1>0, <2>1 DEF TypesInv, FileTypes
  <2>3. Kept(t)
    BY <1>5, NoJobGood DEF DownStep, Becomes, UpStages
  <2>4. CASE job'[t].stage = "size"
    <3>1. /\ job[t].stage = "open" /\ job'[t].inode = disk[Target(t)] /\ disk[Target(t)] # 0
          /\ job'[t].name = job[t].name /\ UNCHANGED <<disk, mixed>>
          /\ \A s \in Threads \ {t} : job'[s] = job[s]
      BY <1>5, <2>4, NoJobGood DEF DownStep, Becomes, OthersSame
    <3>2. Target(t) = Low(job[t].name) /\ job[t].name \in Names
      BY <1>0, <3>1, PlaceTarget DEF Place, UpStages, Low, JobTypes, GoodJob, DownStages
    <3>3. job'[t].name \notin mixed' => PartOf(data'[job'[t].inode])
      BY <1>0, <2>1, <3>1, <3>2 DEF PartInv
    <3>4. Alone'
      BY <1>0, <2>3, <3>1, AloneSame
    <3>5. QED BY <1>0, <2>1, <2>4, <3>1, <3>3, <3>4 DEF PartInv
  <2>5. CASE job'[t].stage # "size"
    <3>1. Settled(t)
      BY <1>5, <2>5, NoJobGood DEF DownStep, Becomes
    <3>2. QED BY <1>1, <1>5, <2>1, <2>2, <2>3, <3>1, SameKeeps DEF DownStep
  <2>6. QED BY <2>4, <2>5
<1>6. QED
  BY <1>0, <1>2, <1>3, <1>4, <1>5, PartStart, PartCreate, PartWrite DEF Steps

LEMMA PartsInit == Init => PartsInv
<1> SUFFICES ASSUME Init PROVE PartsInv
  OBVIOUS
<1>1. /\ \A t \in Threads : job[t].stage = "idle" /\ reply[t].body = <<>>
      /\ DOMAIN reply = Threads /\ mixed = {}
      /\ \A n \in Names : disk[Low(n)] = 0
  BY NoJobGood DEF Init, Plain, Low, Paths, Types
<1>2. PartInv
  BY <1>1 DEF PartInv, Alone, UpStages
<1>3. RepliesInv
  BY <1>1, PartEmpty DEF RepliesInv
<1>4. QED BY <1>1, <1>2, <1>3, FilesInvInit DEF PartsInv

LEMMA PartsStep == PartsInv /\ [Next]_vars => PartsInv'
<1> SUFFICES ASSUME PartsInv, [Next]_vars PROVE PartsInv'
  OBVIOUS
<1>1. FilesInv /\ FilesInv' /\ TypesInv /\ PartInv
  BY FilesInvStep DEF PartsInv, FilesInv
<1>2. RepliesInv' /\ mixed \subseteq mixed' /\ mixed' \subseteq Names
  BY RepliesStep, MixedGrows DEF PartsInv
<1>3. ASSUME UNCHANGED <<job, disk, data, mixed>> PROVE PartInv'
  BY <1>1, <1>3 DEF PartInv, Alone
<1>4. ASSUME Crash PROVE PartInv'
  <2>1. \A s \in Threads : job'[s].stage = "idle"
    BY <1>4, NoJobGood DEF Crash
  <2>2. UNCHANGED <<disk, data, mixed>>
    BY <1>4 DEF Crash, fileVars
  <2>3. Alone'
    BY <2>1 DEF Alone, UpStages
  <2>4. \A n \in Names : n \notin mixed' /\ disk'[Low(n)] # 0 => PartOf(data'[disk'[Low(n)]])
    BY <1>1, <2>2 DEF PartInv
  <2>5. \A s \in Threads : job'[s].stage \notin {"write", "size", "buffer", "read"}
    BY <2>1
  <2>6. QED BY <2>3, <2>4, <2>5 DEF PartInv
<1>5. PartInv'
  <2>1. ASSUME NEW t \in Threads, Steps(t) PROVE PartInv'
    BY <1>1, <1>2, <2>1, PartSteps
  <2>2. ASSUME NEW t \in Threads \cup {Main}, Insert(t) PROVE PartInv'
    BY <1>3, <2>2 DEF Insert, fileVars
  <2>3. ASSUME Start \/ UNCHANGED vars PROVE PartInv'
    BY <1>3, <2>3 DEF Start, vars, fileVars
  <2>4. \/ \E t \in Threads : Steps(t)
        \/ \E t \in Threads \cup {Main} : Insert(t)
        \/ Start \/ Crash \/ UNCHANGED vars
    BY <1>1, StepKinds
  <2>5. QED BY <1>4, <2>1, <2>2, <2>3, <2>4
<1>6. QED BY <1>1, <1>2, <1>5 DEF PartsInv

(* Service.cpp:335: a download that races with an upload of its file may    *)
(* send less than the file, but never the bytes of two uploads, unless two  *)
(* uploads of the name have overlapped (Service.cpp:98).                    *)
THEOREM NeverMixed == Spec => []OneContent
<1>1. PartsInv => OneContent
  BY DEF PartsInv, RepliesInv, OneContent, PartOf
<1>2. QED BY <1>1, PartsInit, PartsStep, PTL DEF Spec

-----------------------------------------------------------------------------
(* The store: the service uses the table as DataManager specifies it, so    *)
(* what is proved of DataManager holds of the service.                      *)
Held == INSTANCE DataManagerProofs
        WITH URLs <- Names \cup {NoUrl}, Infos <- Info, Unloadable <- {Raw},
             Faults <- StoreFaults

LEMMA StoreGiven ==
    /\ Main \notin Threads
    /\ Nobody \notin Threads \cup {Main}
    /\ {Raw} \subseteq Info
    /\ NoUrl \in Names \cup {NoUrl}
    /\ Torn \in Info \ {Raw}
    /\ StoreFaults \in BOOLEAN
    /\ MaxUploads \in Nat
BY FileAssumption DEF Info

LEMMA HeldUpload ==
    ASSUME NEW t, NEW u, NEW i, Store!Upload(t, u, i)
    PROVE  Held!Upload(t, u, i)
BY DEF Store!Upload, Store!StartInsert, Store!Idle, Store!Procs, Store!Only,
       Held!Upload, Held!StartInsert, Held!Idle, Held!Procs, Held!Only

LEMMA HeldInsert ==
    ASSUME NEW t, Store!Insert(t)
    PROVE  Held!Insert(t)
<1> USE DEF Store!Put, Held!Put, Store!Only, Held!Only, Store!NoRecords, Held!NoRecords,
            Store!WrLock, Held!WrLock, Store!Return, Held!Return
<1>1. Store!InsertRecord(t) => Held!InsertRecord(t)
  BY DEF Store!InsertRecord, Held!InsertRecord
<1>2. Store!StorageGetAll(t) => Held!StorageGetAll(t)
  BY DEF Store!StorageGetAll, Held!StorageGetAll
<1>3. Store!OpenFile(t) => Held!OpenFile(t)
  BY DEF Store!OpenFile, Held!OpenFile
<1>4. Store!OpenFails(t) => Held!OpenFails(t)
  BY DEF Store!OpenFails, Held!OpenFails
<1>5. Store!WriteFile(t) => Held!WriteFile(t)
  BY DEF Store!WriteFile, Held!WriteFile
<1>6. Store!WriteFails(t) => Held!WriteFails(t)
  BY DEF Store!WriteFails, Held!WriteFails
<1>7. QED BY <1>1, <1>2, <1>3, <1>4, <1>5, <1>6 DEF Store!Insert, Held!Insert

LEMMA HeldDie == Store!Die => Held!Die
BY DEF Store!Die, Held!Die, Store!HalfWritten, Held!HalfWritten, Store!Procs, Held!Procs,
       Store!NoRecords, Held!NoRecords

(* A step of the process. *)
LEMMA HeldProcess ==
    ASSUME Start \/ Crash
    PROVE  Held!Next
<1>1. ASSUME NEW u \in Names \cup {NoUrl}, Store!Load(u) PROVE Held!Load(u)
  BY <1>1 DEF Store!Load, Store!StartInsert, Store!Idle, Store!Procs, Store!Only,
              Held!Load, Held!StartInsert, Held!Idle, Held!Procs, Held!Only
<1>2. ASSUME NEW u \in Names \cup {NoUrl}, Store!LoadThrows(u) PROVE Held!LoadThrows(u)
  BY <1>2, HeldDie DEF Store!LoadThrows, Held!LoadThrows, Store!Idle, Held!Idle
<1>3. Store!LoadDone => Held!LoadDone
  BY DEF Store!LoadDone, Held!LoadDone, Store!Idle, Held!Idle, Store!tvars, Held!tvars
<1>4. Store!Restart => Held!Restart
  BY DEF Store!Restart, Held!Restart, Store!tvars, Held!tvars, Store!NoRecords, Held!NoRecords
<1>5. Store!Crash => Held!Crash
  BY HeldDie
  DEF Store!Crash, Held!Crash, Store!Phase, Held!Phase, Store!Idle, Held!Idle,
      Store!Procs, Held!Procs
<1>6. QED BY <1>1, <1>2, <1>3, <1>4, <1>5 DEF Start, Crash, Held!Next

LEMMA HeldStep ==
    ASSUME TypesInv, [Next]_vars
    PROVE  [Held!Next]_(Held!vars)
<1>1. ASSUME UNCHANGED storeVars PROVE UNCHANGED Held!vars
  BY <1>1 DEF storeVars, Held!vars
<1>2. ASSUME NEW t \in Threads, NewStorageInfo(t) PROVE Held!Handler(t)
  <2>1. CASE disk[Target(t)] = 0
    <3>1. Store!Upload(t, NoUrl, Raw)
      BY <1>2, <2>1 DEF NewStorageInfo, LookAt
    <3>2. QED BY <3>1, HeldUpload DEF Held!Handler
  <2>2. CASE disk[Target(t)] # 0
    <3>1. PICK i : i = [path |-> Target(t), size |-> FileSize(Target(t))]
      OBVIOUS
    <3>2. Store!Upload(t, job[t].name, i)
      BY <1>2, <2>2, <3>1 DEF NewStorageInfo, LookAt
    <3>3. Target(t) = <<job[t].type, job[t].name>> /\ FileSize(Target(t)) \in Nat
          /\ job[t].name \in Names /\ job[t].type \in Types
      BY <1>2, LookStep DEF TypesInv, JobTypes, GoodJob, JobRecord, UpStages
    <3>4. i \in [path : Paths, size : Nat]
      BY <3>1, <3>3 DEF Paths
    <3>5. i \in Info \ ({Raw} \cup {Torn})
      BY <3>4, FileAssumption DEF Info
    <3>6. job[t].name \in (Names \cup {NoUrl}) \ {NoUrl}
      BY <3>3, FileAssumption
    <3>7. QED BY <3>2, <3>5, <3>6, HeldUpload DEF Held!Handler
  <2>3. QED BY <2>1, <2>2
<1>3. ASSUME NEW t \in Threads, NEW n \in Names, Lookup(t, n) PROVE Held!Handler(t)
  <2>1. Store!GetOneByURL(t)
    BY <1>3 DEF Lookup, Find
  <2>2. QED BY <2>1 DEF Held!Handler, Held!GetOneByURL, Store!GetOneByURL, Store!Idle,
                        Held!Idle, Store!WrLock, Held!WrLock
<1>4. ASSUME NEW t \in Threads, ListShow(t) PROVE Held!Handler(t)
  <2>1. Store!GetAll(t)
    BY <1>4 DEF ListShow
  <2>2. QED BY <2>1 DEF Held!Handler, Held!GetAll, Store!GetAll, Store!Idle, Held!Idle,
                        Store!WrLock, Held!WrLock
<1>5. ASSUME NEW t \in Threads, Upload(t) PROVE Held!Handler(t) \/ UNCHANGED storeVars
  BY <1>2, <1>5
  DEF Upload, Refuse, StartUpload, Create, OpenFor, CreateFails, Write, WriteFails, Uploaded
<1>6. ASSUME NEW t \in Threads, Download(t) PROVE Held!Handler(t) \/ UNCHANGED storeVars
  BY <1>3, <1>6
  DEF Download, Exists, Open, CheckSize, Allocate, Read, Send, ReadFails, Remove
<1>7. ASSUME NEW t \in Threads \cup {Main}, Insert(t) PROVE Held!Next
  BY <1>7, HeldInsert DEF Insert, Held!Next, Held!Procs
<1>8. CASE UNCHANGED vars
  BY <1>1, <1>8 DEF vars, storeVars
<1>9. QED
  BY <1>1, <1>4, <1>5, <1>6, <1>7, <1>8, HeldProcess DEF Next, Held!Next

(* Service.cpp:131, 195 and 249 with DataManager.h: the service implements  *)
(* the store's specification: its handlers call the table only as           *)
(* DataManager's own callers do, one call per thread at a time, with a      *)
(* record of the name they serve or one that nobody filled in.              *)
THEOREM ServiceUsesStore == Spec => Held!Spec
<1>1. Init => Held!Init
  BY DEF Init, Store!Init, Held!Init, Store!Procs, Held!Procs, Store!NoRecords, Held!NoRecords
<1>2. TypesInv /\ [Next]_vars => [Held!Next]_(Held!vars)
  BY HeldStep
<1>3. QED BY <1>1, <1>2, TypesInit, TypesStep, PTL DEF Spec, Held!Spec

(* What the file of the table is known to hold is in the table.             *)
LEMMA StoreKept == Spec => []Held!UploadsKept
<1>1. Held!Spec => []Held!UploadsKept
  BY StoreGiven, Held!UploadsSurvive
<1>2. QED BY <1>1, ServiceUsesStore, PTL

-----------------------------------------------------------------------------
(* Promises: what is promised of a name is what the file of the table is    *)
(* known to hold for it, and what is on disk.                               *)

(* The record of an upload d of name n. *)
RecOf(n, d) == [path |-> <<d.type, n>>, size |-> Len(Bytes(d))]

(* Clean uploads are alone with downloads of the low storage, clean         *)
(* downloads are with downloads only, and so is a name with a promise.      *)
Up(t)   == job[t].stage \in UpStages
Down(t) == job[t].stage \in DownStages

CleanInv ==
    /\ \A s, t \in Threads :
          Up(t) /\ job[t].clean /\ s # t /\ job[s].name = job[t].name =>
             ~Up(s) /\ (Down(s) => ~Deep(job[s]))
    /\ \A s, t \in Threads :
          Down(t) /\ job[t].clean /\ job[s].name = job[t].name => ~Up(s)
    /\ \A n \in Names, t \in Threads : promised[n] # Nothing /\ job[t].name = n =>
          ~Up(t) /\ (promised[n].type = "low" /\ Down(t) => ~Deep(job[t]))
    /\ \A t \in Threads : job[t].stage = "remove" => Deep(job[t])

AgreeStore(n) ==
    promised[n] # Nothing =>
        /\ Text[promised[n].content] = Size[promised[n].content]
        /\ n \in DOMAIN kept /\ kept[n] = RecOf(n, promised[n])

AgreeDisk(n) ==
    promised[n] # Nothing =>
        /\ disk[<<promised[n].type, n>>] # 0
        /\ data[disk[<<promised[n].type, n>>]] = Bytes(promised[n])

UploadDisk(t) ==
    job[t].stage \in {"write", "stat", "insert"} /\ job[t].clean =>
        /\ disk[Place(job[t])] = job[t].inode
        /\ data[job[t].inode] = IF job[t].stage = "write" THEN <<>> ELSE Bytes(job[t])

UploadStore(t) ==
    job[t].stage = "insert" /\ job[t].clean =>
        /\ pc[t] = "insert" => arg[t] = [url |-> job[t].name, info |-> RecOf(job[t].name, job[t])]
        /\ pc[t] # "insert" => /\ job[t].name \in DOMAIN table
                               /\ table[job[t].name] = RecOf(job[t].name, job[t])

StoreInv == /\ \A n \in Names : AgreeStore(n)
            /\ \A t \in Threads : UploadStore(t)
DiskInv  == /\ \A n \in Names : AgreeDisk(n)
            /\ \A t \in Threads : UploadDisk(t)

KeptInv == FilesInv /\ CleanInv /\ StoreInv /\ DiskInv

(* The job has gone, or goes on as what it was. *)
Carries(j, k) ==
    \/ k.stage = "idle"
    \/ /\ k.name = j.name /\ k.type = j.type /\ k.content = j.content /\ k.info = j.info
       /\ k.stage \in UpStages <=> j.stage \in UpStages
       /\ k.stage \in DownStages <=> j.stage \in DownStages
       /\ k.clean => j.clean

LEMMA JobCarries ==
    ASSUME JobTypes, NEW t \in Threads, JobStep(t)
    PROVE  \A s \in Threads : Carries(job[s], job'[s])
<1>1. Carries(job[t], job'[t])
  BY NoJobGood DEF JobStep, Becomes, Carries, UpStages, DownStages
<1>2. QED BY <1>1 DEF JobStep, OthersSame, Carries

LEMMA CleanSame ==
    ASSUME CleanInv, \A s \in Threads : Carries(job[s], job'[s]),
           \A n \in Names : promised'[n] \in {promised[n], Nothing},
           \A s \in Threads : job'[s].stage = "remove" => Deep(job'[s])
    PROVE  CleanInv'
<1>1. \A s \in Threads : job'[s].stage = "idle" => ~Up(s)' /\ ~Down(s)'
  BY DEF Up, Down, UpStages, DownStages
<1>2. \A s \in Threads : Up(s)' =>
         /\ Up(s) /\ job'[s].name = job[s].name
         /\ job'[s].clean => job[s].clean
  BY <1>1 DEF Up, Carries
<1>3. \A s \in Threads : Down(s)' =>
         /\ Down(s) /\ job'[s].name = job[s].name
         /\ job'[s].clean => job[s].clean
         /\ Deep(job'[s]) <=> Deep(job[s])
  BY <1>1 DEF Down, Carries, Deep
<1>4. \A s, t \in Threads :
          Up(t)' /\ job'[t].clean /\ s # t /\ job'[s].name = job'[t].name =>
             ~Up(s)' /\ (Down(s)' => ~Deep(job'[s]))
  BY <1>2, <1>3 DEF CleanInv
<1>5. \A s, t \in Threads :
          Down(t)' /\ job'[t].clean /\ job'[s].name = job'[t].name => ~Up(s)'
  BY <1>2, <1>3 DEF CleanInv
<1>6. \A n \in Names, t \in Threads : promised'[n] # Nothing /\ job'[t].name = n =>
          ~Up(t)' /\ (promised'[n].type = "low" /\ Down(t)' => ~Deep(job'[t]))
  BY <1>2, <1>3 DEF CleanInv
<1>7. QED BY <1>4, <1>5, <1>6 DEF CleanInv

(* Path p leads where it did, to what it did. *)
Safe(p) == disk'[p] = disk[p] /\ (disk[p] # 0 => data'[disk[p]] = data[disk[p]])

LEMMA AgreeDiskSame ==
    ASSUME NEW n \in Names, AgreeDisk(n), promised'[n] \in {promised[n], Nothing},
           promised[n] # Nothing => Safe(<<promised[n].type, n>>)
    PROVE  AgreeDisk(n)'
BY DEF AgreeDisk, Safe

LEMMA UploadDiskSame ==
    ASSUME NEW t \in Threads, FilesInv, UploadDisk(t), Carries(job[t], job'[t]),
           job'[t].stage \in {"write", "stat", "insert"} =>
              /\ job[t].stage \in {"write", "stat", "insert"}
              /\ job[t].stage = "write" <=> job'[t].stage = "write"
              /\ job'[t].inode = job[t].inode
              /\ job'[t].clean => Safe(Place(job[t]))
    PROVE  UploadDisk(t)'
<1>1. SUFFICES ASSUME job'[t].stage \in {"write", "stat", "insert"}, job'[t].clean
               PROVE  /\ disk'[Place(job'[t])] = job'[t].inode
                      /\ data'[job'[t].inode] = IF job'[t].stage = "write" THEN <<>>
                                                ELSE Bytes(job'[t])
  BY DEF UploadDisk
<1>2. /\ job[t].stage \in {"write", "stat", "insert"} /\ job[t].clean
      /\ job[t].stage = "write" <=> job'[t].stage = "write"
      /\ job'[t].inode = job[t].inode /\ Safe(Place(job[t]))
      /\ job'[t].name = job[t].name /\ job'[t].type = job[t].type
      /\ job'[t].content = job[t].content
  BY <1>1 DEF Carries
<1>3. Place(job'[t]) = Place(job[t]) /\ Bytes(job'[t]) = Bytes(job[t])
  BY <1>1, <1>2 DEF Place, Bytes, UpStages
<1>4. /\ disk[Place(job[t])] = job[t].inode /\ job[t].inode # 0
      /\ data[job[t].inode] = IF job[t].stage = "write" THEN <<>> ELSE Bytes(job[t])
  BY <1>2 DEF UploadDisk, FilesInv, InodeInv, Closed
<1>5. QED BY <1>2, <1>3, <1>4 DEF Safe

LEMMA AgreeStoreSame ==
    ASSUME NEW n \in Names, AgreeStore(n), promised'[n] \in {promised[n], Nothing},
           promised'[n] # Nothing => n \in DOMAIN kept' /\ kept'[n] = kept[n]
    PROVE  AgreeStore(n)'
BY DEF AgreeStore

LEMMA UploadStoreSame ==
    ASSUME NEW t \in Threads, UploadStore(t), Carries(job[t], job'[t]),
           job'[t].stage = "insert" => job[t].stage = "insert",
           UNCHANGED tableVars
    PROVE  UploadStore(t)'
<1>1. CASE job'[t].stage # "insert"
  BY <1>1 DEF UploadStore
<1>2. CASE job'[t].stage = "insert"
  <2>1. job[t].stage = "insert" /\ job'[t].name = job[t].name /\ (job'[t].clean => job[t].clean)
        /\ job'[t].type = job[t].type /\ job'[t].content = job[t].content
    BY <1>2 DEF Carries
  <2>2. RecOf(job'[t].name, job'[t]) = RecOf(job[t].name, job[t])
    BY <2>1 DEF RecOf, Bytes
  <2>3. QED BY <2>1, <2>2 DEF UploadStore, tableVars
<1>3. QED BY <1>1, <1>2

(* A step that leaves table and files alone, and makes no promise. *)
LEMMA RestSame ==
    ASSUME KeptInv, FilesInv', CleanInv', UNCHANGED <<tableVars, disk, data>>,
           \A n \in Names : promised'[n] \in {promised[n], Nothing},
           \A s \in Threads : job'[s].stage \in {"write", "stat", "insert"} =>
              /\ Carries(job[s], job'[s])
              /\ job'[s].stage = job[s].stage /\ job'[s].inode = job[s].inode
    PROVE  KeptInv'
<1>1. \A n \in Names : AgreeDisk(n)' /\ AgreeStore(n)'
  <2>1. SUFFICES ASSUME NEW n \in Names PROVE AgreeDisk(n)' /\ AgreeStore(n)'
    OBVIOUS
  <2>2. AgreeStore(n) /\ AgreeDisk(n)
    BY DEF KeptInv, StoreInv, DiskInv
  <2>3. AgreeStore(n)'
    BY <2>2, AgreeStoreSame DEF AgreeStore, tableVars
  <2>4. AgreeDisk(n)'
    BY <2>2, AgreeDiskSame DEF Safe
  <2>5. QED BY <2>3, <2>4
<1>2. \A s \in Threads : UploadDisk(s)' /\ UploadStore(s)'
  <2>1. SUFFICES ASSUME NEW s \in Threads
                 PROVE  UploadDisk(s)' /\ UploadStore(s)'
    OBVIOUS
  <2>2. UploadDisk(s) /\ UploadStore(s) /\ FilesInv
    BY DEF KeptInv, StoreInv, DiskInv
  <2>3. CASE job'[s].stage \notin {"write", "stat", "insert"}
    BY <2>3 DEF UploadDisk, UploadStore
  <2>4. CASE job'[s].stage \in {"write", "stat", "insert"}
    <3>1. UploadStore(s)'
      BY <2>2, <2>4, UploadStoreSame
    <3>2. Safe(Place(job[s]))
      BY DEF Safe
    <3>3. UploadDisk(s)'
      BY <2>2, <2>4, <3>2, UploadDiskSame
    <3>4. QED BY <3>1, <3>3
  <2>5. QED BY <2>3, <2>4
<1>3. QED BY <1>1, <1>2 DEF KeptInv, StoreInv, DiskInv

(* A step of the job of t on its file alone. *)
LEMMA FileSame ==
    ASSUME KeptInv, FilesInv', CleanInv', UNCHANGED <<tableVars, promised>>,
           NEW t \in Threads, OthersSame(t), Carries(job[t], job'[t]), UploadDisk(t)',
           job'[t].stage # "insert",
           \A p \in Paths : p # Target(t) => Safe(p),
           \A n \in Names : promised[n] # Nothing => <<promised[n].type, n>> # Target(t),
           \A s \in Threads \ {t} : Up(s) /\ job[s].clean => Place(job[s]) # Target(t)
    PROVE  KeptInv'
<1>1. \A n \in Names : AgreeDisk(n)' /\ AgreeStore(n)'
  <2>1. SUFFICES ASSUME NEW n \in Names PROVE AgreeDisk(n)' /\ AgreeStore(n)'
    OBVIOUS
  <2>2. AgreeStore(n) /\ AgreeDisk(n)
    BY DEF KeptInv, StoreInv, DiskInv
  <2>3. AgreeStore(n)'
    BY <2>2, AgreeStoreSame DEF AgreeStore, tableVars
  <2>4. promised[n] # Nothing => <<promised[n].type, n>> \in Paths
    BY DEF KeptInv, FilesInv, TypesInv, FileTypes, Paths
  <2>5. AgreeDisk(n)'
    BY <2>2, <2>4, AgreeDiskSame
  <2>6. QED BY <2>3, <2>5
<1>2. \A s \in Threads : UploadDisk(s)' /\ UploadStore(s)'
  <2>1. SUFFICES ASSUME NEW s \in Threads
                 PROVE  UploadDisk(s)' /\ UploadStore(s)'
    OBVIOUS
  <2>2. UploadDisk(s) /\ UploadStore(s) /\ FilesInv
    BY DEF KeptInv, StoreInv, DiskInv
  <2>3. Carries(job[s], job'[s]) /\ (job'[s].stage = "insert" => job[s].stage = "insert")
    BY DEF OthersSame, Carries
  <2>4. UploadStore(s)'
    BY <2>2, <2>3, UploadStoreSame
  <2>5. UploadDisk(s)'
    <3>1. CASE s # t
      <4>1. Place(job[s]) \in Paths \/ job[s].stage \notin UpStages
        BY <2>2 DEF FilesInv, TypesInv, JobTypes, GoodJob, JobRecord, Place, Paths
      <4>2. job'[s] = job[s]
        BY <3>1 DEF OthersSame
      <4>3. QED
        BY <2>2, <2>3, <3>1, <4>1, <4>2, UploadDiskSame DEF Up, UpStages
    <3>2. QED BY <3>1
  <2>6. QED BY <2>4, <2>5
<1>3. QED BY <1>1, <1>2 DEF KeptInv, StoreInv, DiskInv

(* The file a step creates, writes or removes is none with a promise, and   *)
(* none of a clean upload of another thread.                                *)
LEMMA UpApart ==
    ASSUME KeptInv, NEW t \in Threads, Up(t)
    PROVE  /\ Target(t) = <<job[t].type, job[t].name>>
           /\ \A n \in Names : promised[n] # Nothing => <<promised[n].type, n>> # Target(t)
           /\ \A s \in Threads \ {t} : Up(s) /\ job[s].clean => Place(job[s]) # Target(t)
<1>1. CleanInv
  BY DEF KeptInv
<1>2. Target(t) = <<job[t].type, job[t].name>>
  BY PlaceTarget DEF Place, Up
<1>3. \A n \in Names : promised[n] # Nothing => job[t].name # n
  BY <1>1 DEF CleanInv
<1>4. \A s \in Threads \ {t} : Up(s) /\ job[s].clean => job[s].name # job[t].name
  BY <1>1 DEF CleanInv
<1>5. QED BY <1>2, <1>3, <1>4 DEF Place, Up

LEMMA KeptCreate ==
    ASSUME KeptInv, FilesInv', NEW t \in Threads, Create(t)
    PROVE  KeptInv'
<1>1. FilesInv /\ TypesInv /\ JobTypes /\ InodeInv /\ CleanInv
  BY DEF KeptInv, FilesInv, TypesInv
<1>2. /\ job[t].stage = "create" /\ JobStep(t) /\ OthersSame(t)
      /\ job'[t].stage = "write" /\ UNCHANGED <<tableVars, promised>>
      /\ Becomes(job[t], job'[t], "write")
  BY <1>1, CreateStep DEF Create, OpenFor, storeVars, tableVars, Becomes
<1>3. \A s \in Threads : Carries(job[s], job'[s])
  BY <1>1, <1>2, JobCarries
<1>4. CleanInv'
  <2>1. \A s \in Threads : job'[s].stage = "remove" => Deep(job'[s])
    BY <1>1, <1>2 DEF OthersSame, CleanInv
  <2>2. QED BY <1>1, <1>2, <1>3, <2>1, CleanSame
<1>5. \A p \in Paths : p # Target(t) => Safe(p)
  <2>1. SUFFICES ASSUME NEW p \in Paths, p # Target(t) PROVE Safe(p)
    OBVIOUS
  <2>2. /\ disk'[p] = disk[p] /\ disk[p] \in 0 .. Len(data) /\ Target(t) \in Paths
        /\ Len(data) \in Nat
    BY <1>1, <2>1, CreateFile DEF TypesInv, FileTypes
  <2>3. disk[p] # 0 => disk[p] # disk'[Target(t)]
    BY <1>1, <2>1, <2>2, CreateFile DEF InodeInv
  <2>4. disk[p] # 0 => data'[disk[p]] = data[disk[p]]
    BY <1>1, <2>2, <2>3, CreateFile
  <2>5. QED BY <2>2, <2>4 DEF Safe
<1>6. UploadDisk(t)'
  <2>1. Place(job'[t]) = Target(t)
    BY <1>2, PlaceTarget DEF Place, Becomes, UpStages
  <2>2. disk'[Target(t)] = job'[t].inode /\ data'[disk'[Target(t)]] = <<>>
    BY <1>1, CreateFile
  <2>3. QED BY <1>2, <2>1, <2>2 DEF UploadDisk
<1>7. Up(t)
  BY <1>2 DEF Up, UpStages
<1>8. QED BY <1>2, <1>3, <1>4, <1>5, <1>6, <1>7, UpApart, FileSame

LEMMA KeptWrite ==
    ASSUME KeptInv, FilesInv', NEW t \in Threads, Write(t) \/ WriteFails(t)
    PROVE  KeptInv'
<1>1. FilesInv /\ TypesInv /\ JobTypes /\ InodeInv /\ CleanInv /\ UploadDisk(t)
  BY DEF KeptInv, FilesInv, TypesInv, DiskInv
<1>2. /\ job[t].stage = "write" /\ JobStep(t) /\ OthersSame(t)
      /\ UNCHANGED <<tableVars, promised, disk>>
      /\ \/ job'[t] = NoJob
         \/ /\ Becomes(job[t], job'[t], "stat") /\ job'[t].inode = job[t].inode
            /\ job'[t].clean => Write(t)
  BY <1>1, WriteStep, WriteFile DEF storeVars, tableVars
<1>3. \A s \in Threads : Carries(job[s], job'[s])
  BY <1>1, <1>2, JobCarries
<1>4. job'[t].stage \in {"idle", "stat"}
  BY <1>2, NoJobGood DEF Becomes
<1>5. CleanInv'
  <2>1. \A s \in Threads : job'[s].stage = "remove" => Deep(job'[s])
    BY <1>1, <1>2, <1>4 DEF OthersSame, CleanInv
  <2>2. QED BY <1>1, <1>2, <1>3, <2>1, CleanSame
<1>6. \A p \in Paths : p # Target(t) => Safe(p)
  <2>1. SUFFICES ASSUME NEW p \in Paths, p # Target(t), disk[p] # 0
                 PROVE  data'[disk[p]] = data[disk[p]]
    BY <1>2 DEF Safe
  <2>2. disk[p] \in 1 .. Len(data)
    BY <1>1, <2>1 DEF TypesInv, FileTypes
  <2>3. disk[p] # job[t].inode
    BY <1>1, <2>1, PlaceTarget DEF InodeInv
  <2>4. QED BY <1>1, <2>2, <2>3, WriteFile
<1>7. UploadDisk(t)'
  <2>1. SUFFICES ASSUME job'[t].stage = "stat", job'[t].clean
                 PROVE  /\ disk'[Place(job'[t])] = job'[t].inode
                        /\ data'[job'[t].inode] = Bytes(job'[t])
    BY <1>4 DEF UploadDisk
  <2>2. /\ Becomes(job[t], job'[t], "stat") /\ job'[t].inode = job[t].inode
        /\ Write(t) /\ job[t].clean
    BY <1>2, <2>1, NoJobGood DEF Becomes
  <2>3. Place(job'[t]) = Place(job[t]) /\ Bytes(job'[t]) = Bytes(job[t])
    BY <1>2, <2>2 DEF Place, Bytes, Becomes, UpStages
  <2>4. disk[Place(job[t])] = job[t].inode /\ data[job[t].inode] = <<>>
    BY <1>1, <1>2, <2>2 DEF UploadDisk
  <2>5. job[t].inode \in 1 .. Len(data)
    BY <1>1, <1>2, OpenInode DEF Closed
  <2>6. QED BY <1>1, <1>2, <2>2, <2>3, <2>4, <2>5, WriteFile
<1>8. Up(t) /\ job'[t].stage # "insert"
  BY <1>2, <1>4 DEF Up, UpStages
<1>9. QED BY <1>2, <1>3, <1>5, <1>6, <1>7, <1>8, UpApart, FileSame

LEMMA KeptQuits ==
    ASSUME KeptInv, FilesInv', NEW t \in Threads, JobStep(t), job'[t] = NoJob,
           UNCHANGED <<tableVars, disk, data>>,
           \A n \in Names : promised'[n] \in {promised[n], Nothing}
    PROVE  KeptInv'
<1>1. JobTypes /\ CleanInv
  BY DEF KeptInv, FilesInv, TypesInv
<1>2. \A s \in Threads : Carries(job[s], job'[s])
  BY <1>1, JobCarries
<1>3. \A s \in Threads :
         /\ job'[s].stage \in {"write", "stat", "insert"} =>
               job'[s].stage = job[s].stage /\ job'[s].inode = job[s].inode
         /\ job'[s].stage = "remove" => Deep(job'[s])
  BY <1>1, NoJobGood DEF JobStep, OthersSame, CleanInv
<1>4. CleanInv'
  BY <1>1, <1>2, <1>3, CleanSame
<1>5. QED BY <1>2, <1>3, <1>4, RestSame

(* The steps of a download; the one that removes is of a deep file. *)
LEMMA KeptDown ==
    ASSUME KeptInv, FilesInv', NEW t \in Threads, DownStep(t)
    PROVE  KeptInv'
<1>1. FilesInv /\ TypesInv /\ JobTypes /\ CleanInv
  BY DEF KeptInv, FilesInv, TypesInv
<1>2. JobStep(t) /\ OthersSame(t) /\ Down(t) /\ UNCHANGED <<tableVars, data, promised>>
  BY <1>1 DEF DownStep, JobStep, DownStages, storeVars, tableVars, Down
<1>3. \A s \in Threads : Carries(job[s], job'[s])
  BY <1>1, <1>2, JobCarries
<1>4. job'[t].stage \in DownStages \cup {"idle"}
  BY <1>2, NoJobGood DEF DownStep, Becomes, DownStages
<1>5. job'[t].stage = "remove" => Deep(job'[t])
  <2>1. SUFFICES ASSUME job'[t].stage = "remove" PROVE Deep(job'[t])
    OBVIOUS
  <2>2. /\ job[t].stage = "read" /\ Becomes(job[t], job'[t], "remove")
        /\ job[t].info.path # Target(t)
    BY <2>1, NoJobGood DEF DownStep, Becomes
  <2>3. Target(t) = Low(job[t].name) /\ job[t].info \in RecordOf(job[t].name)
        /\ job[t].name \in Names
    BY <1>1, <2>2, PlaceTarget DEF Place, UpStages, DownStages, JobTypes, GoodJob, Low
  <2>4. job[t].info.path[1] = "deep" /\ job[t].info # Raw
    BY <2>2, <2>3, FileAssumption DEF RecordOf, Types, Low, Paths
  <2>5. QED BY <2>2, <2>4 DEF Deep, Becomes
<1>6. CleanInv'
  <2>1. \A s \in Threads : job'[s].stage = "remove" => Deep(job'[s])
    BY <1>1, <1>2, <1>5 DEF OthersSame, CleanInv
  <2>2. QED BY <1>1, <1>2, <1>3, <2>1, CleanSame
<1>7. CASE UNCHANGED disk
  <2>1. \A s \in Threads : job'[s].stage \in {"write", "stat", "insert"} =>
           job'[s].stage = job[s].stage /\ job'[s].inode = job[s].inode
    BY <1>2, <1>4 DEF OthersSame, DownStages
  <2>2. QED BY <1>2, <1>3, <1>6, <1>7, <2>1, RestSame
<1>8. CASE Remove(t)
  <2>1. /\ job[t].stage = "remove" /\ disk' = [disk EXCEPT ![Target(t)] = 0]
    BY <1>8 DEF Remove
  <2>2. Deep(job[t]) /\ Target(t) = Low(job[t].name) /\ job[t].name \in Names
    BY <1>1, <2>1, PlaceTarget
    DEF Place, UpStages, DownStages, Low, CleanInv, JobTypes, GoodJob
  <2>3. \A p \in Paths : p # Target(t) => Safe(p)
    BY <1>1, <1>2, <2>1 DEF Safe, TypesInv, FileTypes
  <2>4. \A n \in Names : promised[n] # Nothing => <<promised[n].type, n>> # Target(t)
    BY <1>1, <1>2, <2>2 DEF CleanInv, Low
  <2>5. \A s \in Threads \ {t} : Up(s) /\ job[s].clean => Place(job[s]) # Target(t)
    BY <1>1, <1>2, <2>2 DEF CleanInv, Low, Place, Up
  <2>6. UploadDisk(t)' /\ job'[t].stage # "insert"
    BY <1>4 DEF UploadDisk, DownStages
  <2>7. QED BY <1>2, <1>3, <1>6, <2>3, <2>4, <2>5, <2>6, FileSame
<1>9. QED BY <1>7, <1>8 DEF DownStep

LEMMA KeptStart ==
    ASSUME KeptInv, FilesInv', NEW t \in Threads, NEW n \in Names, NEW type \in Types,
           NEW c \in Contents, StartUpload(t, n, type, c)
    PROVE  KeptInv'
<1>1. FilesInv /\ TypesInv /\ JobTypes /\ CleanInv
  BY DEF KeptInv, FilesInv, TypesInv
<1> DEFINE others == {s \in Threads : ~Idle(s) /\ job[s].name = n}
<1>2. /\ Idle(t) /\ OthersKeep(t) /\ job'[t].stage = "create" /\ job'[t].name = n
      /\ job'[t].clean = \A s \in others : Downloading(s) /\ ~Deep(job[s])
      /\ \A s \in others : ~job'[s].clean
  BY <1>1, StartStep
<1>3. \A s \in Threads \ {t} :
         /\ job'[s].name = job[s].name /\ job'[s].stage = job[s].stage
         /\ Up(s)' <=> Up(s)
         /\ Down(s)' <=> Down(s)
         /\ Deep(job'[s]) <=> Deep(job[s])
         /\ job'[s].clean => job[s].clean
         /\ job'[s].inode = job[s].inode
         /\ Carries(job[s], job'[s])
  BY <1>1, <1>2, OthersName DEF Up, Down, Deep, Carries
<1>4. Up(t)' /\ ~Down(t)'
  BY <1>2 DEF Up, Down, UpStages, DownStages
<1>5. \A s \in Threads : (Up(s) => ~Idle(s) /\ ~Downloading(s)) /\ (Down(s) => ~Idle(s))
  BY DEF Up, Down, UpStages, DownStages, Idle, Uploading, Downloading
<1>6. \A s \in Threads : (Up(s) \/ Down(s)) /\ job[s].name = n => s \in others
  BY <1>5
<1>7. /\ promised' = [promised EXCEPT ![n] = Nothing]
      /\ UNCHANGED <<tableVars, disk, data>>
  BY DEF StartUpload, storeVars, tableVars, fileVars
<1>8. promised'[n] = Nothing /\ \A m \in Names \ {n} : promised'[m] = promised[m]
  BY <1>1, <1>7 DEF TypesInv, FileTypes
<1> HIDE DEF others
<1>9. \A r, s \in Threads :
          Up(s)' /\ job'[s].clean /\ r # s /\ job'[r].name = job'[s].name =>
             ~Up(r)' /\ (Down(r)' => ~Deep(job'[r]))
  <2>1. SUFFICES ASSUME NEW r \in Threads, NEW s \in Threads, Up(s)', job'[s].clean, r # s,
                        job'[r].name = job'[s].name
                 PROVE  ~Up(r)' /\ (Down(r)' => ~Deep(job'[r]))
    OBVIOUS
  <2>2. CASE s = t
    BY <1>2, <1>3, <1>5, <1>6, <2>1, <2>2
  <2>3. CASE r = t
    BY <1>2, <1>3, <1>6, <2>1, <2>3
  <2>4. CASE r # t /\ s # t
    BY <1>1, <1>3, <2>1, <2>4 DEF CleanInv
  <2>5. QED BY <2>2, <2>3, <2>4
<1>10. \A r, s \in Threads : Down(s)' /\ job'[s].clean /\ job'[r].name = job'[s].name => ~Up(r)'
  <2>1. SUFFICES ASSUME NEW r \in Threads, NEW s \in Threads, Down(s)', job'[s].clean,
                        job'[r].name = job'[s].name
                 PROVE  ~Up(r)'
    OBVIOUS
  <2>2. s # t
    BY <1>4, <2>1
  <2>3. CASE r = t
    BY <1>2, <1>3, <1>6, <2>1, <2>2, <2>3
  <2>4. CASE r # t
    BY <1>1, <1>3, <2>1, <2>2, <2>4 DEF CleanInv
  <2>5. QED BY <2>3, <2>4
<1>11. \A m \in Names, s \in Threads : promised'[m] # Nothing /\ job'[s].name = m =>
          ~Up(s)' /\ (promised'[m].type = "low" /\ Down(s)' => ~Deep(job'[s]))
  <2>1. SUFFICES ASSUME NEW m \in Names, NEW s \in Threads, promised'[m] # Nothing,
                        job'[s].name = m
                 PROVE  ~Up(s)' /\ (promised'[m].type = "low" /\ Down(s)' => ~Deep(job'[s]))
    OBVIOUS
  <2>2. m # n /\ promised'[m] = promised[m]
    BY <1>8, <2>1
  <2>3. s # t
    BY <1>2, <2>1, <2>2
  <2>4. QED BY <1>1, <1>3, <2>1, <2>2, <2>3 DEF CleanInv
<1>12. \A s \in Threads : job'[s].stage = "remove" => Deep(job'[s])
  BY <1>1, <1>2, <1>3 DEF CleanInv
<1>13. CleanInv'
  BY <1>9, <1>10, <1>11, <1>12 DEF CleanInv
<1>14. \A s \in Threads : job'[s].stage \in {"write", "stat", "insert"} =>
          /\ Carries(job[s], job'[s])
          /\ job'[s].stage = job[s].stage /\ job'[s].inode = job[s].inode
  BY <1>2, <1>3
<1>15. \A m \in Names : promised'[m] \in {promised[m], Nothing}
  BY <1>8
<1>16. QED BY <1>7, <1>13, <1>14, <1>15, RestSame

LEMMA KeptLookup ==
    ASSUME KeptInv, FilesInv', NEW t \in Threads, NEW n \in Names, Lookup(t, n),
           n \in DOMAIN table, Held!UploadsKept
    PROVE  KeptInv'
<1>1. FilesInv /\ TypesInv /\ JobTypes /\ CleanInv /\ AgreeStore(n)
  BY DEF KeptInv, FilesInv, TypesInv, StoreInv
<1>2. UNCHANGED <<tableVars, disk, data, promised>>
  BY DEF Lookup, Find, Store!GetOneByURL, tableVars, fileVars
<1> DEFINE others == {s \in Threads : Uploading(s) /\ job[s].name = n}
<1>3. CASE JobStep(t) /\ job'[t] = NoJob
  BY <1>2, <1>3, KeptQuits
<1>4. CASE /\ job'[t].stage = "exists" /\ job'[t].name = n /\ job'[t].info = table[n]
           /\ job'[t].clean = (others = {})
           /\ Deep(job'[t]) => \A s \in others : ~job'[s].clean
  <2>1. OthersKeep(t)
    BY <1>1, FindStep
  <2>2. \A s \in Threads \ {t} :
           /\ job'[s].name = job[s].name /\ job'[s].stage = job[s].stage
           /\ Up(s)' <=> Up(s)
           /\ Down(s)' <=> Down(s)
           /\ Deep(job'[s]) <=> Deep(job[s])
           /\ job'[s].clean => job[s].clean
           /\ job'[s].inode = job[s].inode
           /\ Carries(job[s], job'[s])
    BY <1>1, <2>1, OthersName DEF Up, Down, Deep, Carries
  <2>3. ~Up(t)' /\ Down(t)'
    BY <1>4 DEF Up, Down, UpStages, DownStages
  <2>4. \A s \in Threads : Up(s) /\ job[s].name = n => s \in others
    BY DEF Up, UpStages, Uploading
  <2>5. promised[n] # Nothing /\ promised[n].type = "low" => ~Deep(job'[t])
    <3>1. SUFFICES ASSUME promised[n] # Nothing, promised[n].type = "low" PROVE ~Deep(job'[t])
      OBVIOUS
    <3>2. proc = "up"
      BY DEF Lookup, Find, Store!GetOneByURL
    <3>3. table[n] = RecOf(n, promised[n])
      BY <1>1, <3>1, <3>2 DEF AgreeStore, Held!UploadsKept
    <3>4. QED BY <1>4, <3>1, <3>3 DEF RecOf, Deep
  <2> HIDE DEF others
  <2>6. \A r, s \in Threads :
            Up(s)' /\ job'[s].clean /\ r # s /\ job'[r].name = job'[s].name =>
               ~Up(r)' /\ (Down(r)' => ~Deep(job'[r]))
    <3>1. SUFFICES ASSUME NEW r \in Threads, NEW s \in Threads, Up(s)', job'[s].clean, r # s,
                          job'[r].name = job'[s].name
                   PROVE  ~Up(r)' /\ (Down(r)' => ~Deep(job'[r]))
      OBVIOUS
    <3>2. s # t
      BY <2>3, <3>1
    <3>3. CASE r = t
      BY <1>4, <2>2, <2>3, <2>4, <3>1, <3>2, <3>3
    <3>4. CASE r # t
      BY <1>1, <2>2, <3>1, <3>2, <3>4 DEF CleanInv
    <3>5. QED BY <3>3, <3>4
  <2>7. \A r, s \in Threads : Down(s)' /\ job'[s].clean /\ job'[r].name = job'[s].name => ~Up(r)'
    <3>1. SUFFICES ASSUME NEW r \in Threads, NEW s \in Threads, Down(s)', job'[s].clean,
                          job'[r].name = job'[s].name
                   PROVE  ~Up(r)'
      OBVIOUS
    <3>2. CASE r = t
      BY <2>3, <3>2
    <3>3. CASE r # t /\ s = t
      BY <1>4, <2>2, <2>4, <3>1, <3>3
    <3>4. CASE r # t /\ s # t
      BY <1>1, <2>2, <3>1, <3>4 DEF CleanInv
    <3>5. QED BY <3>2, <3>3, <3>4
  <2>8. \A m \in Names, s \in Threads : promised'[m] # Nothing /\ job'[s].name = m =>
            ~Up(s)' /\ (promised'[m].type = "low" /\ Down(s)' => ~Deep(job'[s]))
    <3>1. SUFFICES ASSUME NEW m \in Names, NEW s \in Threads, promised'[m] # Nothing,
                          job'[s].name = m
                   PROVE  ~Up(s)' /\ (promised'[m].type = "low" /\ Down(s)' => ~Deep(job'[s]))
      OBVIOUS
    <3>2. CASE s = t
      BY <1>2, <1>4, <2>3, <2>5, <3>1, <3>2
    <3>3. CASE s # t
      BY <1>1, <1>2, <2>2, <3>1, <3>3 DEF CleanInv
    <3>4. QED BY <3>2, <3>3
  <2>9. \A s \in Threads : job'[s].stage = "remove" => Deep(job'[s])
    BY <1>1, <1>4, <2>2 DEF CleanInv
  <2>10. CleanInv'
    BY <2>6, <2>7, <2>8, <2>9 DEF CleanInv
  <2>11. \A s \in Threads : job'[s].stage \in {"write", "stat", "insert"} =>
            /\ Carries(job[s], job'[s])
            /\ job'[s].stage = job[s].stage /\ job'[s].inode = job[s].inode
    BY <1>4, <2>2
  <2>12. QED BY <1>2, <2>10, <2>11, RestSame
<1>5. QED BY <1>1, <1>3, <1>4, FindStep

(* The look at the file gives the record of the upload. *)
LEMMA KeptLook ==
    ASSUME KeptInv, FilesInv', NEW t \in Threads, NewStorageInfo(t)
    PROVE  KeptInv'
<1>1. FilesInv /\ TypesInv /\ JobTypes /\ InodeInv /\ CleanInv /\ ApartInv' /\ ApartInv
  BY DEF KeptInv, FilesInv, TypesInv
<1>2. /\ job[t].stage = "stat" /\ JobStep(t) /\ OthersSame(t)
      /\ job'[t].stage = "insert" /\ Becomes(job[t], job'[t], "insert")
      /\ job'[t].inode = job[t].inode /\ job'[t].clean = job[t].clean
      /\ Target(t) = <<job[t].type, job[t].name>>
  BY <1>1, LookStep DEF Becomes
<1>3. UNCHANGED <<disk, data, promised>>
  BY DEF NewStorageInfo, LookAt, fileVars
<1>4. \A s \in Threads : Carries(job[s], job'[s])
  BY <1>1, <1>2, JobCarries
<1>5. CleanInv'
  <2>1. \A s \in Threads : job'[s].stage = "remove" => Deep(job'[s])
    BY <1>1, <1>2 DEF OthersSame, CleanInv
  <2>2. QED BY <1>1, <1>3, <1>4, <2>1, CleanSame
<1>6. \A n \in Names : AgreeDisk(n)'
  BY <1>3 DEF KeptInv, DiskInv, AgreeDisk
<1>7. \A s \in Threads : UploadDisk(s)'
  <2>1. SUFFICES ASSUME NEW s \in Threads PROVE UploadDisk(s)'
    OBVIOUS
  <2>2. UploadDisk(s) /\ Safe(Place(job[s]))
    BY <1>3 DEF KeptInv, DiskInv, Safe
  <2>3. QED BY <1>1, <1>2, <1>4, <2>2, UploadDiskSame DEF OthersSame
<1>8. /\ pc' = [pc EXCEPT ![t] = "insert"] /\ pc[t] = "idle" /\ proc = "up"
      /\ UNCHANGED <<snap, table, file, toLoad>>
      /\ \A s \in Store!Procs \ {t} : arg'[s] = arg[s]
  BY <1>1, RecordsLook
<1>9. /\ t \in Store!Procs /\ Main \in Store!Procs /\ Main # t /\ Threads \subseteq Store!Procs
      /\ DOMAIN pc = Store!Procs
  BY <1>1, FileAssumption DEF Store!Procs, ApartInv, Shape
<1>10. pc'[t] = "insert" /\ \A s \in Store!Procs \ {t} : pc'[s] = pc[s] /\ arg'[s] = arg[s]
  BY <1>8, <1>9
<1>11. \A n \in Names : AgreeStore(n)'
  <2>1. SUFFICES ASSUME NEW n \in Names, promised[n] # Nothing PROVE AgreeStore(n)'
    BY <1>3 DEF AgreeStore
  <2>2. AgreeStore(n) /\ n # job[t].name /\ n # NoUrl
    BY <1>1, <1>2, <2>1, FileAssumption DEF KeptInv, StoreInv, CleanInv, Up, UpStages
  <2>3. PICK u \in {job[t].name, NoUrl} : kept' = Store!Only(kept, DOMAIN kept \ {u})
    BY <1>9 DEF NewStorageInfo, LookAt, Store!Upload, Store!StartInsert
  <2>4. n \in DOMAIN kept' /\ kept'[n] = kept[n]
    BY <2>1, <2>2, <2>3 DEF AgreeStore, Store!Only
  <2>5. QED BY <1>3, <2>2, <2>4, AgreeStoreSame
<1>12. \A s \in Threads : UploadStore(s)'
  <2>1. SUFFICES ASSUME NEW s \in Threads PROVE UploadStore(s)'
    OBVIOUS
  <2>2. CASE s # t
    BY <1>2, <1>8, <1>9, <1>10, <2>2 DEF OthersSame, KeptInv, StoreInv, UploadStore
  <2>3. CASE s = t
    <3>1. SUFFICES ASSUME job[t].clean
                   PROVE  arg'[t] = [url |-> job'[t].name, info |-> RecOf(job'[t].name, job'[t])]
      BY <1>2, <1>10, <2>3 DEF UploadStore
    <3>2. /\ disk[Target(t)] = job[t].inode /\ data[job[t].inode] = Bytes(job[t])
          /\ job[t].inode # 0
      BY <1>1, <1>2, <3>1, PlaceTarget DEF KeptInv, DiskInv, UploadDisk, InodeInv, Closed
    <3>3. FileSize(Target(t)) = Len(Bytes(job[t]))
      BY <3>2 DEF FileSize
    <3>4. arg'[t] = [url |-> job[t].name,
                     info |-> [path |-> <<job[t].type, job[t].name>>,
                               size |-> FileSize(Target(t))]]
      BY <1>1, <3>2, RecordsLook
    <3>5. RecOf(job'[t].name, job'[t]) = [path |-> <<job[t].type, job[t].name>>,
                                          size |-> Len(Bytes(job[t]))]
      BY <1>2 DEF RecOf, Bytes, Becomes
    <3>6. job'[t].name = job[t].name
      BY <1>2 DEF Becomes
    <3>7. QED BY <3>3, <3>4, <3>5, <3>6
  <2>4. QED BY <2>2, <2>3
<1>13. QED
  BY <1>5, <1>6, <1>7, <1>11, <1>12 DEF KeptInv, DiskInv, StoreInv

(* An upload that returns makes its promise, if it is clean. *)
LEMMA KeptUploaded ==
    ASSUME KeptInv, FilesInv', NEW t \in Threads, Uploaded(t), Held!UploadsKept
    PROVE  KeptInv'
<1>1. FilesInv /\ TypesInv /\ JobTypes /\ InodeInv /\ CleanInv /\ ApartInv
  BY DEF KeptInv, FilesInv, TypesInv
<1>2. /\ job[t].stage = "insert" /\ pc[t] = "idle" /\ job' = [job EXCEPT ![t] = NoJob]
      /\ UNCHANGED <<tableVars, disk, data>>
  BY DEF Uploaded, Ends, Store!Idle, storeVars, tableVars, fileVars
<1>3. JobStep(t) /\ job'[t] = NoJob /\ OthersSame(t)
  BY <1>1, <1>2, EndStep DEF JobStep
<1>n. PICK n : n = job[t].name
  OBVIOUS
<1>d. PICK d : d = [type |-> job[t].type, content |-> job[t].content]
  OBVIOUS
<1> DEFINE keeps == /\ job[t].clean /\ job[t].name \in DOMAIN kept
                    /\ Text[job[t].content] = Size[job[t].content]
<1>4. /\ n \in Names /\ Up(t) /\ job[t].type \in Types /\ job[t].content \in Contents
  BY <1>1, <1>2, <1>n DEF JobTypes, GoodJob, JobRecord, UpStages, Up
<1>5. promised' = [promised EXCEPT ![n] = IF keeps THEN d ELSE Nothing]
  BY <1>n, <1>d DEF Uploaded
<1>6. /\ promised'[n] = IF keeps THEN d ELSE Nothing
      /\ \A m \in Names \ {n} : promised'[m] = promised[m]
  BY <1>1, <1>4, <1>5 DEF TypesInv, FileTypes
<1>7. CASE ~keeps
  <2>1. \A m \in Names : promised'[m] \in {promised[m], Nothing}
    BY <1>6, <1>7
  <2>2. QED BY <1>2, <1>3, <2>1, KeptQuits
<1>8. CASE keeps
  <2>1. promised'[n] = d
    BY <1>6, <1>8
  <2>2. Bytes(d) = Bytes(job[t]) /\ RecOf(n, d) = RecOf(n, job[t])
        /\ d.type = job[t].type /\ d.content = job[t].content
    BY <1>d DEF Bytes, RecOf
  <2>3. job[t].clean /\ n \in DOMAIN kept /\ Text[job[t].content] = Size[job[t].content]
    BY <1>8, <1>n
  <2> HIDE DEF keeps
  <2>4. \A s \in Threads \ {t} : job'[s] = job[s]
    BY <1>3 DEF OthersSame
  <2>5. job'[t].stage = "idle" /\ ~Up(t)' /\ ~Down(t)'
    BY <1>3, NoJobGood DEF Up, Down, UpStages, DownStages
  <2>6. \A s \in Threads \ {t} : (Up(s)' <=> Up(s)) /\ (Down(s)' <=> Down(s))
    BY <2>4 DEF Up, Down
  <2>7. CleanInv'
    <3>1. \A r, s \in Threads :
              Up(s)' /\ job'[s].clean /\ r # s /\ job'[r].name = job'[s].name =>
                 ~Up(r)' /\ (Down(r)' => ~Deep(job'[r]))
      BY <1>1, <2>4, <2>5, <2>6 DEF CleanInv
    <3>2. \A r, s \in Threads : Down(s)' /\ job'[s].clean /\ job'[r].name = job'[s].name => ~Up(r)'
      BY <1>1, <2>4, <2>5, <2>6 DEF CleanInv
    <3>3. \A m \in Names, s \in Threads : promised'[m] # Nothing /\ job'[s].name = m =>
              ~Up(s)' /\ (promised'[m].type = "low" /\ Down(s)' => ~Deep(job'[s]))
      <4>1. SUFFICES ASSUME NEW m \in Names, NEW s \in Threads, promised'[m] # Nothing,
                            job'[s].name = m
                     PROVE  ~Up(s)' /\ (promised'[m].type = "low" /\ Down(s)' => ~Deep(job'[s]))
        OBVIOUS
      <4>2. CASE s = t
        BY <2>5, <4>2
      <4>3. CASE s # t /\ m # n
        BY <1>1, <1>6, <2>4, <2>6, <4>1, <4>3 DEF CleanInv
      <4>4. CASE s # t /\ m = n
        BY <1>1, <1>4, <1>n, <2>3, <2>4, <2>6, <4>1, <4>4 DEF CleanInv
      <4>5. QED BY <4>2, <4>3, <4>4
    <3>4. \A s \in Threads : job'[s].stage = "remove" => Deep(job'[s])
      BY <1>1, <2>4, <2>5 DEF CleanInv
    <3>5. QED BY <3>1, <3>2, <3>3, <3>4 DEF CleanInv
  <2>8. proc = "up"
    BY <1>1, <1>2 DEF ApartInv, Idle
  <2>9. table[n] = RecOf(n, d)
    BY <1>2, <1>n, <2>2, <2>3 DEF KeptInv, StoreInv, UploadStore
  <2>10. kept[n] = RecOf(n, d)
    BY <2>3, <2>8, <2>9 DEF Held!UploadsKept
  <2>11. \A m \in Names : AgreeStore(m)'
    <3>1. AgreeStore(n)'
      BY <1>2, <2>1, <2>2, <2>3, <2>10 DEF AgreeStore, tableVars
    <3>2. ASSUME NEW m \in Names \ {n} PROVE AgreeStore(m)'
      BY <1>2, <1>6, <3>2 DEF KeptInv, StoreInv, AgreeStore, tableVars
    <3>3. QED BY <3>1, <3>2
  <2>12. \A m \in Names : AgreeDisk(m)'
    <3>1. AgreeDisk(n)'
      <4>1. Place(job[t]) = <<d.type, n>>
        BY <1>2, <1>n, <2>2 DEF Place, UpStages
      <4>2. disk[<<d.type, n>>] = job[t].inode /\ data[job[t].inode] = Bytes(d)
            /\ job[t].inode # 0
        BY <1>1, <1>2, <2>2, <2>3, <4>1 DEF KeptInv, DiskInv, UploadDisk, InodeInv, Closed
      <4>3. QED BY <1>2, <2>1, <4>2 DEF AgreeDisk
    <3>2. ASSUME NEW m \in Names \ {n} PROVE AgreeDisk(m)'
      BY <1>2, <1>6, <3>2 DEF KeptInv, DiskInv, AgreeDisk
    <3>3. QED BY <3>1, <3>2
  <2>13. \A s \in Threads : UploadDisk(s)' /\ UploadStore(s)'
    <3>1. UploadDisk(t)' /\ UploadStore(t)'
      BY <2>5 DEF UploadDisk, UploadStore
    <3>2. ASSUME NEW s \in Threads \ {t} PROVE UploadDisk(s)' /\ UploadStore(s)'
      <4>1. UploadDisk(s) /\ UploadStore(s) /\ Carries(job[s], job'[s])
        BY <2>4 DEF KeptInv, DiskInv, StoreInv, Carries
      <4>2. UploadStore(s)'
        BY <1>2, <2>4, <4>1, UploadStoreSame
      <4>3. UploadDisk(s)'
        BY <1>2, <2>4, <4>1 DEF UploadDisk
      <4>4. QED BY <4>2, <4>3
    <3>3. QED BY <3>1, <3>2
  <2>14. QED BY <2>7, <2>11, <2>12, <2>13 DEF KeptInv, DiskInv, StoreInv
<1>9. QED BY <1>7, <1>8

(* What the file of the table is known to hold changes for no name but by   *)
(* the upload of it: it is forgotten, or the whole table.                   *)
LEMMA KeptTable ==
    ASSUME TypesInv, Held!UploadsKept, NEW n \in DOMAIN kept, n \in DOMAIN kept',
           (\E t \in Threads \cup {Main} : Insert(t)) \/ Start \/ Crash
    PROVE  kept'[n] = kept[n]
<1>1. DOMAIN Store!NoRecords = {}
  BY NoneNamed
<1>2. ASSUME NEW t \in Threads \cup {Main}, Insert(t) PROVE kept'[n] = kept[n]
  <2>1. Store!Insert(t) /\ (t # Main => t \in Threads)
    BY <1>2 DEF Insert
  <2>2. CASE kept' \in {kept, Store!NoRecords}
    BY <1>1, <2>2
  <2>3. CASE Store!WriteFile(t) /\ t # Main /\ kept' = table
    <3>1. proc = "up"
      BY <2>1, <2>3 DEF Store!WriteFile, TypesInv, ApartInv, Idle
    <3>2. QED BY <2>3, <3>1 DEF Held!UploadsKept
  <2>4. QED
    BY <2>1, <2>2, <2>3
    DEF Store!Insert, Store!InsertRecord, Store!StorageGetAll, Store!OpenFile,
        Store!OpenFails, Store!WriteFile, Store!WriteFails
<1>3. ASSUME Start \/ Crash PROVE kept'[n] = kept[n]
  <2>1. kept' \in {kept, Store!NoRecords}
    BY <1>3
    DEF Start, Crash, Store!Load, Store!LoadThrows, Store!LoadDone, Store!Restart,
        Store!Crash, Store!Die, Store!StartInsert, Store!tvars
  <2>2. QED BY <1>1, <2>1
<1>4. QED BY <1>2, <1>3

LEMMA AgreeTable ==
    ASSUME KeptInv, Held!UploadsKept, KeepPromises,
           (\E t \in Threads \cup {Main} : Insert(t)) \/ Start \/ Crash
    PROVE  \A n \in Names : AgreeStore(n)' /\ promised'[n] \in {promised[n], Nothing}
<1>1. SUFFICES ASSUME NEW n \in Names
               PROVE  AgreeStore(n)' /\ promised'[n] \in {promised[n], Nothing}
  OBVIOUS
<1>2. TypesInv /\ FileTypes /\ AgreeStore(n)
  BY DEF KeptInv, StoreInv, FilesInv, TypesInv
<1>3. promised'[n] \in {promised[n], Nothing} /\ (promised'[n] # Nothing => n \in DOMAIN kept')
  BY <1>2, Withdraws
<1>4. promised'[n] # Nothing => n \in DOMAIN kept
  BY <1>2, <1>3 DEF AgreeStore
<1>5. promised'[n] # Nothing => kept'[n] = kept[n]
  BY <1>2, <1>3, <1>4, KeptTable
<1>6. QED BY <1>2, <1>3, <1>5, AgreeStoreSame

(* The steps of Insert. *)
LEMMA UploadInsert ==
    ASSUME KeptInv, NEW t \in Store!Procs, Insert(t)
    PROVE  \A s \in Threads : UploadStore(s)'
<1>1. TypesInv /\ RecordsInv /\ ApartInv /\ CleanInv /\ StoreInv
  BY DEF KeptInv, FilesInv, TypesInv
<1>2. Store!Insert(t) /\ UNCHANGED job
  BY DEF Insert
<1>3. Main \in Store!Procs /\ Threads \subseteq Store!Procs /\ Main \notin Threads
      /\ Store!Procs = Threads \cup {Main}
  BY FileAssumption DEF Store!Procs
<1>4. /\ pc[t] # "idle"
      /\ \A s \in Store!Procs \ {t} : pc'[s] = pc[s] /\ arg'[s] = arg[s]
  BY <1>1, <1>2, InsertStep
<1>5. t \in Threads =>
         /\ job[t].stage = "insert" /\ Up(t) /\ job[t].name \in Names
         /\ arg[t].url \in {job[t].name, NoUrl}
  BY <1>1, <1>4 DEF ApartInv, Up, UpStages, TypesInv, JobTypes, GoodJob, RecordsInv
<1>6. t \notin Threads => t = Main /\ \A s \in Threads : job[s].stage = "idle"
  BY <1>1, <1>3, <1>4 DEF ApartInv, Idle
<1>7. SUFFICES ASSUME NEW s \in Threads PROVE UploadStore(s)'
  OBVIOUS
<1>8. CASE /\ pc[t] = "insert" /\ pc'[t] = "getall"
           /\ table' = Store!Put(table, arg[t].url, arg[t].info)
           /\ UNCHANGED arg
  <2>1. /\ arg[t].url \in DOMAIN table' /\ table'[arg[t].url] = arg[t].info
        /\ DOMAIN table' = DOMAIN table \cup {arg[t].url}
        /\ \A v \in DOMAIN table : v # arg[t].url => table'[v] = table[v]
    <3>1. /\ arg[t].url \in Names \cup {NoUrl} /\ Named(table)
          /\ arg[t].url \in Names => arg[t].info \in RecordOf(arg[t].url)
      BY <1>1, <1>4 DEF RecordsInv
    <3>2. QED BY <1>8, <3>1, PutNamed
  <2>2. CASE t \notin Threads
    BY <1>2, <1>6, <2>2 DEF UploadStore
  <2>3. CASE s = t
    BY <1>1, <1>2, <1>8, <2>1, <2>3 DEF UploadStore, StoreInv
  <2>4. CASE t \in Threads /\ s # t
    <3>1. SUFFICES ASSUME job[s].stage = "insert", job[s].clean PROVE UploadStore(s)'
      BY <1>2 DEF UploadStore
    <3>2. Up(s) /\ job[s].name # job[t].name /\ job[s].name # NoUrl
      BY <1>1, <1>5, <2>4, <3>1, FileAssumption
      DEF CleanInv, Up, UpStages, TypesInv, JobTypes, GoodJob
    <3>3. pc'[s] = pc[s] /\ arg'[s] = arg[s]
      BY <1>3, <1>4, <2>4
    <3>4. QED BY <1>1, <1>2, <1>5, <2>1, <2>4, <3>2, <3>3 DEF UploadStore, StoreInv
  <2>5. QED BY <2>2, <2>3, <2>4
<1>9. CASE UNCHANGED table /\ pc[t] # "insert" /\ pc'[t] # "insert"
  <2>1. pc'[s] = "insert" <=> pc[s] = "insert"
    BY <1>3, <1>4, <1>9
  <2>2. pc'[s] = "insert" => arg'[s] = arg[s]
    BY <1>3, <1>4, <1>9
  <2>3. QED BY <1>1, <1>2, <1>9, <2>1, <2>2 DEF UploadStore, StoreInv
<1>10. QED
  BY <1>1, <1>2, <1>8, <1>9, InsertStep

LEMMA DiskSame ==
    ASSUME KeptInv, UNCHANGED <<disk, data>>,
           \A n \in Names : promised'[n] \in {promised[n], Nothing}
    PROVE  \A n \in Names : AgreeDisk(n)'
BY DEF KeptInv, DiskInv, AgreeDisk

LEMMA KeptInsert ==
    ASSUME KeptInv, FilesInv', Held!UploadsKept, NEW t \in Threads \cup {Main}, Insert(t)
    PROVE  KeptInv'
<1>1. UNCHANGED <<job, disk, data>> /\ t \in Store!Procs /\ KeepPromises
  BY DEF Insert, fileVars, Store!Procs
<1>2. \A n \in Names : AgreeStore(n)' /\ promised'[n] \in {promised[n], Nothing}
  BY <1>1, AgreeTable
<1>3. CleanInv'
  <2>1. CleanInv /\ \A s \in Threads : Carries(job[s], job'[s])
    BY <1>1 DEF KeptInv, Carries
  <2>2. \A s \in Threads : job'[s].stage = "remove" => Deep(job'[s])
    BY <1>1, <2>1 DEF CleanInv
  <2>3. QED BY <1>2, <2>1, <2>2, CleanSame
<1>4. DiskInv'
  BY <1>1, <1>2, DiskSame DEF KeptInv, DiskInv, UploadDisk
<1>5. \A s \in Threads : UploadStore(s)'
  BY <1>1, UploadInsert
<1>6. QED BY <1>2, <1>3, <1>4, <1>5 DEF KeptInv, StoreInv

(* Without jobs only the promises are left to look after. *)
LEMMA KeptProcess ==
    ASSUME KeptInv, FilesInv', Held!UploadsKept, Start \/ Crash
    PROVE  KeptInv'
<1>1. TypesInv /\ ApartInv
  BY DEF KeptInv, FilesInv, TypesInv
<1>2. UNCHANGED <<disk, data>> /\ KeepPromises
  BY DEF Start, Crash, fileVars
<1>3. \A s \in Threads : job'[s].stage = "idle"
  <2>1. CASE Start
    BY <1>1, <2>1
    DEF Start, Store!Load, Store!LoadThrows, Store!LoadDone, Store!Restart, ApartInv, Idle
  <2>2. CASE Crash
    BY <2>2, NoJobGood DEF Crash
  <2>3. QED BY <2>1, <2>2
<1>4. \A n \in Names : AgreeStore(n)' /\ promised'[n] \in {promised[n], Nothing}
  BY <1>2, AgreeTable
<1>5. \A s \in Threads : ~Up(s)' /\ ~Down(s)'
  BY <1>3 DEF Up, Down, UpStages, DownStages
<1>6. CleanInv'
  BY <1>3, <1>5 DEF CleanInv
<1>7. DiskInv'
  BY <1>2, <1>3, <1>4, DiskSame DEF DiskInv, UploadDisk
<1>8. StoreInv'
  BY <1>3, <1>4 DEF StoreInv, UploadStore
<1>9. QED BY <1>6, <1>7, <1>8 DEF KeptInv

LEMMA KeptInit == Init => KeptInv
<1> SUFFICES ASSUME Init PROVE KeptInv
  OBVIOUS
<1>1. FilesInv /\ \A s \in Threads : job[s].stage = "idle"
  BY FilesInvInit, NoJobGood DEF Init
<1>2. \A n \in Names : promised[n] = Nothing
  BY DEF Init
<1>3. \A s \in Threads : ~Up(s) /\ ~Down(s)
  BY <1>1 DEF Up, Down, UpStages, DownStages
<1>4. CleanInv
  BY <1>1, <1>2, <1>3 DEF CleanInv
<1>5. DiskInv /\ StoreInv
  BY <1>1, <1>2 DEF DiskInv, StoreInv, AgreeDisk, AgreeStore, UploadDisk, UploadStore
<1>6. QED BY <1>1, <1>4, <1>5 DEF KeptInv

LEMMA KeptStep == KeptInv /\ Held!UploadsKept /\ [Next]_vars => KeptInv'
<1> SUFFICES ASSUME KeptInv, Held!UploadsKept, [Next]_vars PROVE KeptInv'
  OBVIOUS
<1>1. FilesInv' /\ TypesInv /\ JobTypes /\ ApartInv
  BY FilesInvStep DEF KeptInv, FilesInv, TypesInv
<1>2. ASSUME NEW t \in Threads, Steps(t) PROVE KeptInv'
  <2>1. CASE Quits(t)
    BY <1>1, <2>1, KeptQuits DEF Quits, fileVars
  <2>2. QED
    BY <1>1, <1>2, <2>1, KeptStart, KeptCreate, KeptWrite, KeptLook, KeptUploaded,
       KeptLookup, KeptDown DEF Steps
<1>3. CASE UNCHANGED vars
  <2>1. UNCHANGED <<job, tableVars, disk, data, promised>>
    BY <1>3 DEF vars, storeVars, tableVars, fileVars
  <2>2. CleanInv'
    BY <2>1 DEF KeptInv, CleanInv, Up, Down
  <2>3. \A s \in Threads : Carries(job[s], job'[s])
    BY <2>1 DEF Carries
  <2>4. QED BY <1>1, <2>1, <2>2, <2>3, RestSame
<1>4. QED
  BY <1>1, <1>2, <1>3, StepKinds, KeptInsert, KeptProcess

-----------------------------------------------------------------------------
(* A clean download of a name with a promise, of the low storage, reads     *)
(* what is promised.                                                        *)

Reading == {"size", "buffer", "read"}

Due(j) == promised[j.name]

Serving(t) ==
    /\ Down(t) /\ job[t].clean
    /\ Due(job[t]) # Nothing /\ Due(job[t]).type = "low"

Serve(t) ==
    Serving(t) =>
        /\ job[t].info = RecOf(job[t].name, Due(job[t]))
        /\ job[t].stage \in Reading => job[t].inode = disk[Low(job[t].name)]
        /\ job[t].stage = "read" => job[t].size = Size[Due(job[t]).content]

ServedInv == /\ DOMAIN reply = Threads
             /\ ServesLast

ServeInv == KeptInv /\ (\A t \in Threads : Serve(t)) /\ ServedInv

LEMMA ServeSame ==
    ASSUME FilesInv, NEW t \in Threads, Serve(t), Carries(job[t], job'[t]),
           \A n \in Names : promised'[n] \in {promised[n], Nothing},
           \/ job'[t].stage \notin Reading
           \/ /\ job[t].stage \in Reading /\ job'[t].inode = job[t].inode
              /\ Serving(t) => disk'[Low(job[t].name)] = disk[Low(job[t].name)],
           job'[t].stage = "read" => job[t].stage = "read" /\ job'[t].size = job[t].size
    PROVE  Serve(t)'
<1>1. SUFFICES ASSUME Serving(t)' PROVE Serve(t)'
  BY DEF Serve
<1>2. /\ Down(t) /\ job[t].clean /\ job'[t].name = job[t].name /\ job'[t].info = job[t].info
      /\ job[t].name \in Names
  BY <1>1
  DEF Serving, Down, DownStages, Carries, FilesInv, TypesInv, JobTypes, GoodJob
<1>3. Due(job[t])' = Due(job[t]) /\ Serving(t)
  BY <1>1, <1>2 DEF Serving, Due
<1>4. QED BY <1>2, <1>3 DEF Serve, Reading

(* What is on disk for a download that must serve. *)
LEMMA ServesFrom ==
    ASSUME KeptInv, NEW t \in Threads, Serving(t)
    PROVE  LET n == job[t].name   d == Due(job[t]) IN
           /\ n \in Names /\ d.content \in Contents /\ Target(t) = Low(n) /\ Low(n) \in Paths
           /\ disk[Low(n)] # 0 /\ data[disk[Low(n)]] = Written(d.content)
           /\ Written(d.content) = Whole(d.content) /\ Bytes(d) = Written(d.content)
           /\ FileSize(Low(n)) = Size[d.content] /\ Size[d.content] > 0
           /\ Len(Bytes(d)) = Size[d.content]
<1> DEFINE n == job[t].name
           d == Due(job[t])
<1>1. n \in Names /\ Target(t) = Low(n) /\ Low(n) \in Paths
  BY PlaceTarget
  DEF Serving, Down, DownStages, UpStages, Place, Low, Paths, Types, KeptInv, FilesInv,
      TypesInv, JobTypes, GoodJob
<1>2. d # Nothing /\ d.type = "low" /\ d = promised[n]
  BY DEF Serving, Due
<1>3. d.content \in Contents
  BY <1>1, <1>2 DEF KeptInv, FilesInv, TypesInv, FileTypes
<1>4. Text[d.content] = Size[d.content] /\ disk[Low(n)] # 0 /\ data[disk[Low(n)]] = Bytes(d)
  BY <1>1, <1>2 DEF KeptInv, StoreInv, DiskInv, AgreeStore, AgreeDisk, Low
<1>5. Bytes(d) = Written(d.content) /\ Len(Bytes(d)) = Size[d.content] /\ Size[d.content] > 0
  BY <1>2, <1>3, BytesType, WrittenType DEF Bytes, Types
<1>6. Written(d.content) = Whole(d.content)
  <2>1. Size[d.content] \in Nat
    BY <1>3, WrittenType
  <2>2. \A i \in 1 .. Size[d.content] : i <= Text[d.content] + 1
    BY <1>4, <2>1
  <2>3. QED BY <2>2 DEF Written, Whole
<1>7. QED BY <1>1, <1>3, <1>4, <1>5, <1>6 DEF FileSize

LEMMA CutWhole ==
    ASSUME NEW S, NEW q \in Seq(S), NEW n, n = Len(q)
    PROVE  SubSeq(q, 1, IF n < Len(q) THEN n ELSE Len(q)) = q
OBVIOUS

LEMMA ServedStep ==
    ASSUME ServeInv, Held!UploadsKept, [Next]_vars
    PROVE  ServedInv'
<1>1. DOMAIN reply' = Threads /\ \A t \in Threads : Replies(t)
  BY ReplyStep DEF ServeInv, ServedInv
<1>2. SUFFICES ASSUME NEW t \in Threads, reply'[t].due # Nothing, reply'[t].due.type = "low"
               PROVE  Serves(reply'[t])
  BY <1>1 DEF ServedInv, ServesLast
<1>3. KeptInv /\ JobTypes /\ FilesInv /\ Serve(t)
  BY DEF ServeInv, KeptInv, FilesInv, TypesInv
<1>4. CASE reply'[t] = reply[t]
  BY <1>2, <1>4 DEF ServeInv, ServedInv, ServesLast
<1>5. ASSUME NEW status, reply'[t] = Plain(status) PROVE FALSE
  BY <1>2, <1>5 DEF Plain
<1>6. ASSUME NEW status, NEW body, NEW etag, reply'[t] = Answer(job[t], status, body, etag),
             job[t].stage \in DownStages
      PROVE  Serving(t) /\ reply'[t].due = Due(job[t])
  <2>1. reply'[t].due = IF job[t].clean THEN promised[job[t].name] ELSE Nothing
    BY <1>6, AnswerIs
  <2>2. QED BY <1>2, <1>6, <2>1 DEF Serving, Due, Down
<1>7. CASE Read(t) /\ reply'[t] = Answer(job[t], "ok", Got(job[t]), job[t].info.size)
  <2>1. job[t].stage = "read"
    BY <1>7 DEF Read, Send
  <2>2. Serving(t) /\ reply'[t].due = Due(job[t])
    BY <1>6, <1>7, <2>1 DEF DownStages
  <2>3. /\ reply'[t].status = "ok" /\ reply'[t].body = Got(job[t])
        /\ reply'[t].etag = job[t].info.size
    BY <1>7, AnswerIs
  <2>4. /\ job[t].info = RecOf(job[t].name, Due(job[t]))
        /\ job[t].inode = disk[Low(job[t].name)]
        /\ job[t].size = Size[Due(job[t]).content]
    BY <1>3, <2>1, <2>2 DEF Serve, Reading
  <2> DEFINE d == Due(job[t])
             w == Written(d.content)
  <2>5. /\ d.content \in Contents /\ data[job[t].inode] = w /\ w = Whole(d.content)
        /\ Len(Bytes(d)) = Size[d.content]
    BY <1>3, <2>2, <2>4, ServesFrom
  <2>6. w \in Seq(Byte) /\ Len(w) = Size[d.content]
    BY <2>5, WrittenType
  <2>7. Got(job[t]) = SubSeq(w, 1, IF job[t].size < Len(w) THEN job[t].size ELSE Len(w))
    BY <2>5 DEF Got
  <2> HIDE DEF w
  <2>8. Got(job[t]) = w
    BY <2>4, <2>6, <2>7, CutWhole
  <2>9. job[t].info.size = Size[d.content]
    BY <2>4, <2>5 DEF RecOf
  <2>10. QED BY <2>2, <2>3, <2>5, <2>8, <2>9 DEF Serves
<1>8. CASE /\ reply'[t] = Answer(job[t], "not found", <<>>, 0)
           /\ \/ job[t].stage \in {"exists", "open"} /\ disk[Target(t)] = 0
              \/ job[t].stage = "size" /\ FileSize(Target(t)) = 0
  <2>1. Serving(t)
    BY <1>6, <1>8 DEF DownStages
  <2>2. disk[Target(t)] # 0 /\ FileSize(Target(t)) # 0
    BY <1>3, <2>1, ServesFrom
  <2>3. QED BY <1>8, <2>2
<1>9. ASSUME NEW n \in Names, Lookup(t, n), n \notin DOMAIN table,
             reply'[t] = Answer(Missed(n), "not found", <<>>, 0)
      PROVE  FALSE
  <2>1. Missed(n).name = n
    <3>1. \A x : [NoJob EXCEPT !.name = n, !.clean = x].name = n
      BY DEF NoJob
    <3>2. QED BY ONLY <3>1 DEF Missed
  <2>2. promised[n] # Nothing
    <3>1. PICK j, status, body, etag :
             j = Missed(n) /\ reply'[t] = Answer(j, status, body, etag)
      BY <1>9
    <3>2. reply'[t].due = IF j.clean THEN promised[j.name] ELSE Nothing
      BY <3>1, AnswerIs
    <3>3. QED BY <1>2, <2>1, <3>1, <3>2
  <2>3. n \in DOMAIN kept
    BY <1>3, <2>2 DEF KeptInv, StoreInv, AgreeStore
  <2>4. proc = "up"
    BY <1>9 DEF Lookup, Find, Store!GetOneByURL
  <2>5. QED BY <1>9, <2>3, <2>4 DEF Held!UploadsKept
<1>10. QED BY <1>1, <1>4, <1>5, <1>7, <1>8, <1>9 DEF Replies

(* The steps keep what a download has found. *)
LEMMA ServeSteps ==
    ASSUME ServeInv, Held!UploadsKept, KeptInv', NEW t \in Threads, Steps(t)
    PROVE  \A s \in Threads : Serve(s)'
<1>1. /\ KeptInv /\ FilesInv /\ TypesInv /\ JobTypes /\ CleanInv
      /\ \A s \in Threads : Serve(s)
  BY DEF ServeInv, KeptInv, FilesInv, TypesInv
<1>2. ASSUME OthersKeep(t), \A n \in Names : promised'[n] \in {promised[n], Nothing},
             \A s \in Threads \ {t} :
                Serving(s) => disk'[Low(job[s].name)] = disk[Low(job[s].name)],
             Serve(t)'
      PROVE  \A s \in Threads : Serve(s)'
  <2>1. ASSUME NEW s \in Threads \ {t} PROVE Serve(s)'
    <3>1. /\ Carries(job[s], job'[s]) /\ job'[s].stage = job[s].stage
          /\ job'[s].inode = job[s].inode /\ job'[s].size = job[s].size
      BY <1>1, <1>2, OthersName DEF Carries
    <3>2. QED BY <1>1, <1>2, <3>1, ServeSame
  <2>2. QED BY <1>2, <2>1
<1>3. ASSUME ~Down(t)' PROVE Serve(t)'
  BY <1>3 DEF Serve, Serving
<1>4. CASE Quits(t)
  BY <1>2, <1>3, <1>4, NoJobGood, SameKeeps
  DEF Quits, JobStep, fileVars, Down, DownStages
<1>5. ASSUME NEW n \in Names, NEW type \in Types, NEW c \in Contents, StartUpload(t, n, type, c)
      PROVE  \A s \in Threads : Serve(s)'
  <2>1. OthersKeep(t) /\ ~Down(t)'
    BY <1>1, <1>5, StartStep DEF Down, DownStages
  <2>2. UNCHANGED disk /\ promised' = [promised EXCEPT ![n] = Nothing]
    BY <1>5 DEF StartUpload, fileVars
  <2>3. \A m \in Names : promised'[m] \in {promised[m], Nothing}
    BY <1>1, <2>2 DEF TypesInv, FileTypes
  <2>4. QED BY <1>2, <1>3, <2>1, <2>2, <2>3
<1>6. CASE Create(t)
  <2>1. OthersSame(t) /\ Up(t) /\ ~Down(t)' /\ UNCHANGED promised
    BY <1>1, <1>6, CreateStep
    DEF Create, OpenFor, Becomes, Up, UpStages, Down, DownStages
  <2>2. ASSUME NEW s \in Threads \ {t}, Serving(s)
        PROVE  disk'[Low(job[s].name)] = disk[Low(job[s].name)]
    <3>1. Low(job[s].name) # Target(t) /\ Low(job[s].name) \in Paths
      BY <1>1, <2>1, <2>2, UpApart, ServesFrom DEF Serving, Due, Low
    <3>2. QED BY <1>1, <1>6, <3>1, CreateFile
  <2>3. QED BY <1>2, <1>3, <2>1, <2>2, SameKeeps
<1>7. CASE Write(t) \/ WriteFails(t)
  <2>1. OthersSame(t) /\ ~Down(t)' /\ UNCHANGED <<disk, promised>>
    BY <1>1, <1>7, WriteStep, WriteFile, NoJobGood DEF Becomes, Down, DownStages
  <2>2. QED BY <1>2, <1>3, <2>1, SameKeeps
<1>8. CASE NewStorageInfo(t)
  <2>1. OthersSame(t) /\ ~Down(t)' /\ UNCHANGED <<disk, promised>>
    BY <1>1, <1>8, LookStep
    DEF Becomes, Down, DownStages, NewStorageInfo, LookAt, fileVars
  <2>2. QED BY <1>2, <1>3, <2>1, SameKeeps
<1>9. CASE Uploaded(t)
  <2>1. /\ job[t].stage = "insert" /\ Up(t) /\ UNCHANGED disk
        /\ \E d : promised' = [promised EXCEPT ![job[t].name] = d]
    BY <1>9 DEF Uploaded, Up, UpStages, fileVars
  <2>2. JobStep(t) /\ OthersSame(t) /\ job'[t] = NoJob
    BY <1>1, <1>9, EndStep DEF Uploaded, Ends, JobStep, TypesInv
  <2>3. ASSUME NEW s \in Threads \ {t} PROVE Serve(s)'
    <3>1. SUFFICES ASSUME Serving(s)' PROVE Serve(s)'
      BY DEF Serve
    <3>2. job'[s] = job[s] /\ Down(s) /\ job[s].clean /\ job[s].name \in Names
      BY <1>1, <2>2, <3>1 DEF OthersSame, Serving, Down, JobTypes, GoodJob
    <3>3. job[s].name # job[t].name
      BY <1>1, <2>1, <3>2 DEF CleanInv
    <3>4. promised'[job[s].name] = promised[job[s].name]
      BY <1>1, <2>1, <3>2, <3>3 DEF TypesInv, FileTypes
    <3>5. Due(job[s])' = Due(job[s]) /\ Serving(s)
      BY <3>1, <3>2, <3>4 DEF Due, Serving
    <3>6. QED BY <1>1, <2>1, <3>2, <3>5 DEF Serve
  <2>4. Serve(t)'
    BY <1>3, <2>2, NoJobGood DEF Down, DownStages
  <2>5. QED BY <2>3, <2>4
<1>10. ASSUME NEW n \in Names, Lookup(t, n), n \in DOMAIN table
       PROVE  \A s \in Threads : Serve(s)'
  <2>1. OthersKeep(t) /\ UNCHANGED <<disk, promised>>
    BY <1>1, <1>10, FindStep DEF Lookup, Find, fileVars
  <2>2. CASE job'[t].stage = "exists" /\ job'[t].name = n /\ job'[t].info = table[n]
    <3>1. AgreeStore(n) /\ proc = "up"
      BY <1>1, <1>10 DEF KeptInv, StoreInv, Lookup, Find, Store!GetOneByURL
    <3>2. promised[n] # Nothing => table[n] = RecOf(n, promised[n])
      BY <3>1 DEF AgreeStore, Held!UploadsKept
    <3>3. Serve(t)'
      BY <2>1, <2>2, <3>2 DEF Serve, Serving, Due, Reading
    <3>4. QED BY <1>2, <2>1, <3>3
  <2>3. CASE job'[t] = NoJob
    BY <1>2, <1>3, <2>1, <2>3, NoJobGood DEF Down, DownStages
  <2>4. QED BY <1>1, <1>10, <2>2, <2>3, FindStep
<1>11. CASE DownStep(t)
  <2>1. JobStep(t) /\ OthersSame(t) /\ UNCHANGED <<data, promised>> /\ Down(t)
    BY <1>11 DEF DownStep, JobStep, DownStages, Down
  <2>2. ASSUME NEW s \in Threads, Serving(s)
        PROVE  disk'[Low(job[s].name)] = disk[Low(job[s].name)]
    <3>1. CASE UNCHANGED disk
      BY <3>1
    <3>2. CASE Remove(t)
      <4>1. disk' = [disk EXCEPT ![Target(t)] = 0] /\ Deep(job[t])
        BY <1>1, <3>2 DEF Remove, CleanInv
      <4>2. Target(t) = Low(job[t].name)
        BY <2>1, PlaceTarget DEF Place, Down, UpStages, DownStages, Low
      <4>3. job[s].name \in Names /\ Low(job[s].name) \in Paths
        BY <1>1, <2>2, ServesFrom
      <4>4. job[t].name # job[s].name
        BY <1>1, <2>1, <2>2, <4>1, <4>3 DEF Serving, Due, CleanInv
      <4>5. Target(t) # Low(job[s].name)
        BY <4>2, <4>4 DEF Low
      <4>6. QED BY <1>1, <4>1, <4>3, <4>5 DEF TypesInv, FileTypes
    <3>3. QED BY <1>11, <3>1, <3>2 DEF DownStep
  <2>3. Carries(job[t], job'[t])
    BY <1>1, <2>1, JobCarries
  <2>4. CASE job'[t].stage \notin {"size", "read"}
    <3>1. \/ job'[t].stage \notin Reading
          \/ job[t].stage \in Reading /\ job'[t].inode = job[t].inode
      BY <1>11, <2>4, NoJobGood DEF DownStep, Becomes, Reading
    <3>2. Serve(t)'
      BY <1>1, <2>1, <2>2, <2>3, <2>4, <3>1, ServeSame
    <3>3. QED BY <1>2, <2>1, <2>2, <3>2, SameKeeps
  <2>5. CASE job'[t].stage \in {"size", "read"}
    <3>1. UNCHANGED disk
      BY <1>11, <2>5, NoJobGood DEF DownStep
    <3>2. Serve(t)'
      <4>1. SUFFICES ASSUME Serving(t)' PROVE Serve(t)'
        BY DEF Serve
      <4>2. /\ job'[t].name = job[t].name /\ job'[t].info = job[t].info
            /\ job'[t].clean => job[t].clean
        BY <2>3, <2>5 DEF Carries
      <4>3. Serving(t) /\ Due(job[t])' = Due(job[t])
        BY <2>1, <4>1, <4>2 DEF Serving, Due
      <4>4. Target(t) = Low(job[t].name) /\ FileSize(Target(t)) = Size[Due(job[t]).content]
        BY <1>1, <4>3, ServesFrom
      <4>5. CASE job'[t].stage = "size"
        <5>1. job'[t].inode = disk[Target(t)]
          BY <1>11, <4>5, NoJobGood DEF DownStep, Becomes
        <5>2. QED BY <1>1, <3>1, <4>2, <4>3, <4>4, <4>5, <5>1 DEF Serve
      <4>6. CASE job'[t].stage = "read"
        <5>1. /\ job[t].stage \in Reading /\ job'[t].inode = job[t].inode
              /\ job'[t].size = FileSize(Target(t))
          BY <1>11, <4>6, NoJobGood DEF DownStep, Becomes, Reading
        <5>2. QED BY <1>1, <3>1, <4>2, <4>3, <4>4, <4>6, <5>1 DEF Serve
      <4>7. QED BY <2>5, <4>5, <4>6
    <3>3. QED BY <1>2, <2>1, <2>2, <3>2, SameKeeps
  <2>6. QED BY <2>4, <2>5
<1>12. QED
  BY <1>4, <1>5, <1>6, <1>7, <1>8, <1>9, <1>10, <1>11 DEF Steps

LEMMA ServeInit == Init => ServeInv
<1> SUFFICES ASSUME Init PROVE ServeInv
  OBVIOUS
<1>1. KeptInv /\ \A t \in Threads : job[t].stage = "idle" /\ reply[t].due = Nothing
  BY KeptInit, NoJobGood DEF Init, Plain
<1>2. DOMAIN reply = Threads
  BY DEF Init
<1>3. \A t \in Threads : Serve(t)
  BY <1>1 DEF Serve, Serving, Down, DownStages
<1>4. QED BY <1>1, <1>2, <1>3 DEF ServeInv, ServedInv, ServesLast

LEMMA ServeStep == ServeInv /\ Held!UploadsKept /\ [Next]_vars => ServeInv'
<1> SUFFICES ASSUME ServeInv, Held!UploadsKept, [Next]_vars PROVE ServeInv'
  OBVIOUS
<1>1. /\ KeptInv' /\ ServedInv' /\ TypesInv /\ FileTypes
      /\ FilesInv /\ \A s \in Threads : Serve(s)
  BY KeptStep, ServedStep DEF ServeInv, KeptInv, FilesInv, TypesInv
<1>2. ASSUME UNCHANGED <<job, disk>>, KeepPromises \/ UNCHANGED promised
      PROVE  \A s \in Threads : Serve(s)'
  <2>1. \A n \in Names : promised'[n] \in {promised[n], Nothing}
    <3>1. CASE KeepPromises
      BY <1>1, <3>1, Withdraws
    <3>2. QED BY <1>2, <3>1
  <2>2. ASSUME NEW s \in Threads PROVE Serve(s)'
    <3>1. Carries(job[s], job'[s])
      BY <1>2 DEF Carries
    <3>2. QED BY <1>1, <1>2, <2>1, <3>1, ServeSame
  <2>3. QED BY <2>2
<1>3. ASSUME Crash PROVE \A s \in Threads : Serve(s)'
  BY <1>3, NoJobGood DEF Crash, Serve, Serving, Down, DownStages
<1>4. ASSUME NEW t \in Threads \cup {Main}, Insert(t) PROVE \A s \in Threads : Serve(s)'
  BY <1>2, <1>4 DEF Insert, fileVars
<1>5. ASSUME Start \/ UNCHANGED vars PROVE \A s \in Threads : Serve(s)'
  BY <1>2, <1>5 DEF Start, vars, fileVars
<1>6. ASSUME NEW t \in Threads, Steps(t) PROVE \A s \in Threads : Serve(s)'
  BY <1>1, <1>6, ServeSteps
<1>7. \A s \in Threads : Serve(s)'
  BY <1>1, <1>3, <1>4, <1>5, <1>6, StepKinds
<1>8. QED BY <1>1, <1>7 DEF ServeInv

LEMMA ServeInvariant == Spec => [](ServeInv /\ Held!UploadsKept)
BY ServeInit, ServeStep, StoreKept, PTL DEF Spec

(* Service.cpp:243 with 98-130: a download that overlaps no upload of its   *)
(* name answers with the whole of the last text uploaded under it to the    *)
(* low storage, and never with "not found", as long as the file of the      *)
(* table is known to hold the record of that upload: over other uploads,    *)
(* failing ones, overlapping Inserts and restarts.                          *)
THEOREM DownloadsServeLast == Spec => []ServesLast
<1>1. ServeInv => ServesLast
  BY DEF ServeInv, ServedInv
<1>2. QED BY <1>1, ServeInvariant, PTL

(* DataManager.h:91, Service.cpp:130: of every upload whose record the file *)
(* of the table is known to hold, the table of a process that serves has    *)
(* the record, and the record says what is on disk.                         *)
THEOREM TableTrue == Spec => []TableMatchesDisk
<1>1. ServeInv /\ Held!UploadsKept => TableMatchesDisk
  <2> SUFFICES ASSUME ServeInv, Held!UploadsKept, proc = "up", NEW n \in Names,
                      promised[n] # Nothing
               PROVE  /\ n \in DOMAIN table /\ table[n].path = <<promised[n].type, n>>
                      /\ disk[table[n].path] # 0
                      /\ data[disk[table[n].path]] = Bytes(promised[n])
                      /\ promised[n].type = "low" => table[n].size = Size[promised[n].content]
    BY DEF TableMatchesDisk
  <2>1. KeptInv /\ AgreeStore(n) /\ AgreeDisk(n)
    BY DEF ServeInv, KeptInv, StoreInv, DiskInv
  <2>2. promised[n].type \in Types /\ promised[n].content \in Contents
    BY <2>1, FileAssumption DEF KeptInv, FilesInv, TypesInv, FileTypes
  <2>3. n \in DOMAIN table /\ table[n] = RecOf(n, promised[n])
    BY <2>1 DEF AgreeStore, Held!UploadsKept
  <2>4. table[n].path = <<promised[n].type, n>> /\ table[n].size = Len(Bytes(promised[n]))
    BY <2>3 DEF RecOf
  <2>5. promised[n].type = "low" => Len(Bytes(promised[n])) = Size[promised[n].content]
    BY <2>2, BytesType
  <2>6. QED BY <2>1, <2>3, <2>4, <2>5 DEF AgreeDisk
<1>2. QED BY <1>1, ServeInvariant, PTL
=============================================================================
