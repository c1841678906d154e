-------------------------- MODULE DataManagerProofs --------------------------
(***************************************************************************)
(* Proofs about DataManager, for any number of threads, files and uploads,  *)
(* with a file system that fails and processes that die anywhere: type      *)
(* correctness; an Insert which overlaps no other leaves the whole table in *)
(* the file, where it is found when nothing runs; and what the file is      *)
(* known to hold is in the table of every process that serves.              *)
(***************************************************************************)
EXTENDS DataManager, TLAPS

(* While the only Insert is between its copy and its write, the copy is     *)
(* still the table, and so is the file once it has returned: every change   *)
(* of the table is an Insert.                                               *)
SoloInv ==
    \A t \in Procs : solo[t] =>
        /\ \A s \in Procs \ {t} : pc[s] = "idle"
        /\ pc[t] \in {"open", "write"} => snap[t] = table
        /\ pc[t] = "idle" => file = table

-----------------------------------------------------------------------------
(* Tables *)

LEMMA TableIntro ==
    ASSUME NEW D \in SUBSET URLs, NEW T \in [D -> Infos]
    PROVE  T \in Table
BY DEF Table

LEMMA TableElim ==
    ASSUME NEW T \in Table
    PROVE  DOMAIN T \in SUBSET URLs /\ T \in [DOMAIN T -> Infos]
BY DEF Table

LEMMA NoRecordsType == NoRecords \in Table
<1>1. NoRecords \in [{} -> Infos]
  BY DEF NoRecords
<1> QED BY <1>1, TableIntro

LEMMA PutType ==
    ASSUME NEW T \in Table, NEW u \in URLs, NEW i \in Infos
    PROVE  Put(T, u, i) \in Table
<1>1. Put(T, u, i) \in [DOMAIN T \cup {u} -> Infos]
  BY TableElim DEF Put
<1>2. DOMAIN T \cup {u} \in SUBSET URLs
  BY TableElim
<1> QED BY <1>1, <1>2, TableIntro

LEMMA OnlyType ==
    ASSUME NEW T \in Table, NEW D \in SUBSET DOMAIN T
    PROVE  Only(T, D) \in Table
<1>1. Only(T, D) \in [D -> Infos]
  BY TableElim DEF Only
<1>2. D \in SUBSET URLs
  BY TableElim
<1> QED BY <1>1, <1>2, TableIntro

-----------------------------------------------------------------------------
(* Type correctness *)

LEMMA InitType == Init => TypeOK
BY NoRecordsType, StoreAssumption DEF Init, TypeOK, Idle

LEMMA DieType ==
    ASSUME TypeOK, Die
    PROVE  TypeOK'
BY NoRecordsType, StoreAssumption DEF TypeOK, Die, Idle

LEMMA StartInsertType ==
    ASSUME TypeOK, NEW t \in Procs, NEW u \in URLs, NEW i \in Infos,
           StartInsert(t, u, i), proc' = proc, proc # "down",
           UNCHANGED file, toLoad' \in Table, uploads' \in 0 .. MaxUploads
    PROVE  TypeOK'
<1> DEFINE r == [url |-> u, info |-> i]
<1>1. /\ arg' = [arg EXCEPT ![t] = r] /\ r \in [url : URLs, info : Infos]
      /\ pc' = [pc EXCEPT ![t] = "insert"] /\ UNCHANGED <<writer, table, snap>>
      /\ solo' \in [Procs -> BOOLEAN]
  BY DEF StartInsert
<1> HIDE DEF r
<1>2. \A s \in Procs : (~Idle(s))' => arg'[s] \in [url : URLs, info : Infos]
  BY <1>1 DEF TypeOK, Idle
<1>3. kept' \in Table
  BY OnlyType DEF StartInsert, TypeOK
<1> QED BY <1>1, <1>2, <1>3 DEF TypeOK

(* The steps of Insert. *)
LEMMA InsertType ==
    ASSUME TypeOK, NEW t \in Procs, Insert(t)
    PROVE  TypeOK'
<1>1. CASE InsertRecord(t)
  <2>1. arg[t].url \in URLs /\ arg[t].info \in Infos
    BY <1>1 DEF InsertRecord, TypeOK, Idle
  <2>2. table' \in Table
    BY <1>1, <2>1, PutType DEF InsertRecord, TypeOK
  <2> QED BY <1>1, <2>2 DEF InsertRecord, TypeOK, Idle
<1>2. CASE StorageGetAll(t)
  BY <1>2 DEF StorageGetAll, TypeOK, Idle
<1>3. CASE OpenFile(t)
  BY <1>3, NoRecordsType DEF OpenFile, TypeOK, Idle
<1>4. ASSUME pc[t] \in {"open", "write"}, Return(t), file' \in Table, kept' \in Table,
             solo' \in [Procs -> BOOLEAN]
      PROVE  TypeOK'
  BY <1>4, NoRecordsType DEF Return, TypeOK, Idle
<1>5. CASE OpenFails(t)
  <2>1. file' \in Table /\ kept' \in Table /\ solo' \in [Procs -> BOOLEAN]
    BY <1>5, NoRecordsType DEF OpenFails, TypeOK
  <2> QED BY <1>4, <1>5, <2>1 DEF OpenFails
<1>6. CASE WriteFile(t)
  <2>1. file' \in Table /\ kept' \in Table /\ solo' \in [Procs -> BOOLEAN]
    BY <1>6 DEF WriteFile, Return, TypeOK
  <2> QED BY <1>4, <1>6, <2>1 DEF WriteFile
<1>7. CASE WriteFails(t)
  <2>1. PICK D \in SUBSET DOMAIN snap[t] :
           file' = Only(snap[t], D) \/ file' = Put(Only(snap[t], D), NoUrl, Torn)
    BY <1>7 DEF WriteFails
  <2>2. Only(snap[t], D) \in Table
    BY OnlyType DEF TypeOK
  <2>3. file' \in Table
    BY <2>1, <2>2, PutType, StoreAssumption
  <2>4. kept' \in Table /\ solo' \in [Procs -> BOOLEAN]
    BY <1>7, NoRecordsType DEF WriteFails, TypeOK
  <2> QED BY <1>4, <1>7, <2>3, <2>4 DEF WriteFails
<1> QED BY <1>1, <1>2, <1>3, <1>5, <1>6, <1>7 DEF Insert

LEMMA NextType ==
    ASSUME TypeOK, [Next]_vars
    PROVE  TypeOK'
<1>1. ASSUME NEW t \in Threads, Handler(t) PROVE TypeOK'
  <2>1. ASSUME NEW u \in URLs, NEW i \in Infos, Upload(t, u, i) PROVE TypeOK'
    <3>1. uploads' \in 0 .. MaxUploads
      BY <2>1, StoreAssumption DEF Upload, TypeOK
    <3>2. /\ StartInsert(t, u, i) /\ proc' = proc /\ proc # "down"
          /\ UNCHANGED file /\ toLoad' \in Table
      BY <2>1 DEF Upload, TypeOK
    <3> QED BY <3>1, <3>2, StartInsertType DEF Procs
  <2>2. CASE GetOneByURL(t)
    BY <2>2 DEF GetOneByURL, TypeOK, Idle
  <2>3. CASE GetAll(t)
    BY <2>3 DEF GetAll, TypeOK, Idle
  <2> QED BY <1>1, <2>1, <2>2, <2>3, StoreAssumption DEF Handler
<1>2. ASSUME NEW t \in Procs, Insert(t) PROVE TypeOK'
  BY <1>2, InsertType
<1>3. ASSUME NEW u \in URLs, Load(u) PROVE TypeOK'
  <2>1. toLoad[u] \in Infos /\ toLoad' \in Table
    BY <1>3, TableElim, OnlyType DEF Load, TypeOK
  <2>2. /\ StartInsert(Main, u, toLoad[u]) /\ proc' = proc /\ proc # "down"
        /\ UNCHANGED file /\ uploads' \in 0 .. MaxUploads
    BY <1>3 DEF Load, TypeOK
  <2> QED BY <2>1, <2>2, StartInsertType DEF Procs
<1>4. ASSUME NEW u \in URLs, LoadThrows(u) PROVE TypeOK'
  BY <1>4, DieType DEF LoadThrows
<1>5. CASE LoadDone
  BY <1>5 DEF LoadDone, tvars, TypeOK, Idle
<1>6. CASE Crash
  BY <1>6, DieType DEF Crash
<1>7. CASE Restart
  <2>1. toLoad' \in Table /\ kept' \in Table
    BY <1>7, NoRecordsType DEF Restart, TypeOK
  <2> QED BY <1>7, <2>1 DEF Restart, tvars, TypeOK, Idle
<1>8. CASE UNCHANGED vars
  BY <1>8 DEF vars, TypeOK, Idle
<1> QED BY <1>1, <1>2, <1>3, <1>4, <1>5, <1>6, <1>7, <1>8 DEF Next

(* Every reachable state of the store is well typed: a process that does    *)
(* not serve requests holds no lock.                                        *)
THEOREM StoreTypeCorrect == Spec => []TypeOK
<1>1. Init => TypeOK
  BY InitType
<1>2. TypeOK /\ [Next]_vars => TypeOK'
  BY NextType
<1> QED BY <1>1, <1>2, PTL DEF Spec

-----------------------------------------------------------------------------
(* An Insert that is alone *)

LEMMA SoloStep ==
    ASSUME TypeOK, SoloInv, [Next]_vars
    PROVE  SoloInv'
<1>1. ASSUME NEW t \in Procs, NEW u, NEW i, StartInsert(t, u, i) PROVE SoloInv'
  <2>1. \A s \in Procs : solo'[s] => s = t /\ \A r \in Procs : pc[r] = "idle"
    BY <1>1 DEF StartInsert, Idle
  <2>2. pc' = [pc EXCEPT ![t] = "insert"]
    BY <1>1 DEF StartInsert
  <2> QED BY <2>1, <2>2 DEF SoloInv, TypeOK
<1>2. ASSUME NEW t \in Procs, Insert(t) PROVE SoloInv'
  <2>1. \A s \in Procs \ {t} : ~solo[s]
    BY <1>2 DEF SoloInv, Insert, InsertRecord, StorageGetAll, OpenFile, OpenFails,
                WriteFile, WriteFails
  <2>2. \A s \in Procs \ {t} : solo'[s] = solo[s] /\ pc'[s] = pc[s]
    BY <1>2 DEF TypeOK, Insert, InsertRecord, StorageGetAll, OpenFile, OpenFails,
                WriteFile, WriteFails, Return
  <2>3. solo'[t] => solo[t]
    BY <1>2 DEF TypeOK, Insert, InsertRecord, StorageGetAll, OpenFile, OpenFails,
                WriteFile, WriteFails
  <2>4. solo'[t] /\ pc'[t] \in {"open", "write"} => snap'[t] = table'
    BY <1>2 DEF SoloInv, TypeOK, Insert, InsertRecord, StorageGetAll, OpenFile,
                OpenFails, WriteFile, WriteFails, Return
  <2>5. solo'[t] /\ pc'[t] = "idle" => file' = table'
    BY <1>2 DEF SoloInv, TypeOK, Insert, InsertRecord, StorageGetAll, OpenFile,
                OpenFails, WriteFile, WriteFails, Return
  <2> QED BY <2>1, <2>2, <2>3, <2>4, <2>5 DEF SoloInv
<1>3. CASE UNCHANGED <<table, file, pc, snap, solo>>
  BY <1>3 DEF SoloInv
<1>4. CASE Die
  BY <1>4 DEF Die, SoloInv
<1> QED BY <1>1, <1>2, <1>3, <1>4
        DEF Next, Handler, Upload, GetOneByURL, GetAll, Load, LoadThrows, LoadDone,
            Crash, Restart, tvars, vars, Procs

LEMMA SoloWriteStep ==
    ASSUME TypeOK, SoloInv
    PROVE  SoloWrite
<1> SUFFICES ASSUME NEW t \in Procs, solo[t], WriteFile(t)
             PROVE  file' = table'
  BY DEF SoloWrite
<1>1. snap[t] = table
  BY DEF SoloInv, WriteFile
<1> QED BY <1>1 DEF WriteFile, Return

LEMMA SoloInvariant == Spec => [](TypeOK /\ SoloInv)
<1>1. Init => TypeOK /\ SoloInv
  BY InitType DEF Init, SoloInv
<1>2. TypeOK /\ SoloInv /\ [Next]_vars => TypeOK' /\ SoloInv'
  BY NextType, SoloStep
<1> QED BY <1>1, <1>2, PTL DEF Spec

(* An Insert that overlaps no other leaves the whole table in the file,     *)
(* whatever happened before it: for any number of threads and files, with   *)
(* failing writes and crashes.                                              *)
THEOREM SoloInsertPersists == Spec => SoloPersisted
<1>1. TypeOK /\ SoloInv => SoloWrite
  BY SoloWriteStep
<1> QED BY <1>1, SoloInvariant, PTL DEF SoloPersisted

(* While no request is being served the file holds the table, if the last   *)
(* Insert was alone and could write: for any number of threads, whatever    *)
(* overlaps, failed writes and crashes there were before it.                *)
THEOREM TablePersisted == Spec => []PersistedWhenQuiet
<1>1. SoloInv => PersistedWhenQuiet
  BY DEF SoloInv, PersistedWhenQuiet, Idle
<1> QED BY <1>1, SoloInvariant, PTL

-----------------------------------------------------------------------------
(* What the file is known to hold *)

(* Main inserts only while it loads, the others only while requests are     *)
(* served.                                                                  *)
TurnInv ==
    /\ ~Idle(Main) => proc = "loading" /\ solo[Main]
    /\ \A t \in Threads : ~Idle(t) => proc = "up"

(* T has every record the file is known to hold. *)
Holds(T) == \A u \in DOMAIN kept : u \in DOMAIN T /\ T[u] = kept[u]

(* Where these records are while requests are served: in the table, in      *)
(* every copy of it and, unless a thread has truncated it and has still to  *)
(* write, in the file; none of them is being uploaded.                      *)
ServingInv ==
    proc = "up" =>
        /\ Holds(table)
        /\ \A t \in Threads : ~Idle(t) => arg[t].url \notin DOMAIN kept
        /\ \A t \in Threads : pc[t] \in {"open", "write"} => Holds(snap[t])
        /\ (\A t \in Threads : pc[t] # "write") => Holds(file)

(* And while InitLoad runs: among the records still to insert, in the       *)
(* argument of Insert or in the table, and none of the three holds anything *)
(* else for their urls.                                                     *)
Carried(u) ==
    /\ \/ u \in DOMAIN toLoad \/ u \in DOMAIN table
       \/ pc[Main] = "insert" /\ arg[Main].url = u
    /\ u \in DOMAIN toLoad => toLoad[u] = kept[u]
    /\ u \in DOMAIN table => table[u] = kept[u]
    /\ ~Idle(Main) /\ arg[Main].url = u => arg[Main].info = kept[u]

LoadingInv ==
    proc = "loading" =>
        /\ \A u \in DOMAIN kept : Carried(u)
        /\ table = NoRecords => Holds(file)
        /\ Idle(Main) => table = NoRecords \/ file = table \/ kept = NoRecords
        /\ pc[Main] \in {"getall", "open", "write"} => arg[Main].url \in DOMAIN table

DownInv == proc = "down" => Holds(file)

KeepInv == TypeOK /\ SoloInv /\ TurnInv /\ ServingInv /\ LoadingInv /\ DownInv

-----------------------------------------------------------------------------
LEMMA NoRecordsDomain == DOMAIN NoRecords = {}
BY DEF NoRecords

LEMMA OnlyValue ==
    ASSUME NEW T, NEW D
    PROVE  DOMAIN Only(T, D) = D /\ \A v \in D : Only(T, D)[v] = T[v]
BY DEF Only

LEMMA KeepInit == Init => KeepInv
<1> SUFFICES ASSUME Init PROVE KeepInv
  OBVIOUS
<1>1. SoloInv
  BY DEF Init, SoloInv
<1> QED BY <1>1, InitType, NoRecordsDomain
        DEF Init, KeepInv, TurnInv, ServingInv, LoadingInv, DownInv, Holds, Carried, Idle, Procs

(* A request begins an Insert. *)
LEMMA UploadKeeps ==
    ASSUME KeepInv, NEW t \in Threads, NEW u \in URLs, NEW i \in Infos, Upload(t, u, i)
    PROVE  TurnInv' /\ ServingInv' /\ LoadingInv' /\ DownInv'
<1> DEFINE r == [url |-> u, info |-> i]
<1>1. /\ pc' = [pc EXCEPT ![t] = "insert"] /\ arg' = [arg EXCEPT ![t] = r] /\ r.url = u
      /\ UNCHANGED <<table, snap, proc, file, toLoad>> /\ proc = "up" /\ t # Main
      /\ kept' = Only(kept, DOMAIN kept \ {u})
  BY StoreAssumption DEF StartInsert, Upload
<1> HIDE DEF r
<1>2. /\ DOMAIN kept' = DOMAIN kept \ {u}
      /\ \A v \in DOMAIN kept' : kept'[v] = kept[v]
  BY <1>1, OnlyValue
<1>3. /\ pc'[t] = "insert" /\ arg'[t] = r
      /\ \A s \in Procs \ {t} : pc'[s] = pc[s] /\ arg'[s] = arg[s]
  BY <1>1 DEF KeepInv, TypeOK, Procs
<1>4. TurnInv'
  BY <1>1, <1>3, StoreAssumption DEF KeepInv, TurnInv, Idle, Procs
<1>5. ServingInv'
  <2>1. \A s \in Threads : s # t => pc'[s] = pc[s] /\ arg'[s] = arg[s]
    BY <1>3 DEF Procs
  <2>2. /\ \A v \in DOMAIN kept : v \in DOMAIN table /\ table[v] = kept[v]
        /\ \A s \in Threads : pc[s] \in {"open", "write"} =>
              \A v \in DOMAIN kept : v \in DOMAIN snap[s] /\ snap[s][v] = kept[v]
        /\ (\A s \in Threads : pc[s] # "write") =>
              \A v \in DOMAIN kept : v \in DOMAIN file /\ file[v] = kept[v]
    BY <1>1 DEF KeepInv, ServingInv, Holds
  <2>3. Holds(table)'
    BY <1>1, <1>2, <2>2 DEF Holds
  <2>4. ASSUME NEW s \in Threads, pc'[s] \in {"open", "write"} PROVE Holds(snap[s])'
    <3>1. pc[s] \in {"open", "write"}
      BY <1>3, <2>1, <2>4
    <3> QED BY <1>1, <1>2, <2>2, <3>1 DEF Holds
  <2>5. \A s \in Threads : (~Idle(s))' => arg'[s].url \notin DOMAIN kept'
    BY <1>1, <1>2, <1>3, <2>1 DEF KeepInv, ServingInv, Idle
  <2>6. ASSUME \A s \in Threads : pc'[s] # "write" PROVE Holds(file)'
    <3>1. \A s \in Threads : pc[s] # "write"
      BY <1>1, <1>3, <2>1, <2>6 DEF Upload, Idle
    <3> QED BY <1>1, <1>2, <2>2, <3>1 DEF Holds
  <2> QED BY <1>1, <2>3, <2>4, <2>5, <2>6 DEF ServingInv
<1> QED BY <1>1, <1>4, <1>5 DEF LoadingInv, DownInv

(* InitLoad begins an Insert: no request is being served. *)
LEMMA LoadKeeps ==
    ASSUME KeepInv, NEW u \in URLs, Load(u)
    PROVE  TurnInv' /\ ServingInv' /\ LoadingInv' /\ DownInv'
<1> DEFINE r == [url |-> u, info |-> toLoad[u]]
<1>1. /\ pc' = [pc EXCEPT ![Main] = "insert"] /\ arg' = [arg EXCEPT ![Main] = r]
      /\ r.url = u /\ r.info = toLoad[u]
      /\ UNCHANGED <<table, snap, proc, file, kept>> /\ proc = "loading" /\ Idle(Main)
      /\ solo' = [s \in Procs |-> s = Main /\ \A p \in Procs : Idle(p)]
  BY DEF StartInsert, Load
<1> HIDE DEF r
<1>2. /\ u \in DOMAIN toLoad /\ DOMAIN toLoad' = DOMAIN toLoad \ {u}
      /\ \A w \in DOMAIN toLoad \ {u} : toLoad'[w] = toLoad[w]
  BY OnlyValue DEF Load
<1>3. \A p \in Procs : Idle(p)
  BY <1>1 DEF KeepInv, TurnInv, Procs
<1>4. /\ pc'[Main] = "insert" /\ arg'[Main] = r /\ solo'[Main]
      /\ \A s \in Threads : pc'[s] = pc[s]
  BY <1>1, <1>3, StoreAssumption DEF KeepInv, TypeOK, Procs
<1>5. TurnInv'
  BY <1>1, <1>4 DEF KeepInv, TurnInv, Idle
<1>6. LoadingInv'
  <2>1. ASSUME NEW v \in DOMAIN kept PROVE Carried(v)'
    <3>1. Carried(v)
      BY <1>1 DEF KeepInv, LoadingInv
    <3> QED BY <1>1, <1>2, <1>4, <3>1 DEF Carried, Idle
  <2> QED BY <1>1, <1>4, <2>1 DEF KeepInv, LoadingInv, Holds, Idle
<1> QED BY <1>1, <1>5, <1>6 DEF ServingInv, DownInv

(* The record goes into the table. *)
LEMMA RecordKeeps ==
    ASSUME KeepInv, NEW t \in Procs, InsertRecord(t)
    PROVE  TurnInv' /\ ServingInv' /\ LoadingInv' /\ DownInv'
<1>1. /\ DOMAIN table' = DOMAIN table \cup {arg[t].url}
      /\ table'[arg[t].url] = arg[t].info
      /\ \A v \in DOMAIN table \ {arg[t].url} : table'[v] = table[v]
  BY DEF InsertRecord, Put
<1>2. /\ pc[t] = "insert" /\ pc'[t] = "getall" /\ \A s \in Procs \ {t} : pc'[s] = pc[s]
      /\ UNCHANGED <<proc, file, arg, snap, toLoad, kept, solo>>
  BY DEF InsertRecord, KeepInv, TypeOK
<1>3. TurnInv'
  BY <1>2 DEF KeepInv, TurnInv, Idle, Procs
<1>4. CASE t = Main
  <2>1. proc = "loading"
    BY <1>2, <1>4 DEF KeepInv, TurnInv, Idle
  <2>2. ASSUME NEW v \in DOMAIN kept PROVE Carried(v)'
    <3>1. Carried(v)
      BY <2>1 DEF KeepInv, LoadingInv
    <3> QED BY <1>1, <1>2, <1>4, <3>1 DEF Carried, Idle
  <2>3. table' # NoRecords
    BY <1>1, NoRecordsDomain
  <2> QED BY <1>1, <1>2, <1>3, <1>4, <2>1, <2>2, <2>3 DEF LoadingInv, ServingInv, DownInv, Idle
<1>5. CASE t \in Threads
  <2>1. proc = "up" /\ arg[t].url \notin DOMAIN kept
    BY <1>2, <1>5 DEF KeepInv, TurnInv, ServingInv, Idle
  <2>2. Holds(table)'
    BY <1>1, <1>2, <2>1 DEF KeepInv, ServingInv, Holds
  <2>3. \A s \in Threads : pc[s] = pc'[s] \/ s = t
    BY <1>2 DEF Procs
  <2>4. ServingInv'
    BY <1>2, <1>5, <2>1, <2>2, <2>3 DEF KeepInv, ServingInv, Holds, Idle
  <2> QED BY <1>2, <1>3, <2>1, <2>4 DEF LoadingInv, DownInv
<1> QED BY <1>4, <1>5 DEF Procs

(* The copy, and the truncation of the file. *)
LEMMA StorageKeeps ==
    ASSUME KeepInv, NEW t \in Procs, StorageGetAll(t) \/ OpenFile(t)
    PROVE  TurnInv' /\ ServingInv' /\ LoadingInv' /\ DownInv'
<1>1. /\ pc[t] \in {"getall", "open"} /\ pc'[t] \in {"open", "write"}
      /\ \A s \in Procs \ {t} : pc'[s] = pc[s] /\ snap'[s] = snap[s]
      /\ UNCHANGED <<proc, arg, toLoad, kept, table, solo>>
      /\ snap'[t] = table \/ (pc[t] = "open" /\ snap'[t] = snap[t])
      /\ file' = file \/ pc'[t] = "write"
  BY DEF StorageGetAll, OpenFile, KeepInv, TypeOK
<1>2. TurnInv'
  BY <1>1 DEF KeepInv, TurnInv, Idle, Procs
<1>3. CASE t = Main
  <2>1. proc = "loading" /\ arg[Main].url \in DOMAIN table /\ pc[Main] # "insert" /\ ~Idle(Main)
    BY <1>1, <1>3 DEF KeepInv, TurnInv, LoadingInv, Idle
  <2>2. table # NoRecords
    BY <2>1, NoRecordsDomain
  <2>3. \A v \in DOMAIN kept : Carried(v)'
    BY <1>1, <1>3, <2>1 DEF KeepInv, LoadingInv, Carried, Idle
  <2> QED BY <1>1, <1>2, <1>3, <2>1, <2>2, <2>3 DEF LoadingInv, ServingInv, DownInv, Idle
<1>4. CASE t \in Threads
  <2>1. proc = "up"
    BY <1>1, <1>4 DEF KeepInv, TurnInv, Idle
  <2>2. Holds(table)
    BY <2>1 DEF KeepInv, ServingInv
  <2>3. \A s \in Threads : s # t => pc'[s] = pc[s] /\ snap'[s] = snap[s]
    BY <1>1 DEF Procs
  <2>4. Holds(snap'[t])
    BY <1>1, <1>4, <2>1, <2>2 DEF KeepInv, ServingInv
  <2>5. \A s \in Threads : pc'[s] \in {"open", "write"} => Holds(snap'[s])
    BY <2>1, <2>3, <2>4 DEF KeepInv, ServingInv
  <2>6. ServingInv'
    BY <1>1, <1>4, <2>1, <2>2, <2>3, <2>5 DEF KeepInv, ServingInv, Holds, Idle
  <2> QED BY <1>1, <1>2, <2>1, <2>6 DEF LoadingInv, DownInv
<1> QED BY <1>3, <1>4 DEF Procs

(* The call returns and the file was not written: nothing is kept, or the   *)
(* file has not changed.                                                    *)
LEMMA FailKeeps ==
    ASSUME KeepInv, NEW t \in Procs, OpenFails(t) \/ WriteFails(t)
    PROVE  TurnInv' /\ ServingInv' /\ LoadingInv' /\ DownInv'
<1>1. /\ pc[t] \in {"open", "write"} /\ pc'[t] = "idle"
      /\ \A s \in Procs \ {t} : pc'[s] = pc[s] /\ arg'[s] = arg[s] /\ snap'[s] = snap[s]
                                /\ solo'[s] = solo[s]
      /\ UNCHANGED <<proc, toLoad, table>>
  BY DEF OpenFails, WriteFails, Return, KeepInv, TypeOK
<1>2. TurnInv'
  BY <1>1 DEF KeepInv, TurnInv, Idle, Procs
<1>3. CASE kept' = NoRecords
  <2>1. pc'[Main] \in {"getall", "open", "write"} => arg'[Main].url \in DOMAIN table'
    BY <1>1 DEF KeepInv, TurnInv, LoadingInv, Idle, Procs
  <2> QED BY <1>2, <1>3, <2>1, NoRecordsDomain
          DEF ServingInv, LoadingInv, DownInv, Holds, Carried
<1>4. CASE t # Main /\ OpenFails(t)
  <2>1. kept' = kept /\ file' = file /\ t \in Threads /\ proc = "up" /\ pc[t] = "open"
    BY <1>4, <1>1 DEF OpenFails, KeepInv, TurnInv, Procs, Idle
  <2>2. \A s \in Threads : s # t => pc'[s] = pc[s] /\ arg'[s] = arg[s] /\ snap'[s] = snap[s]
    BY <1>1 DEF Procs
  <2>3. ServingInv'
    BY <1>1, <2>1, <2>2 DEF KeepInv, ServingInv, Holds, Idle
  <2> QED BY <1>1, <1>2, <2>1, <2>3 DEF LoadingInv, DownInv
<1> QED BY <1>3, <1>4 DEF OpenFails, WriteFails

(* The write, after which the call has returned. *)
LEMMA WriteKeeps ==
    ASSUME KeepInv, NEW t \in Procs, WriteFile(t)
    PROVE  TurnInv' /\ ServingInv' /\ LoadingInv' /\ DownInv'
<1>1. /\ pc[t] = "write" /\ pc'[t] = "idle" /\ file' = snap[t]
      /\ \A s \in Procs \ {t} : pc'[s] = pc[s] /\ arg'[s] = arg[s] /\ snap'[s] = snap[s]
      /\ UNCHANGED <<proc, toLoad, table, solo>>
  BY DEF WriteFile, Return, KeepInv, TypeOK
<1>2. TurnInv'
  BY <1>1 DEF KeepInv, TurnInv, Idle, Procs
<1>3. solo[t] => file' = table /\ \A s \in Procs \ {t} : pc[s] = "idle"
  BY <1>1 DEF KeepInv, SoloInv
<1>4. CASE t = Main
  <2>1. /\ proc = "loading" /\ kept' = kept /\ file' = table /\ ~Idle(Main)
        /\ arg[Main].url \in DOMAIN table /\ pc[Main] # "insert"
    BY <1>1, <1>3, <1>4 DEF WriteFile, KeepInv, TurnInv, LoadingInv, Idle
  <2>2. table # NoRecords
    BY <2>1, NoRecordsDomain
  <2>3. \A v \in DOMAIN kept : Carried(v)'
    BY <1>1, <1>4, <2>1 DEF KeepInv, LoadingInv, Carried, Idle
  <2> QED BY <1>1, <1>2, <1>4, <2>1, <2>2, <2>3 DEF LoadingInv, ServingInv, DownInv, Idle
<1>5. CASE t \in Threads
  <2>1. proc = "up" /\ t # Main
    BY <1>1, <1>5, StoreAssumption DEF KeepInv, TurnInv, Idle
  <2>2. \A s \in Threads : s # t => pc'[s] = pc[s] /\ arg'[s] = arg[s] /\ snap'[s] = snap[s]
    BY <1>1 DEF Procs
  <2>3. CASE solo[t]
    <3>1. kept' = table /\ file' = table
      BY <1>3, <2>1, <2>3 DEF WriteFile
    <3>2. \A s \in Threads : pc'[s] = "idle"
      BY <1>1, <1>3, <2>2, <2>3 DEF Procs
    <3>3. ServingInv'
      BY <1>1, <3>1, <3>2 DEF ServingInv, Holds, Idle
    <3> QED BY <1>1, <1>2, <2>1, <3>3 DEF LoadingInv, DownInv
  <2>4. CASE ~solo[t]
    <3>1. kept' = kept
      BY <2>4 DEF WriteFile
    <3>2. Holds(snap[t])
      BY <1>1, <1>5, <2>1 DEF KeepInv, ServingInv
    <3>3. ServingInv'
      BY <1>1, <2>1, <2>2, <3>1, <3>2 DEF KeepInv, ServingInv, Holds, Idle
    <3> QED BY <1>1, <1>2, <2>1, <3>3 DEF LoadingInv, DownInv
  <2> QED BY <2>3, <2>4
<1> QED BY <1>4, <1>5 DEF Procs

(* The process dies, by a crash or by an exception of InitLoad. *)
LEMMA DieKeeps ==
    ASSUME KeepInv, Die, proc # "down"
    PROVE  TurnInv' /\ ServingInv' /\ LoadingInv' /\ DownInv'
<1>1. proc' = "down" /\ file' = file /\ \A t \in Procs : pc'[t] = "idle"
  BY DEF Die
<1>2. DownInv'
  <2>1. CASE HalfWritten
    BY <2>1, NoRecordsDomain DEF Die, DownInv, Holds
  <2>2. CASE ~HalfWritten
    <3>1. Holds(file) /\ kept' = kept
      BY <2>2 DEF Die, HalfWritten, KeepInv, TypeOK, ServingInv, LoadingInv, Procs
    <3> QED BY <1>1, <3>1 DEF DownInv, Holds
  <2> QED BY <2>1, <2>2
<1> QED BY <1>1, <1>2 DEF TurnInv, ServingInv, LoadingInv, Idle, Procs

LEMMA RestartKeeps ==
    ASSUME KeepInv, Restart
    PROVE  TurnInv' /\ ServingInv' /\ LoadingInv' /\ DownInv'
<1>1. /\ proc = "down" /\ proc' = "loading"
      /\ UNCHANGED <<table, pc, arg, snap, file, solo>>
      /\ \/ toLoad' = file /\ kept' = kept
         \/ kept' = NoRecords
  BY DEF Restart, tvars
<1>2. table = NoRecords /\ DOMAIN table = {} /\ \A t \in Procs : pc[t] = "idle"
  BY <1>1, NoRecordsDomain DEF KeepInv, TypeOK, Idle
<1>3. Holds(file) /\ TurnInv'
  BY <1>1, <1>2 DEF KeepInv, DownInv, TurnInv, Idle, Procs
<1>4. LoadingInv'
  BY <1>1, <1>2, <1>3, NoRecordsDomain DEF LoadingInv, Carried, Holds, Idle, Procs
<1> QED BY <1>1, <1>3, <1>4 DEF ServingInv, DownInv

LEMMA LoadDoneKeeps ==
    ASSUME KeepInv, LoadDone
    PROVE  TurnInv' /\ ServingInv' /\ LoadingInv' /\ DownInv'
<1>1. /\ proc = "loading" /\ proc' = "up" /\ Idle(Main) /\ DOMAIN toLoad = {}
      /\ UNCHANGED <<table, pc, arg, snap, file, kept, toLoad, solo>>
  BY DEF LoadDone, tvars
<1>2. Holds(table)
  BY <1>1 DEF KeepInv, LoadingInv, Carried, Holds, Idle
<1>3. Holds(file)
  BY <1>1, <1>2, NoRecordsDomain DEF KeepInv, LoadingInv, Holds
<1>4. \A t \in Threads : pc[t] = "idle"
  BY <1>1 DEF KeepInv, TurnInv, Idle
<1>5. TurnInv'
  BY <1>1, <1>4 DEF TurnInv, Idle
<1> QED BY <1>1, <1>2, <1>3, <1>4, <1>5 DEF ServingInv, LoadingInv, DownInv, Holds, Idle

LEMMA KeepNext ==
    ASSUME KeepInv, [Next]_vars
    PROVE  KeepInv'
<1>0. TypeOK' /\ SoloInv'
  BY NextType, SoloStep DEF KeepInv
<1> SUFFICES TurnInv' /\ ServingInv' /\ LoadingInv' /\ DownInv'
  BY <1>0 DEF KeepInv
<1>1. ASSUME NEW t \in Threads, Handler(t)
      PROVE  TurnInv' /\ ServingInv' /\ LoadingInv' /\ DownInv'
  <2>1. CASE GetOneByURL(t) \/ GetAll(t)
    <3>1. UNCHANGED <<proc, table, file, pc, arg, snap, toLoad, kept, solo>>
      BY <2>1 DEF GetOneByURL, GetAll
    <3> QED BY <3>1 DEF KeepInv, TurnInv, ServingInv, LoadingInv, DownInv, Holds, Carried, Idle
  <2> QED BY <1>1, <2>1, UploadKeeps, StoreAssumption DEF Handler
<1>2. ASSUME NEW t \in Procs, Insert(t)
      PROVE  TurnInv' /\ ServingInv' /\ LoadingInv' /\ DownInv'
  BY <1>2, RecordKeeps, StorageKeeps, FailKeeps, WriteKeeps DEF Insert
<1>3. ASSUME NEW u \in URLs, Load(u) \/ LoadThrows(u)
      PROVE  TurnInv' /\ ServingInv' /\ LoadingInv' /\ DownInv'
  BY <1>3, LoadKeeps, DieKeeps DEF LoadThrows
<1>4. CASE LoadDone
  BY <1>4, LoadDoneKeeps
<1>5. CASE Crash
  BY <1>5, DieKeeps DEF Crash
<1>6. CASE Restart
  BY <1>6, RestartKeeps
<1>7. CASE UNCHANGED vars
  BY <1>7 DEF vars, KeepInv, TurnInv, ServingInv, LoadingInv, DownInv, Holds, Carried, Idle
<1> QED BY <1>1, <1>2, <1>3, <1>4, <1>5, <1>6, <1>7 DEF Next

(* What the file is known to hold is in the table of every process that     *)
(* serves, for any number of threads, with overlapping Inserts, failing     *)
(* reads and writes and crashes anywhere.                                   *)
THEOREM UploadsSurvive == Spec => []UploadsKept
<1>1. Init => KeepInv
  BY KeepInit
<1>2. KeepInv /\ [Next]_vars => KeepInv'
  BY KeepNext
<1>3. KeepInv => UploadsKept
  BY DEF KeepInv, ServingInv, Holds, UploadsKept
<1> QED BY <1>1, <1>2, <1>3, PTL DEF Spec
=============================================================================
