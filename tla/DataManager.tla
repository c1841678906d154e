----------------------------- MODULE DataManager -----------------------------
(***************************************************************************)
(* storage::DataManager (src/include/DataManager.h): the table of uploaded  *)
(* files, the rwlock around it, and the JSON file that keeps it across      *)
(* restarts.  The request handlers run on two threads (test.cpp: t1 and the *)
(* thread of the pool that owns the same io_context).                       *)
(*                                                                          *)
(* Only pthread_rwlock_wrlock is ever called.  glibc returns EDEADLK to the *)
(* thread that already holds the lock and the code ignores the result, so   *)
(* the holder never blocks on itself; every other thread does.              *)
(***************************************************************************)
EXTENDS FiniteSets, Integers

CONSTANTS
    Threads,       \* the threads that run request handlers
    Main,          \* the thread that constructs the DataManager
    Nobody,        \* rwlock_ is free
    URLs, Infos,   \* keys, and StorageInfo values, of the table
    Unloadable,    \* the infos with a number asInt() may not accept: those
                   \* of an info NewStorageInfo left uninitialised
    NoUrl,         \* the key "": of an info without a url
    Torn,          \* the info read back from a record torn by a failed write
    NoArg,         \* a thread outside Insert
    Operations,    \* the requests of the run: "upload", "download", "list"
    Faults,        \* whether the file system may fail
    CrashWhen,     \* when the process may die: "quiet", "serving", "loading"
    MaxUploads     \* bound of the model: uploads in a behaviour

ASSUME StoreAssumption ==
    /\ Main \notin Threads
    /\ Nobody \notin Threads \cup {Main}
    /\ Unloadable \subseteq Infos
    /\ NoUrl \in URLs
    /\ Torn \in Infos \ Unloadable
    /\ Faults \in BOOLEAN
    /\ MaxUploads \in Nat

VARIABLES
    proc,     \* the process: "loading" (InitLoad), "up", "down"
    writer,   \* the holder of rwlock_
    table,    \* table_
    file,     \* the records in storage_file_; none if empty or absent
    pc, arg,  \* where each thread is in Insert, and the record it inserts
    snap,     \* the copy of the table that Storage serialises
    toLoad,   \* the records InitLoad has parsed and not inserted yet
    kept,     \* history: the records the file is known to hold
    solo,     \* history: no other Insert has overlapped the thread's last
              \* one, and its file was opened and written
    uploads   \* history: number of uploads, for the bound

tvars == <<writer, table, pc, arg, snap, solo>>
vars  == <<proc, writer, table, file, pc, arg, snap, toLoad, kept, solo, uploads>>

Procs == Threads \cup {Main}

Table == UNION {[D -> Infos] : D \in SUBSET URLs}

NoRecords == [u \in {} |-> u]

(* table_[u] = i *)
Put(T, u, i) == [v \in DOMAIN T \cup {u} |-> IF v = u THEN i ELSE T[v]]

(* The records of T whose url is in D. *)
Only(T, D) == [v \in D |-> T[v]]

Init ==
    /\ proc = "loading"
    /\ writer = Nobody
    /\ table = NoRecords /\ file = NoRecords /\ toLoad = NoRecords
    /\ pc = [t \in Procs |-> "idle"]
    /\ arg = [t \in Procs |-> NoArg]
    /\ snap = [t \in Procs |-> NoRecords]
    /\ kept = NoRecords
    /\ solo = [t \in Procs |-> FALSE]
    /\ uploads = 0

-----------------------------------------------------------------------------
(* pthread_rwlock_wrlock returns: the lock is free, or EDEADLK. *)
WrLock(t) == writer \in {Nobody, t}

Idle(t) == pc[t] = "idle"

StartInsert(t, u, i) ==
    /\ pc' = [pc EXCEPT ![t] = "insert"]
    /\ arg' = [arg EXCEPT ![t] = [url |-> u, info |-> i]]
    /\ solo' = [s \in Procs |-> s = t /\ \A r \in Procs : Idle(r)]
    /\ kept' = IF t = Main THEN kept ELSE Only(kept, DOMAIN kept \ {u})
    /\ UNCHANGED <<writer, table, snap>>

(* Service::Upload calls Insert. *)
Upload(t, u, i) ==
    /\ "upload" \in Operations /\ uploads < MaxUploads
    /\ proc = "up" /\ t \in Threads /\ Idle(t)
    /\ StartInsert(t, u, i)
    /\ uploads' = uploads + 1
    /\ UNCHANGED <<proc, file, toLoad>>

(* Bugs of Insert: the table is copied for the file before the record is    *)
(* in it; the file is not written; the lock is not released.                *)
InsertAfterCopy(t) ==
    /\ pc[t] = "insert" /\ WrLock(t)
    /\ table' = Put(table, arg[t].url, arg[t].info)
    /\ snap' = [snap EXCEPT ![t] = table]
    /\ writer' = Nobody
    /\ pc' = [pc EXCEPT ![t] = "open"]
    /\ UNCHANGED <<proc, file, arg, toLoad, kept, solo, uploads>>
InsertNoStorage(t) ==
    /\ pc[t] = "insert" /\ WrLock(t)
    /\ table' = Put(table, arg[t].url, arg[t].info)
    /\ writer' = Nobody
    /\ pc' = [pc EXCEPT ![t] = "idle"]
    /\ arg' = [arg EXCEPT ![t] = NoArg]
    /\ UNCHANGED <<proc, file, snap, toLoad, kept, solo, uploads>>
InsertNoUnlock(t) ==
    /\ pc[t] = "insert" /\ WrLock(t)
    /\ table' = Put(table, arg[t].url, arg[t].info)
    /\ writer' = t
    /\ pc' = [pc EXCEPT ![t] = "getall"]
    /\ UNCHANGED <<proc, file, arg, snap, toLoad, kept, solo, uploads>>

(* The first half of Insert: lock, table_[info.url_] = info, unlock. *)
InsertRecord(t) ==
    /\ pc[t] = "insert" /\ WrLock(t)
    /\ table' = Put(table, arg[t].url, arg[t].info)
    /\ writer' = Nobody
    /\ pc' = [pc EXCEPT ![t] = "getall"]
    /\ UNCHANGED <<proc, file, arg, snap, toLoad, kept, solo, uploads>>

(* A bug: GetAll returns with the lock. *)
GetAllNoUnlock(t) ==
    /\ pc[t] = "getall" /\ WrLock(t)
    /\ snap' = [snap EXCEPT ![t] = table]
    /\ writer' = t
    /\ pc' = [pc EXCEPT ![t] = "open"]
    /\ UNCHANGED <<proc, table, file, arg, toLoad, kept, solo, uploads>>

(* Storage: GetAll copies the table under the lock. *)
StorageGetAll(t) ==
    /\ pc[t] = "getall" /\ WrLock(t)
    /\ snap' = [snap EXCEPT ![t] = table]
    /\ writer' = Nobody
    /\ pc' = [pc EXCEPT ![t] = "open"]
    /\ UNCHANGED <<proc, table, file, arg, toLoad, kept, solo, uploads>>

(* Insert returns, true whatever happened to the file. *)
Return(t) ==
    /\ pc' = [pc EXCEPT ![t] = "idle"]
    /\ arg' = [arg EXCEPT ![t] = NoArg]
    /\ snap' = [snap EXCEPT ![t] = NoRecords]
    /\ UNCHANGED <<proc, writer, table, toLoad, uploads>>

(* SetContent, without the lock: the ofstream truncates the file; the body  *)
(* goes out in one write.  What a longer body of another thread leaves      *)
(* behind it is ignored by the JSON parser, which stops at the end of the   *)
(* array: the last write decides what a restart reads.                      *)
OpenFile(t) ==
    /\ pc[t] = "open"
    /\ file' = NoRecords
    /\ pc' = [pc EXCEPT ![t] = "write"]
    /\ UNCHANGED <<proc, writer, table, arg, snap, toLoad, kept, solo, uploads>>

(* The file stays as it was, which a request can live with: InitLoad may    *)
(* have written less than it has still to insert.                           *)
OpenFails(t) ==
    /\ Faults
    /\ pc[t] = "open"
    /\ Return(t)
    /\ solo' = [solo EXCEPT ![t] = FALSE]
    /\ kept' = IF t = Main THEN NoRecords ELSE kept
    /\ UNCHANGED file

WriteFile(t) ==
    /\ pc[t] = "write"
    /\ file' = snap[t]
    /\ Return(t)
    /\ kept' = IF solo[t] /\ t # Main THEN table ELSE kept
    /\ UNCHANGED solo

(* The write stops on the way.  UnSerialize reports the error, InitLoad     *)
(* does not look, and the parser has kept what it read: the records before  *)
(* the cut, and as the last element what there was of the record the cut    *)
(* has torn.  Its keys are written in order and url_ is the last of them,   *)
(* so a torn record has no url; one whose members are all there is whole.   *)
WriteFails(t) ==
    /\ Faults
    /\ pc[t] = "write"
    /\ \E D \in SUBSET DOMAIN snap[t] :
          \/ file' = Only(snap[t], D)
          \/ D # DOMAIN snap[t] /\ file' = Put(Only(snap[t], D), NoUrl, Torn)
    /\ Return(t)
    /\ solo' = [solo EXCEPT ![t] = FALSE]
    /\ kept' = NoRecords

Insert(t) ==
    \/ InsertRecord(t)
    \/ StorageGetAll(t)
    \/ OpenFile(t) \/ OpenFails(t)
    \/ WriteFile(t) \/ WriteFails(t)

(* Service::Download calls GetOneByURL.  An unknown url returns without     *)
(* unlocking; a known one locks a second time where it means to unlock.     *)
(* Both leave the lock with the thread.                                     *)
GetOneByURL(t) ==
    /\ "download" \in Operations
    /\ proc = "up" /\ t \in Threads /\ Idle(t)
    /\ WrLock(t)
    /\ writer' = t
    /\ UNCHANGED <<proc, table, file, pc, arg, snap, toLoad, kept, solo, uploads>>

(* Service::ListShow calls GetAll, whose unlock also drops a lock that an   *)
(* earlier download of the same thread has kept.                            *)
GetAll(t) ==
    /\ "list" \in Operations
    /\ proc = "up" /\ t \in Threads /\ Idle(t)
    /\ WrLock(t)
    /\ writer' = Nobody
    /\ UNCHANGED <<proc, table, file, pc, arg, snap, toLoad, kept, solo, uploads>>

-----------------------------------------------------------------------------
(* The process *)

(* InitLoad inserts the parsed records one by one, each with its Storage.   *)
Load(u) ==
    /\ proc = "loading" /\ Idle(Main)
    /\ u \in DOMAIN toLoad
    /\ toLoad' = Only(toLoad, DOMAIN toLoad \ {u})
    /\ StartInsert(Main, u, toLoad[u])
    /\ UNCHANGED <<proc, file, uploads>>

(* The file is being rewritten: it has been truncated and not written yet,  *)
(* or InitLoad has begun to insert, and so to write, what it has read.      *)
HalfWritten ==
    \/ \E t \in Procs : pc[t] = "write"
    \/ proc = "loading" /\ table # NoRecords

Die ==
    /\ proc' = "down"
    /\ writer' = Nobody
    /\ table' = NoRecords /\ toLoad' = NoRecords
    /\ pc' = [t \in Procs |-> "idle"]
    /\ arg' = [t \in Procs |-> NoArg]
    /\ snap' = [t \in Procs |-> NoRecords]
    /\ solo' = [t \in Procs |-> FALSE]
    /\ kept' = IF HalfWritten THEN NoRecords ELSE kept
    /\ UNCHANGED <<file, uploads>>

(* asInt() throws out of the constructor; nobody catches it. *)
LoadThrows(u) ==
    /\ proc = "loading" /\ Idle(Main)
    /\ u \in DOMAIN toLoad /\ toLoad[u] \in Unloadable
    /\ Die

(* A bug: the loop over the records stops one short. *)
LoadDoneEarly ==
    /\ proc = "loading" /\ Idle(Main)
    /\ Cardinality(DOMAIN toLoad) <= 1
    /\ proc' = "up"
    /\ toLoad' = NoRecords
    /\ UNCHANGED <<tvars, file, kept, uploads>>

LoadDone ==
    /\ proc = "loading" /\ Idle(Main)
    /\ DOMAIN toLoad = {}
    /\ proc' = "up"
    /\ UNCHANGED <<tvars, file, toLoad, kept, uploads>>

Phase ==
    IF proc = "loading" THEN "loading"
    ELSE IF \A t \in Procs : Idle(t) THEN "quiet" ELSE "serving"

Crash ==
    /\ proc # "down"
    /\ Phase \in CrashWhen
    /\ Die

(* The process starts again: InitLoad reads and parses the file.  GetContent *)
(* returns true when the read fails: the table then starts empty.           *)
Restart ==
    /\ proc = "down"
    /\ proc' = "loading"
    /\ \/ toLoad' = file /\ UNCHANGED kept
       \/ Faults /\ toLoad' = NoRecords /\ kept' = NoRecords
    /\ UNCHANGED <<tvars, file, uploads>>

(* An info that NewStorageInfo has not filled in has no url either. *)
Handler(t) ==
    \/ \E u \in URLs \ {NoUrl}, i \in Infos \ (Unloadable \cup {Torn}) : Upload(t, u, i)
    \/ \E i \in Unloadable : Upload(t, NoUrl, i)
    \/ GetOneByURL(t)
    \/ GetAll(t)

Next ==
    \/ \E t \in Threads : Handler(t)
    \/ \E t \in Procs : Insert(t)
    \/ \E u \in URLs : Load(u) \/ LoadThrows(u)
    \/ LoadDone
    \/ Crash
    \/ Restart

Spec == Init /\ [][Next]_vars

(* A thread inside Insert runs as soon as the lock lets it; a stopped       *)
(* process is started again and loads.                                      *)
Fairness ==
    /\ \A t \in Procs : WF_vars(Insert(t))
    /\ WF_vars(LoadDone \/ \E u \in URLs : Load(u) \/ LoadThrows(u))
    /\ WF_vars(Restart)

FairSpec == Spec /\ Fairness

-----------------------------------------------------------------------------
(* Properties *)

(* Every variable has its type; a process that does not serve holds no      *)
(* lock, and one that is down has lost everything but the file.             *)
TypeOK ==
    /\ proc \in {"loading", "up", "down"}
    /\ writer \in Threads \cup {Nobody}
    /\ proc # "up" => writer = Nobody
    /\ table \in Table /\ file \in Table /\ toLoad \in Table /\ kept \in Table
    /\ pc \in [Procs -> {"idle", "insert", "getall", "open", "write"}]
    /\ arg \in [Procs -> [url : URLs, info : Infos] \cup {NoArg}]
    /\ \A t \in Procs : ~Idle(t) => arg[t] \in [url : URLs, info : Infos]
    /\ snap \in [Procs -> Table]
    /\ proc = "down" => table = NoRecords /\ \A t \in Procs : Idle(t)
    /\ solo \in [Procs -> BOOLEAN]
    /\ uploads \in 0 .. MaxUploads

(* DataManager.h:91, "store it each time the information changes": while no *)
(* request is being served the file holds the table, if the last Insert was *)
(* alone and could write: whatever overlaps, failed writes and crashes      *)
(* there were before it.                                                    *)
PersistedWhenQuiet ==
    proc = "up" /\ (\A t \in Procs : Idle(t)) /\ (\E t \in Procs : solo[t])
        => file = table

(* What the file was known to hold is in the table, with the same info,     *)
(* through overlapping Inserts and restarts: kept is the whole table after  *)
(* an Insert that was alone, loses a url when it is uploaded again, and is  *)
(* forgotten only when a write fails, when the process dies while the file  *)
(* is being rewritten, or when InitLoad cannot read or open it.             *)
UploadsKept ==
    proc = "up" => \A u \in DOMAIN kept : u \in DOMAIN table /\ table[u] = kept[u]

(* A write of an Insert that overlapped no other, if it succeeds, leaves    *)
(* the whole table in the file, whatever happened before: a failed write, a *)
(* crash, a race.                                                           *)
SoloWrite == \A t \in Procs : solo[t] /\ WriteFile(t) => file' = table'
SoloPersisted == [][SoloWrite]_vars

(* A call of Insert returns. *)
EveryCallReturns == \A t \in Procs : (pc[t] # "idle") ~> (pc[t] = "idle")

(* DataManager.h:60, "read the data from the file when the program starts": *)
(* the program gets through InitLoad.                                       *)
StartsUp == (proc = "loading") ~> (proc = "up")
=============================================================================
