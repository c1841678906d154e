----------------------------- MODULE FileService -----------------------------
(***************************************************************************)
(* storage::Service (src/Service.cpp): the handlers of POST /upload,        *)
(* GET /download/<name> and GET /, with the files they keep on disk, over   *)
(* the table of DataManager.  Each handler runs to its end on one of the    *)
(* two threads of the io_context; between two steps of one thread the other *)
(* may run.                                                                 *)
(*                                                                          *)
(* A file is an inode: a path leads to it, an open descriptor holds it.  A  *)
(* name has one url for both storage types, "/download/" and the name.      *)
(***************************************************************************)
EXTENDS FiniteSets, Integers, Sequences

CONSTANTS
    Threads, Main, Nobody, NoArg, Operations, CrashWhen, MaxUploads,
               \* as in DataManager
    Faults,    \* whether the file system may fail on an uploaded file
    StoreFaults,  \* whether it may fail on the file of the table
    Names,     \* the names of uploaded files
    NoUrl,     \* the empty url, of an info NewStorageInfo did not fill in
    Raw,       \* that info
    Torn,      \* the info read back from a record of the table's file that a
               \* failed write has torn
    Contents,  \* what users upload
    Size,      \* bytes of a content
    Text,      \* bytes of it before its first zero byte
    Garbage,   \* a byte that the upload did not hold
    Nothing    \* no content

Types == {"low", "deep"}
Paths == Types \X Names
Sizes == 0 .. 3    \* a bound of the model: sizes in bytes

ASSUME FileAssumption ==
    /\ Contents # {}
    /\ Size \in [Contents -> Sizes \ {0}] /\ Text \in [Contents -> Sizes]
    /\ Nothing \notin Contents /\ NoUrl \notin Names
    /\ Raw # Torn /\ {Raw, Torn} \cap [path : Paths, size : Nat] = {}
    /\ Main \notin Threads /\ Nobody \notin Threads \cup {Main}
    /\ StoreFaults \in BOOLEAN /\ MaxUploads \in Nat

VARIABLES
    proc, writer, table, file, pc, arg, snap, toLoad, kept, solo, uploads,
               \* as in DataManager
    disk,      \* the inode a path leads to, 0 if there is no such file
    data,      \* the bytes of each inode
    job,       \* the request each thread serves
    reply,     \* the last answer each thread gave
    promised,  \* history: the upload that a download of the name must return
    removed,   \* history: a download has removed a file of the low storage
    mixed,     \* history: the names that two uploads at a time have written
    begun      \* history: uploads begun, for the bound

storeVars == <<proc, writer, table, file, pc, arg, snap, toLoad, kept, solo, uploads>>
fileVars  == <<disk, data, removed>>
vars      == <<storeVars, fileVars, job, reply, promised, mixed, begun>>

Info == [path : Paths, size : Nat] \cup {Raw, Torn}

Store == INSTANCE DataManager
         WITH URLs <- Names \cup {NoUrl}, Infos <- Info, Unloadable <- {Raw},
              Faults <- StoreFaults

Job == [stage : {"idle", "create", "write", "stat", "insert",
                 "exists", "open", "size", "buffer", "read", "remove"},
        name : Names \cup {NoUrl}, type : Types, content : Contents \cup {Nothing},
        info : Info, inode : Nat, size : Sizes, clean : BOOLEAN]

Idle(t)        == job[t].stage = "idle"
Uploading(t)   == job[t].stage \in {"create", "write", "stat", "insert"}
Downloading(t) == ~Idle(t) /\ ~Uploading(t)

(* The file a job reads or writes.  A download of a file that is not in the *)
(* low storage means to unpack it there first: UnCompress (Util.h:193)      *)
(* writes the unpacked bytes to a file named by those bytes instead, so the *)
(* path that Download goes on with is one no unpacked copy is ever put at.  *)
Target(t) ==
    IF Uploading(t) THEN <<job[t].type, job[t].name>> ELSE <<"low", job[t].name>>

Deep(j) == j.info # Raw /\ j.info.path[1] = "deep"

(* What the upload of c holds. *)
Whole(c) == [i \in 1 .. Size[c] |-> <<c, i>>]

(* What SetContent(content.c_str(), len) writes: the argument is copied up  *)
(* to its first zero byte, then len bytes are written from the copy.        *)
Written(c) == [i \in 1 .. Size[c] |-> IF i <= Text[c] + 1 THEN <<c, i>> ELSE Garbage]

(* What Compress(content.c_str()) packs. *)
Packed(c) == <<<<c, Text[c]>>>>

(* A write at offset 0 of a file that holds old. *)
Overlay(new, old) ==
    [i \in 1 .. (IF Len(new) > Len(old) THEN Len(new) ELSE Len(old)) |->
        IF i <= Len(new) THEN new[i] ELSE old[i]]

FileSize(p) == IF disk[p] = 0 THEN 0 ELSE Len(data[disk[p]])

NoJob == [stage |-> "idle", name |-> NoUrl, type |-> "low",
          content |-> Nothing, info |-> Raw, inode |-> 0, size |-> 0, clean |-> FALSE]

(* The answer to a download: due is the content it should have. *)
Answer(j, status, body, etag) ==
    [status |-> status, body |-> body, etag |-> etag, name |-> j.name,
     due |-> IF j.clean THEN promised[j.name] ELSE Nothing]

Plain(status) ==
    [status |-> status, body |-> <<>>, etag |-> 0, name |-> NoUrl, due |-> Nothing]

Init ==
    /\ Store!Init
    /\ disk = [p \in Paths |-> 0] /\ data = <<>> /\ removed = FALSE
    /\ job = [t \in Threads |-> NoJob]
    /\ reply = [t \in Threads |-> Plain("none")]
    /\ promised = [n \in Names |-> Nothing] /\ mixed = {}
    /\ begun = 0

Goes(t, stage) == job' = [job EXCEPT ![t].stage = stage]

(* The handler answers and returns. *)
Ends(t, answer) ==
    /\ job' = [job EXCEPT ![t] = NoJob]
    /\ reply' = [reply EXCEPT ![t] = answer]

-----------------------------------------------------------------------------
(* Upload *)

(* A request without body, Filename or StorageType, with a Filename that is *)
(* not base64 (its handler throws), or with another type.                   *)
Refuse(t) ==
    /\ Store!Idle(t) /\ Idle(t) /\ proc = "up" /\ "upload" \in Operations
    /\ Ends(t, Plain("error"))
    /\ UNCHANGED <<storeVars, fileVars, promised, mixed, begun>>

(* An upload is clean, for the promise it makes, if it shares the name with *)
(* no other upload in progress and no download of a deep file.              *)
StartUpload(t, n, type, c) ==
    LET others == {s \in Threads : ~Idle(s) /\ job[s].name = n}
        clean  == \A s \in others : Downloading(s) /\ ~Deep(job[s])
    IN  /\ "upload" \in Operations /\ begun < MaxUploads
        /\ proc = "up" /\ Idle(t) /\ Store!Idle(t)
        /\ job' = [s \in Threads |->
                     IF s = t THEN [NoJob EXCEPT !.stage = "create", !.name = n,
                                    !.type = type, !.content = c, !.clean = clean]
                     ELSE IF s \in others THEN [job[s] EXCEPT !.clean = FALSE]
                     ELSE job[s]]
        /\ promised' = [promised EXCEPT ![n] = Nothing]
        /\ mixed' = IF \E s \in others : Uploading(s) THEN mixed \cup {n} ELSE mixed
        /\ begun' = begun + 1
        /\ reply' = [reply EXCEPT ![t] = Plain("none")]
        /\ UNCHANGED <<storeVars, fileVars>>

(* SetContent opens the file, which truncates or creates it. *)
OpenFor(t, truncate) ==
    LET p == Target(t)
        i == IF disk[p] = 0 THEN Len(data) + 1 ELSE disk[p]
    IN  /\ job[t].stage = "create"
        /\ disk' = [disk EXCEPT ![p] = i]
        /\ data' = IF disk[p] = 0 THEN Append(data, <<>>) ELSE [data EXCEPT ![i] = IF truncate THEN <<>> ELSE @]
        /\ job' = [job EXCEPT ![t].stage = "write", ![t].inode = i]
        /\ UNCHANGED <<storeVars, removed, reply, promised, mixed, begun>>

(* A bug: an existing file keeps its bytes. *)
CreateKeeps(t) == OpenFor(t, FALSE)

Create(t) == OpenFor(t, TRUE)

CreateFails(t) ==
    /\ Faults /\ job[t].stage = "create"
    /\ Ends(t, Plain("error"))
    /\ UNCHANGED <<storeVars, fileVars, promised, mixed, begun>>

Bytes(j) == IF j.type = "low" THEN Written(j.content) ELSE Packed(j.content)

Write(t) ==
    /\ job[t].stage = "write"
    /\ data' = [data EXCEPT ![job[t].inode] = Overlay(Bytes(job[t]), @)]
    /\ Goes(t, "stat")
    /\ UNCHANGED <<storeVars, disk, removed, reply, promised, mixed, begun>>

(* The device is full: only some bytes are written.  A large body fails at  *)
(* once and the request with it; a small one fails when the stream is       *)
(* closed, and SetContent has returned true by then.                        *)
WriteFails(t) ==
    /\ Faults /\ job[t].stage = "write"
    /\ \E k \in 0 .. Len(Bytes(job[t])) - 1 :
          data' = [data EXCEPT ![job[t].inode] = Overlay(SubSeq(Bytes(job[t]), 1, k), @)]
    /\ \/ Ends(t, Plain("error"))
       \/ /\ job' = [job EXCEPT ![t].stage = "stat", ![t].clean = FALSE]
          /\ UNCHANGED reply
    /\ UNCHANGED <<storeVars, disk, removed, promised, mixed, begun>>

(* NewStorageInfo looks at the path again; if the file is gone it fails and *)
(* the info it has not filled in is inserted all the same.                  *)
LookAt(t, p) ==
    /\ job[t].stage = "stat"
    /\ IF disk[p] = 0
         THEN Store!Upload(t, NoUrl, Raw)
         ELSE Store!Upload(t, job[t].name, [path |-> p, size |-> FileSize(p)])
    /\ Goes(t, "insert")
    /\ UNCHANGED <<fileVars, reply, promised, mixed, begun>>

(* A bug: the file is always looked for in the low storage. *)
LookInLow(t) == LookAt(t, <<"low", job[t].name>>)

NewStorageInfo(t) == LookAt(t, Target(t))

(* Nothing is promised of a file whose record the file of the table is not  *)
(* known to hold any more.                                                  *)
KeepPromises ==
    promised' = [n \in Names |-> IF n \in DOMAIN kept' THEN promised[n] ELSE Nothing]

Insert(t) ==
    /\ Store!Insert(t)
    /\ KeepPromises
    /\ UNCHANGED <<fileVars, job, reply, mixed, begun>>

(* The upload has returned: what it promises is what DataManager.h has then *)
(* put in the file, see kept there.                                         *)
Uploaded(t) ==
    LET j == job[t] IN
    /\ j.stage = "insert" /\ Store!Idle(t)
    /\ Ends(t, Plain("ok"))
    /\ promised' = [promised EXCEPT ![j.name] =
                      IF j.clean /\ j.name \in DOMAIN kept /\ Text[j.content] = Size[j.content]
                      THEN [type |-> j.type, content |-> j.content] ELSE Nothing]
    /\ UNCHANGED <<storeVars, fileVars, mixed, begun>>

-----------------------------------------------------------------------------
(* Download *)

(* GetOneByURL keeps the lock, whether it finds the url or not.  Of an url  *)
(* that is not in the table the handler goes on with an info nobody filled  *)
(* in, up to the size of a directory, which is 0, and answers "not found".  *)
Find(t, n, GetOneByURL) ==
    LET info   == table[n]
        others == {s \in Threads : Uploading(s) /\ job[s].name = n}
        found  == [NoJob EXCEPT !.stage = "exists", !.name = n, !.info = info,
                                !.clean = others = {}]
    IN  /\ Idle(t)
        /\ GetOneByURL
        /\ IF n \in DOMAIN table
             THEN /\ job' = [s \in Threads |->
                               IF s = t THEN found
                               ELSE IF s \in others /\ Deep(found)
                                    THEN [job[s] EXCEPT !.clean = FALSE]
                                    ELSE job[s]]
                  /\ reply' = [reply EXCEPT ![t] = Plain("none")]
             ELSE Ends(t, Answer([NoJob EXCEPT !.name = n, !.clean = others = {}],
                                 "not found", <<>>, 0))
        /\ UNCHANGED <<fileVars, promised, mixed, begun>>

(* A bug, of one who means to mend the lock: GetOneByURL unlocks. *)
LookupUnlocks(t, n) == Find(t, n, Store!GetAll(t))

Lookup(t, n) == Find(t, n, Store!GetOneByURL(t))

Absent(t) ==
    /\ Ends(t, Answer(job[t], "not found", <<>>, 0))
    /\ UNCHANGED fileVars

(* The file is looked up, opened, and its size taken twice by its name, the *)
(* second time for the length of the buffer.                                *)
Exists(t) ==
    /\ job[t].stage = "exists"
    /\ IF disk[Target(t)] # 0 THEN Goes(t, "open") /\ UNCHANGED <<fileVars, reply>>
                              ELSE Absent(t)
    /\ UNCHANGED <<storeVars, promised, mixed, begun>>

Open(t) ==
    /\ job[t].stage = "open"
    /\ IF disk[Target(t)] # 0
         THEN /\ job' = [job EXCEPT ![t].stage = "size", ![t].inode = disk[Target(t)]]
              /\ UNCHANGED <<fileVars, reply>>
         ELSE Absent(t)
    /\ UNCHANGED <<storeVars, promised, mixed, begun>>

CheckSize(t) ==
    /\ job[t].stage = "size"
    /\ IF FileSize(Target(t)) # 0 THEN Goes(t, "buffer") /\ UNCHANGED <<fileVars, reply>>
                                  ELSE Absent(t)
    /\ UNCHANGED <<storeVars, promised, mixed, begun>>

Allocate(t) ==
    /\ job[t].stage = "buffer"
    /\ job' = [job EXCEPT ![t].stage = "read", ![t].size = FileSize(Target(t))]
    /\ UNCHANGED <<storeVars, fileVars, reply, promised, mixed, begun>>

(* The answer: the bytes sent, and the ETag with the size that the table    *)
(* has.  An unpacked copy is removed when the answer is on its way.         *)
Send(t, body, unpacked) ==
    LET j == job[t] IN
    /\ j.stage = "read"
    /\ reply' = [reply EXCEPT ![t] = Answer(j, "ok", body, j.info.size)]
    /\ IF unpacked THEN Goes(t, "remove") ELSE job' = [job EXCEPT ![t] = NoJob]
    /\ UNCHANGED <<storeVars, fileVars, promised, mixed, begun>>

(* What one read into the buffer returns. *)
Got(j) == LET d == data[j.inode]
          IN  SubSeq(d, 1, IF j.size < Len(d) THEN j.size ELSE Len(d))

(* Bugs: the file that was sent is removed whatever it was; the buffer is   *)
(* sent as long as it is, not as much of it as was read.                    *)
ReadRemoves(t) == Send(t, Got(job[t]), TRUE)
ReadPads(t) == LET j == job[t] IN
    Send(t, [i \in 1 .. j.size |-> IF i <= Len(Got(j)) THEN Got(j)[i] ELSE Garbage],
         j.info.path # Target(t))

Read(t) == Send(t, Got(job[t]), job[t].info.path # Target(t))

ReadFails(t) ==
    /\ Faults /\ job[t].stage \in {"open", "read"}
    /\ Ends(t, Plain("not found"))
    /\ UNCHANGED <<storeVars, fileVars, promised, mixed, begun>>

Remove(t) ==
    /\ job[t].stage = "remove"
    /\ disk' = [disk EXCEPT ![Target(t)] = 0]
    /\ removed' = (removed \/ disk[Target(t)] # 0)
    /\ job' = [job EXCEPT ![t] = NoJob]
    /\ UNCHANGED <<storeVars, data, reply, promised, mixed, begun>>

-----------------------------------------------------------------------------
(* ListShow: GetAll, then the page, or an error without its template. *)
ListShow(t) ==
    /\ Idle(t)
    /\ Store!GetAll(t)
    /\ \/ Ends(t, Plain("ok"))
       \/ Faults /\ Ends(t, Plain("error"))
    /\ UNCHANGED <<fileVars, promised, mixed, begun>>

(* The process starts, stops and starts again; the files stay. *)
Start ==
    /\ \/ \E u \in Names \cup {NoUrl} : Store!Load(u) \/ Store!LoadThrows(u)
       \/ Store!LoadDone
       \/ Store!Restart
    /\ KeepPromises
    /\ UNCHANGED <<fileVars, job, reply, mixed, begun>>

Crash ==
    /\ Store!Crash
    /\ KeepPromises
    /\ job' = [t \in Threads |-> NoJob]
    /\ reply' = [t \in Threads |-> Plain("none")]
    /\ UNCHANGED <<fileVars, mixed, begun>>

Upload(t) ==
    \/ Refuse(t)
    \/ \E n \in Names, type \in Types, c \in Contents : StartUpload(t, n, type, c)
    \/ Create(t) \/ CreateFails(t)
    \/ Write(t) \/ WriteFails(t)
    \/ NewStorageInfo(t)
    \/ Uploaded(t)

Download(t) ==
    \/ \E n \in Names : Lookup(t, n)
    \/ Exists(t) \/ Open(t) \/ CheckSize(t) \/ Allocate(t)
    \/ Read(t) \/ ReadFails(t)
    \/ Remove(t)

Next ==
    \/ \E t \in Threads : Upload(t) \/ Download(t) \/ ListShow(t)
    \/ \E t \in Threads \cup {Main} : Insert(t)
    \/ Start
    \/ Crash

Spec == Init /\ [][Next]_vars

-----------------------------------------------------------------------------
(* Properties *)

(* Every variable has its type; two paths never lead to one inode.          *)
TypeOK ==
    /\ disk \in [Paths -> 0 .. Len(data)]
    /\ \A p, q \in Paths : disk[p] = disk[q] => p = q \/ disk[p] = 0
    /\ \A i \in DOMAIN data : Len(data[i]) \in Sizes
    /\ job \in [Threads -> Job]
    /\ \A t \in Threads : job[t].inode \in 0 .. Len(data)
    /\ promised \in [Names -> [type : Types, content : Contents] \cup {Nothing}]
    /\ removed \in BOOLEAN /\ begun \in 0 .. MaxUploads

Serves(r) == /\ r.status = "ok"
             /\ r.body = Whole(r.due.content) /\ r.etag = Size[r.due.content]

(* Service.cpp:243 with 98-130: a download that overlaps no upload of its   *)
(* name answers with the whole of the last text uploaded under it to the    *)
(* low storage, and with that size in the ETag; it is never "not found".    *)
(* So it is after other uploads, failed ones and restarts, if the Insert of *)
(* that upload, or a later one, was alone and wrote the file of the table,  *)
(* and until a write of that file fails, InitLoad cannot open or read it,   *)
(* or the process dies while it is being rewritten: these lose records.  A  *)
(* download that cannot open or read the uploaded file itself is excepted.  *)
ServesLast ==
    \A t \in Threads : LET r == reply[t] IN
        r.due # Nothing /\ r.due.type = "low" => Serves(r)

(* README.md:4: files go up and come down with either type of storage.      *)
ServesBoth == \A t \in Threads : reply[t].due # Nothing => Serves(reply[t])

(* A download may race with an upload of the same file, which truncates and *)
(* rewrites it in place (Service.cpp:98 between 335 and 336): what it sends *)
(* may be cut short or newer than its ETag, but is never of two uploads --  *)
(* unless two uploads of the name overlapped.                               *)
OneContent ==
    \A t \in Threads : reply[t].name \notin mixed =>
        \E c \in Contents : LET b == reply[t].body IN
            Len(b) <= Size[c] /\ b = SubSeq(Written(c), 1, Len(b))

(* The table describes the disk: a file with a promise is on disk at the    *)
(* path the table has for its url, with its content and, of the low         *)
(* storage, with the size that the list page and the ETag give.             *)
TableMatchesDisk ==
    proc = "up" => \A n \in Names : LET due == promised[n] IN due # Nothing =>
        /\ n \in DOMAIN table /\ table[n].path = <<due.type, n>>
        /\ disk[table[n].path] # 0
        /\ data[disk[table[n].path]] = Bytes(due)
        /\ due.type = "low" => table[n].size = Size[due.content]

(* Service.cpp:130: a record without an url is in the table only when a     *)
(* download has removed the file between the write and the look at it, or   *)
(* when a failed write has torn the file that InitLoad then read.           *)
GhostOnlyAfterRemoval ==
    NoUrl \in DOMAIN table => removed \/ (StoreFaults /\ table[NoUrl] = Torn)

(* The unpacked copy has a path that all downloads of a file share, and the *)
(* first to end removes it (Service.cpp:370).  Two downloads never get that *)
(* far together: the lock that GetOneByURL forgets keeps the second out.    *)
DownloadsApart ==
    \A s, t \in Threads : Downloading(s) /\ Downloading(t) => s = t
=============================================================================
