------------------------------ MODULE LogFlush ------------------------------
(***************************************************************************)
(* The sinks of a logger (log/LogFlush.h) and AsyncLogger::RealFlush, which *)
(* hands a batch of bytes to each of them in turn: FileFlush appends to one *)
(* file, RollFileFlush starts a new file when the current one is full.      *)
(*                                                                          *)
(* A byte passes through three places: the stdio buffer of the process, the *)
(* kernel, the disk.  When the process dies the first is lost, when the     *)
(* machine does, the second too.  The n-th byte handed over is the number   *)
(* n, so that a lost, repeated or misplaced byte shows.                     *)
(***************************************************************************)
EXTENDS FiniteSets, Integers, Sequences, SequencesExt

CONSTANTS
    Settings,    \* what a behaviour may be about: records of
                 \*   sinks   AsyncLogger::flush_, in its order
                 \*   stamp   the digits CreateFilename makes of each second
                 \*   faults  which of "fopen", "write", "power" may fail
    MaxSize,     \* max_size_ of RollFileFlush
    FlushLogs,   \* values of g_conf_data->flush_log
    BatchSizes,  \* lengths of the batches; the worker also hands over none
    NoFile,      \* fs_ is NULL
    MaxBytes     \* bound of the model: bytes handed over in a behaviour

ASSUME FlushAssumption ==
    /\ \A c \in Settings :
          /\ c.sinks \in Seq({"FileFlush", "RollFileFlush"}) /\ c.sinks # <<>>
          /\ \A i, j \in 1 .. Len(c.sinks) : c.sinks[i] = c.sinks[j] => i = j
          /\ 1 \in DOMAIN c.stamp
    /\ MaxSize \in Nat \ {0} /\ FlushLogs \subseteq Nat /\ MaxBytes \in Nat
    /\ BatchSizes \subseteq Nat /\ \E n \in BatchSizes : \A m \in BatchSizes : m <= n

VARIABLES
    setting,      \* which of Settings the behaviour is about
    proc,         \* the process: "up", "exited" or "died"
    time,         \* the second it is
    flushLog,     \* flush_log; the configuration file is not edited
    batch,        \* the bytes RealFlush is handing to the sinks
    at,           \* the sink it has reached, 0 outside RealFlush
    stage,        \* where Flush of that sink is
    fs,           \* fs_ of each sink: the name of the file it has open
    pending,      \* the stdio buffer of fs_
    curSize, cnt, \* cur_size_ and cnt_ of RollFileFlush
    kernel,       \* the contents of each file, as a reader sees them
    synced,       \* how much of it is on the disk
    given,        \* history: bytes handed to RealFlush
    first,        \* history: the value of given when the process started
    acked,        \* history: the bytes of each sink whose Flush has returned
    lost          \* history: those that a failed write has dropped

env   == <<setting, time, flushLog>>
roll  == <<curSize, cnt>>
files == <<kernel, synced>>
hist  == <<given, first, acked, lost>>
vars  == <<proc, env, batch, at, stage, fs, pending, roll, files, hist>>

Sinks   == setting.sinks
Stamp   == setting.stamp
Faults  == setting.faults
SinkSet == ToSet(Sinks)

(* The name of FileFlush's file is fixed; RollFileFlush names a file after  *)
(* the second it opens it and a counter that each process restarts.         *)
LogName == <<"FileFlush", 0>>
CreateFilename == <<Stamp[time], cnt>>

Stamps == {Stamp[t] : t \in DOMAIN Stamp}
RollNames == Stamps \X (1 .. MaxBytes + 1)
NamesOf(s) == IF s = "FileFlush" THEN {LogName} ELSE RollNames
Names == {LogName} \cup RollNames

(* The bytes of a sink that its files hold, and those that a power failure  *)
(* leaves there.                                                            *)
Stored(s) == UNION {ToSet(kernel[f]) : f \in NamesOf(s)}
Durable(s) == UNION {ToSet(SubSeq(kernel[f], 1, synced[f])) : f \in NamesOf(s)}

(* The constructors: FileFlush opens its file, RollFileFlush waits for the  *)
(* first Flush.                                                             *)
Construct(opened) ==
    /\ proc' = "up"
    /\ batch' = <<>> /\ at' = 0 /\ stage' = "init"
    /\ fs' = [s \in SinkSet |-> IF s = "FileFlush" THEN opened ELSE NoFile]
    /\ pending' = [s \in SinkSet |-> <<>>]
    /\ curSize' = 0 /\ cnt' = 1

Init ==
    /\ setting \in Settings
    /\ proc = "up" /\ time = 1 /\ flushLog \in FlushLogs
    /\ batch = <<>> /\ at = 0 /\ stage = "init"
    /\ fs = [s \in SinkSet |-> IF s = "FileFlush" THEN LogName ELSE NoFile]
    /\ pending = [s \in SinkSet |-> <<>>]
    /\ curSize = 0 /\ cnt = 1
    /\ kernel = [f \in Names |-> <<>>]
    /\ synced = [f \in Names |-> 0]
    /\ given = 0 /\ first = 0
    /\ acked = [s \in SinkSet |-> {}] /\ lost = [s \in SinkSet |-> {}]

-----------------------------------------------------------------------------
(* RealFlush: the worker hands over a batch, possibly an empty one. *)

RealFlush(n) ==
    /\ proc = "up" /\ at = 0
    /\ given + n <= MaxBytes
    /\ batch' = [i \in 1 .. n |-> given + i]
    /\ given' = given + n
    /\ at' = 1
    /\ UNCHANGED <<proc, env, stage, fs, pending, roll, files, first, acked, lost>>

(* RealFlush is in Flush of sink s, at a stage of it. *)
In(s, g) == proc = "up" /\ at # 0 /\ Sinks[at] = s /\ stage = g

GoTo(g) == stage' = g /\ UNCHANGED <<batch, at, acked>>

(* Flush of sink s returns and RealFlush goes on to the next one. *)
Return(s) ==
    /\ acked' = [acked EXCEPT ![s] = @ \cup ToSet(batch)]
    /\ stage' = "init"
    /\ at' = IF at = Len(Sinks) THEN 0 ELSE at + 1
    /\ batch' = IF at = Len(Sinks) THEN <<>> ELSE batch

(* Bytes go from stdio to the end of the file that sink s has open. *)
ToFile(s, bytes) == kernel' = [kernel EXCEPT ![fs[s]] = @ \o bytes]

(* A write gets no further than the k-th byte and stdio drops the others.   *)
Drop(s, bytes, k) ==
    lost' = [lost EXCEPT ![s] = @ \cup ToSet(SubSeq(bytes, k + 1, Len(bytes)))]

-----------------------------------------------------------------------------
(* InitLogFile *)

(* A bug: the file rolls one write late. *)
RollsLate(s) == s = "RollFileFlush" /\ (fs[s] = NoFile \/ curSize > MaxSize)

NeedsRoll(s) == s = "RollFileFlush" /\ (fs[s] = NoFile \/ curSize >= MaxSize)

KeepFile(s) ==
    /\ In(s, "init")
    /\ ~NeedsRoll(s)
    /\ GoTo("fwrite")
    /\ UNCHANGED <<proc, env, fs, pending, roll, files, given, first, lost>>

(* Bugs: the old file is dropped without fclose; cur_size_ is not reset;    *)
(* what fclose wrote is written again.                                      *)
RollNoClose(s) ==
    /\ In(s, "init") /\ NeedsRoll(s)
    /\ pending' = [pending EXCEPT ![s] = <<>>]
    /\ fs' = [fs EXCEPT ![s] = CreateFilename]
    /\ cnt' = cnt + 1 /\ curSize' = 0
    /\ GoTo("fwrite")
    /\ UNCHANGED <<proc, env, files, given, first, lost>>
RollNoReset(s) ==
    /\ In(s, "init") /\ NeedsRoll(s)
    /\ IF fs[s] = NoFile THEN UNCHANGED kernel ELSE ToFile(s, pending[s])
    /\ pending' = [pending EXCEPT ![s] = <<>>]
    /\ fs' = [fs EXCEPT ![s] = CreateFilename]
    /\ cnt' = cnt + 1
    /\ GoTo("fwrite")
    /\ UNCHANGED <<proc, env, curSize, synced, given, first, lost>>

RollKeepsBuffer(s) ==
    /\ In(s, "init") /\ NeedsRoll(s)
    /\ IF fs[s] = NoFile THEN UNCHANGED kernel ELSE ToFile(s, pending[s])
    /\ fs' = [fs EXCEPT ![s] = CreateFilename]
    /\ cnt' = cnt + 1 /\ curSize' = 0
    /\ GoTo("fwrite")
    /\ UNCHANGED <<proc, env, pending, synced, given, first, lost>>

(* fclose of the full file, which writes what stdio still holds, or a part; *)
(* fopen of a new name, for appending: a file of that name is continued.    *)
(* cur_size_ starts at 0 even then, and cnt_ moves on even if fopen fails.  *)
RollFile(s) ==
    /\ In(s, "init") /\ NeedsRoll(s)
    /\ \E k \in 0 .. Len(pending[s]) :
         /\ k = Len(pending[s]) \/ "write" \in Faults
         /\ IF fs[s] = NoFile THEN UNCHANGED kernel
            ELSE ToFile(s, SubSeq(pending[s], 1, k))
         /\ Drop(s, pending[s], k)
    /\ pending' = [pending EXCEPT ![s] = <<>>]
    /\ \/ fs' = [fs EXCEPT ![s] = CreateFilename]
       \/ "fopen" \in Faults /\ fs' = [fs EXCEPT ![s] = NoFile]
    /\ cnt' = cnt + 1 /\ curSize' = 0
    /\ GoTo("fwrite")
    /\ UNCHANGED <<proc, env, synced, given, first>>

-----------------------------------------------------------------------------
(* Flush *)

(* fwrite stores the batch in the buffer; stdio writes as much of the       *)
(* buffer as it likes to the kernel.                                        *)
Fwrite(s) ==
    /\ In(s, "fwrite") /\ fs[s] # NoFile
    /\ LET all == pending[s] \o batch
       IN \E k \in 0 .. Len(all) :
            /\ ToFile(s, SubSeq(all, 1, k))
            /\ pending' = [pending EXCEPT ![s] = SubSeq(all, k + 1, Len(all))]
    /\ curSize' = IF s = "RollFileFlush" THEN curSize + Len(batch) ELSE curSize
    /\ IF flushLog \in {1, 2} THEN GoTo("fflush") ELSE Return(s)
    /\ UNCHANGED <<proc, env, fs, cnt, synced, given, first, lost>>

(* fwrite to a NULL stream, after a message about the failed fopen. *)
FwriteNull(s) ==
    /\ In(s, "fwrite") /\ fs[s] = NoFile
    /\ proc' = "died"
    /\ UNCHANGED <<env, batch, at, stage, fs, pending, roll, files, hist>>

(* Bugs: the buffer is not emptied; fsync is forgotten; fflush is.          *)
FflushKeeps(s) ==
    /\ In(s, "fflush")
    /\ ToFile(s, pending[s])
    /\ IF flushLog = 2 THEN GoTo("fsync") ELSE Return(s)
    /\ UNCHANGED <<proc, env, fs, pending, roll, synced, given, first, lost>>
FflushNoSync(s) ==
    /\ In(s, "fflush")
    /\ ToFile(s, pending[s])
    /\ pending' = [pending EXCEPT ![s] = <<>>]
    /\ Return(s)
    /\ UNCHANGED <<proc, env, fs, roll, synced, given, first, lost>>
FflushNothing(s) ==
    /\ In(s, "fflush")
    /\ IF flushLog = 2 THEN GoTo("fsync") ELSE Return(s)
    /\ UNCHANGED <<proc, env, fs, pending, roll, files, given, first, lost>>

Fflush(s) ==
    /\ In(s, "fflush")
    /\ ToFile(s, pending[s])
    /\ pending' = [pending EXCEPT ![s] = <<>>]
    /\ IF flushLog = 2 THEN GoTo("fsync") ELSE Return(s)
    /\ UNCHANGED <<proc, env, fs, roll, synced, given, first, lost>>

Fsync(s) ==
    /\ In(s, "fsync")
    /\ synced' = [synced EXCEPT ![fs[s]] = Len(kernel[fs[s]])]
    /\ Return(s)
    /\ UNCHANGED <<proc, env, fs, pending, roll, kernel, given, first, lost>>

(* The write of fwrite or fflush fails, the disk being full: a part goes    *)
(* out, stdio drops the rest, Flush prints a message and goes on.           *)
WriteFails(s) ==
    /\ "write" \in Faults
    /\ In(s, "fwrite") \/ In(s, "fflush")
    /\ fs[s] # NoFile
    /\ LET all == IF stage = "fwrite" THEN pending[s] \o batch ELSE pending[s]
       IN \E k \in 0 .. Len(all) - 1 :
            ToFile(s, SubSeq(all, 1, k)) /\ Drop(s, all, k)
    /\ pending' = [pending EXCEPT ![s] = <<>>]
    /\ curSize' = IF s = "RollFileFlush" /\ stage = "fwrite"
                  THEN curSize + Len(batch) ELSE curSize
    /\ IF stage = "fwrite" /\ flushLog \in {1, 2} THEN GoTo("fflush")
       ELSE IF stage = "fflush" /\ flushLog = 2 THEN GoTo("fsync")
       ELSE Return(s)
    /\ UNCHANGED <<proc, env, fs, cnt, synced, given, first>>

Flush(s) ==
    \/ KeepFile(s) \/ RollFile(s)
    \/ Fwrite(s) \/ FwriteNull(s)
    \/ Fflush(s) \/ Fsync(s)
    \/ WriteFails(s)

-----------------------------------------------------------------------------
(* The process and the machine *)

Tick ==
    /\ time + 1 \in DOMAIN Stamp
    /\ time' = time + 1
    /\ UNCHANGED <<setting, proc, flushLog, batch, at, stage, fs, pending, roll, files, hist>>

(* The process ends normally after the worker has been joined: no sink has  *)
(* a destructor that closes its file, exit() writes out the stdio buffers.  *)
Exit ==
    /\ proc = "up" /\ at = 0
    /\ proc' = "exited"
    /\ kernel' = [f \in Names |->
         IF \E s \in SinkSet : fs[s] = f
         THEN kernel[f] \o pending[CHOOSE s \in SinkSet : fs[s] = f]
         ELSE kernel[f]]
    /\ pending' = [s \in SinkSet |-> <<>>]
    /\ UNCHANGED <<env, batch, at, stage, fs, roll, synced, hist>>

Crash ==
    /\ proc = "up"
    /\ proc' = "died"
    /\ UNCHANGED <<env, batch, at, stage, fs, pending, roll, files, hist>>

(* The machine loses power: what was not synced of some files is gone. *)
PowerFails ==
    /\ "power" \in Faults
    /\ proc' = "died"
    /\ \E torn \in SUBSET {f \in Names : synced[f] < Len(kernel[f])} :
         kernel' = [f \in Names |-> IF f \in torn THEN SubSeq(kernel[f], 1, synced[f])
                                                 ELSE kernel[f]]
    /\ synced' = [f \in Names |-> Len(kernel'[f])]
    /\ UNCHANGED <<env, batch, at, stage, fs, pending, roll, hist>>

Restart ==
    /\ proc # "up"
    /\ \/ Construct(LogName)
       \/ "fopen" \in Faults /\ Construct(NoFile)
    /\ first' = given
    /\ UNCHANGED <<env, files, given, acked, lost>>

Next ==
    \/ \E n \in BatchSizes : RealFlush(n)
    \/ \E s \in SinkSet : Flush(s)
    \/ Tick
    \/ Exit
    \/ Crash
    \/ PowerFails
    \/ Restart

Spec == Init /\ [][Next]_vars

-----------------------------------------------------------------------------
(* Properties *)

MaxBatch == CHOOSE n \in BatchSizes : \A m \in BatchSizes : m <= n

(* Every variable has its type; cur_size_ stays below the size that makes   *)
(* the file roll plus one batch.                                            *)
TypeOK ==
    /\ proc \in {"up", "exited", "died"}
    /\ time \in DOMAIN Stamp
    /\ batch \in Seq(1 .. MaxBytes)
    /\ at \in 0 .. Len(Sinks)
    /\ stage \in {"init", "fwrite", "fflush", "fsync"}
    /\ fs \in [SinkSet -> Names \cup {NoFile}]
    /\ pending \in [SinkSet -> Seq(1 .. MaxBytes)]
    /\ curSize \in 0 .. MaxSize + MaxBatch - 1
    /\ cnt \in Nat \ {0}
    /\ kernel \in [Names -> Seq(1 .. MaxBytes)]
    /\ synced \in [Names -> 0 .. MaxBytes]
    /\ \A f \in Names : synced[f] <= Len(kernel[f])
    /\ given \in 0 .. MaxBytes /\ first \in 0 .. given
    /\ acked \in [SinkSet -> SUBSET (1 .. given)]
    /\ lost \in [SinkSet -> SUBSET (1 .. given)]
    /\ flushLog \in FlushLogs

(* While the process runs, a byte whose Flush has returned is in a file or  *)
(* in a stdio buffer; once it has exited normally, in a file: rolling and   *)
(* exit() lose nothing, whatever flush_log is.  Only a write that fails can *)
(* drop a byte.                                                             *)
Kept ==
    \A s \in SinkSet : \A b \in acked[s] \ lost[s] : b > first =>
        /\ proc = "up" => b \in Stored(s) \cup ToSet(pending[s])
        /\ proc = "exited" => b \in Stored(s)

(* log/Util.h:160, flush_log: with 1 (fflush) a byte whose Flush has        *)
(* returned survives the death of the process; with 2 (fsync) it survives a *)
(* power failure too, also if the file has been rolled since.  Only the     *)
(* bytes of a write that failed are excepted.                               *)
FlushPromise ==
    \A s \in SinkSet :
        /\ flushLog = 1 /\ "power" \notin Faults =>
               acked[s] \ lost[s] \subseteq Stored(s)
        /\ flushLog = 2 => acked[s] \ lost[s] \subseteq Durable(s)

(* The files of a sink hold the bytes in the order they were logged: no     *)
(* byte twice, none after a later one, whether the process rolls, fails to  *)
(* write, dies or starts again.                                             *)
Ordered ==
    \A s \in SinkSet : \A f, g \in NamesOf(s) :
        \A i \in 1 .. Len(kernel[f]), j \in 1 .. Len(kernel[g]) :
            /\ kernel[f][i] = kernel[g][j] => f = g /\ i = j
            /\ f = g /\ i < j => kernel[f][i] < kernel[g][j]

(* What one process adds to a file of RollFileFlush exceeds max_size_ by    *)
(* less than the batch that fills it.                                       *)
RollBound ==
    \A f \in RollNames :
        Cardinality({i \in 1 .. Len(kernel[f]) : kernel[f][i] > first}) < MaxSize + MaxBatch
=============================================================================
