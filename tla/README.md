# AsyncLogSystem in TLA+

AsyncLogSystem is a C++ program in two parts: an asynchronous logging library
(`log/`) and an HTTP file server on Boost.Beast (`src/`) that uses it. This
directory models the parts of it that hold state, run concurrently or must
survive a failure, and its codecs. Every definition is translated from the code;
the comments in the modules name the function, and `PROJECT.json` gives the
lines. Paths below are relative to the repository (`log/...`, `src/...`).

## The system

    main -> t1, p0 (io_context) -> accept loop                 signal -> stop
      HttpConnection -> LogicSystem -> Service           any thread that logs
        | codecs          |              |                  |  AsyncLogger::Debug...
        v                 v              v                  v
    TCP connection   DataManager     files of both      AsyncWorker::Push --mutex_-- AsyncWorker::ThreadEntry
                     (table_)        storages           buffer_productor_  swap  buffer_consumer_
                     + JSON file                                                     |  callback_ = RealFlush
                                                                              FileFlush, RollFileFlush

| Component | State | Operations | What is hard |
|---|---|---|---|
| Log buffer (`log/AsyncBuffer.h`) | a `circular_buffer<char>`, `write_pos_`, `read_pos_` (always 0) | `Push`, `ToBeEnough`, `Swap`, `Reset`, `Begin`/`ReadableSize` | growth at the boundary, the capacity through an `int`, a ring read as if it were flat memory |
| Log worker (`log/AsyncWorker.h`) | two buffers, `mutex_`, two condition variables, `stop_`, the thread | constructor, `Push`, `ThreadEntry`, `stop` | many producers and one worker, stop at any moment, wakeups, start before construction |
| Logger front end (`log/AsyncLogger.h`) | name, level, sinks, worker | `Debug` ... `Fatal`, `serialize`, `RealFlush`, builders | the callback runs with the mutex held |
| Log sinks (`log/LogFlush.h`) | `fs_`, `cur_size_`, `cnt_`; stdio, kernel, disk | `Flush`, `InitLogFile`, `CreateFilename` | which bytes survive exit, crash, power failure, a failed write; rolling |
| Logger registry (`log/Manager.h`) | `loggers_` | `AddLogger`, `GetLogger` | a null pointer for a name that is not there yet, or no longer |
| Metadata store (`src/include/DataManager.h`) | `table_`, `rwlock_`, the JSON file | `Insert`, `Storage`, `GetAll`, `GetOneByURL`, `InitLoad` | copy under the lock, write without it; crash inside a rewrite; a lock that is kept |
| HTTP connection (`src/HttpConnection.cpp`) | socket, `_buffer`, `_request`, `_response` | `Start`, `HandleReq`, `WriteResponse` | completions on two threads, number of posted operations, state that outlives a request, exceptions |
| Routing (`src/LogicSystem.cpp`) | two constant maps | `HandleGet`, `HandlePost` | none of its own |
| File service (`src/Service.cpp`) | files in two directories | `Upload`, `ListShow`, `Download` | a shared unpacked copy, files rewritten while they are read, a record made by a second look at the path |
| Codecs (`src/base64.cpp`, `src/HttpConnection.cpp`, `src/include/Util.h`) | none | Base64, percent encodings, query parser | last chunks, padding, a `%` near the end, repeated keys |
| FastDFS client and its mock (`src/FastDFSClient.cpp`, `src/include/MockFastDFSClient.h`) | `initialized_`, `last_error_`; the library's own state | wrappers of the C library | state of the object against state of the process; a stand-in that must agree |
| Acceptor, I/O pool, main (`src/CServer.cpp`, `src/AsioIOServicePool.cpp`, `src/test.cpp`) | io_contexts, threads, signal set, statics | start, accept loop, `Stop`, destructors | order of start and shutdown, threads that nobody joins |
| Configuration and utilities (`log/Util.h`, `src/include/Config.h`, `src/include/Util.h`) | two singletons | files, JSON, packing | ignored errors, values that stay uninitialised |

What makes each correct:

- *Buffer and worker*: every byte pushed reaches the callback, once, in order and
  unchanged; destroying the logger drains it and returns.
- *Sinks*: what `flush_log` promises about a byte holds across death of the
  process and of the machine; files are in order and of bounded size.
- *Store*: what the file is known to hold is in the table of every later process,
  the file holds the table when an `Insert` was alone; no caller blocks for ever.
- *Connection*: as many operations as the handlers' own responses account for, the
  responses in turn up to the first of these, every request answered, the connection
  released at the end.
- *File service*: a download returns the last upload of its name, or at worst a
  part of one upload; the table describes the disk.
- *Codecs*: each decoder undoes its encoder; a link leads to its file.
- *FastDFS*: nothing works before `initialize`, a failure leaves its reason, and the
  mock behaves like the client.
- *Program*: no handler uses what does not exist yet, accepting never stops, a
  signal ends the process, and the worker has written out the log before that.

## Modules

| Module | Models |
|---|---|
| `AsyncBuffer` | `mylog::Buffer` as a record and operators on it: capacity, index of the oldest byte in the storage, contents, `write_pos_` |
| `AsyncWorker` | `mylog::AsyncWorker`: any number of producers, the worker thread, constructor and `stop()`; EXTENDS `AsyncBuffer` |
| `LogSink` | abstract specification: an append-only log with a sink, refined by `AsyncWorker` (`SinkSpec`) |
| `LogFlush` | `RealFlush`, `FileFlush`, `RollFileFlush` over stdio, kernel and disk |
| `DataManager` | `storage::DataManager`, the index file, load at start, handler threads |
| `FileService` | the handlers of `storage::Service` and the files on disk, composed with `DataManager` (`Store`) |
| `HttpConnection` | one connection with its client, the routes and what handlers do to the response |
| `Base64`, `UrlCodec` | the codecs as functions on sequences of bytes |
| `Codecs` | every short string, and what the codecs should make of it |
| `ClientApi` | abstract specification: what a FastDFS client object promises |
| `FastDFSClient` | the wrapper, the library's state and the servers; refines `ClientApi` (`KeepsPromise`) |
| `MockFastDFSClient` | the mock |
| `FastDFSSwap` | the same calls on client and mock: `FastDFSClient` and `MockFastDFSClient` composed |
| `Lifecycle` | `main`, `t1`, the I/O pool, the acceptor, the signal, the destructors of the statics |
| `MC...` | the instances for TLC and statements of comments, docs and page |
| `...Proofs` | the theorems |

### AsyncBuffer, AsyncWorker, LogSink

A byte is represented by its message (which byte of a message it is plays no
part). `prod` and `cons` are the two buffers, `sink` is what the callback has
written, `appended` is a history of everything `Push` stored. Work under
`mutex_` is one step between taking and giving up the lock, but the worker's
iteration is four steps (`WorkerLock`, `WorkerSwap`, `WorkerCallback`,
`WorkerLoop`), because `stop_` is written without the lock and may change at any
of them. `WorkerWaits` is the condition under which `cond_consumer_.wait` would
block: the code calls it only if `stop_` is set, in which case the predicate
holds at once, so the worker spins and never sleeps. The mutex is held from
the swap to the end of the iteration, so `buffer_productor_` is empty whenever
`WorkerLoop` tests it (`Stages` in `AsyncWorkerProofs`). Nothing notifies
`cond_productor_`: `SpuriousWakeup` is the only way out of `PushWait`.
`Contents` reads memory from `Begin()`, which is right only while the ring has
not gone round: bytes behind the end of the storage are `Garbage`.

The real constants are far apart: 10,000,000 bytes of initial buffer, tripled up
to a threshold of 10^10, then 10^7 more. `10,000,000 * 3^5` exceeds 2^31, so the
`int` in `ToBeEnough` matters; `IntMod` is its range, 2^32 in the build.

### LogFlush

The n-th byte handed to `RealFlush` is the number n. For each sink `pending` is
the stdio buffer; `kernel` and `synced` are per file. stdio may write any prefix
of its buffer at any `fwrite`. `RealFlush` is a sequence of steps through the
sinks (`at`) and, within a sink, through `InitLogFile`, `fwrite`, `fflush`,
`fsync` (`stage`); `Crash` and `PowerFails` may come between any two. `fclose`
and `exit()` write out what stdio holds. A behaviour is about one of `Settings`:
which sinks there are, which names `CreateFilename` makes, and which of `fopen`,
writes and the power may fail. `flushLog` is chosen at the start and kept.
Abstractions: a power failure drops the whole unsynced tail of some of the files
(not a part of it); the directory entry of a new file is as durable as its
first `fsync`; `fsync` itself and the writes of `exit()` do not fail; a failed
`fopen` of a sink that then writes ends the process, as glibc does with a NULL
stream. `StdoutFlush` is a single write to `std::cout` and is left out.

### DataManager

`Insert` is four steps: `InsertRecord` (under the lock), `StorageGetAll` (under the
lock), `OpenFile`, `WriteFile` (both without it). `writer` is the holder of `rwlock_`;
only write locks are ever taken. glibc answers `EDEADLK` to the thread that already
holds the lock and the code ignores the result, so `WrLock(t)` is enabled for the
holder: that is how the code behaves after `GetOneByURL`, which keeps the lock on both
of its paths. `InitLoad` is the steps `Load`, each an `Insert` by `Main` that rewrites
the file it loads from. `Unloadable` are records on whose numbers `asInt()` may throw,
those of an info `NewStorageInfo` left uninitialised: each load inserts them or ends
the process. A write that fails (`WriteFails`) leaves some of the records, and may
leave one of them torn: the parser has kept what it read of it, and the load inserts
it with an empty url, since `url_` is the last member written (`Torn`, `NoUrl`).
`GetContent` returns true when a read fails, so a `Restart` may read nothing.

Two histories serve the properties. `solo` says that no other `Insert` has
overlapped the thread's last one and that its write succeeded. `kept` is what the
file is known to hold: the whole table after a solo `Insert`. A url leaves it when
it is uploaded again, and all is forgotten when a write fails, when the process
dies while the file is being rewritten (`HalfWritten`), or when `InitLoad` cannot
open or read the file. The number of uploads is cut by `MaxUploads`.

### FileService

`Store` is an instance of `DataManager` over the same variables: the service's
`Insert`, `GetOneByURL`, `GetAll`, load and crash are its actions, so the kept
lock, the file of the table and restarts are part of this model. Each request is
a `job` of one thread that goes through stages, one for each access to the file
system: an upload creates (and truncates) the file, writes it, looks at the path
again for the record, and inserts; a download looks the url up, tests that the
file is there, opens it, takes its size twice, reads, and removes the unpacked
copy if it believes there is one. `disk` leads from a path to an inode and `data`
from an inode to bytes, so a thread that has a file open keeps it when another
one removes the path. A content is a sequence of marked bytes: `Written` is what
`SetContent(content.c_str(), len)` leaves of it (nothing past the first zero byte
but `Garbage`), `Packed` what `Compress` packs of it.

`promised` is a history: the upload that a download of the name has to return. An
upload makes a promise if it overlapped no other of its name and no download of a
deep file of it, if the file of the table is known to hold its record when it
returns (`kept` of the store), and if its text has no zero byte. The promise lasts as
long as `kept` has the record (`KeepPromises`), and starting an upload of the name
withdraws it, because the code truncates the old version before it has the new one,
so that a failed upload destroys both. Every download that overlaps no upload of
its name is due what is promised, one whose url is not in the table and that ends in
"not found" included.

Assumptions: contents are not themselves paths of stored files (`UnCompress`
writes to a file named by its contents); names contain neither `/` nor
`low_storage`; one `read` and one `write` is atomic; the two calls that
`NewStorageInfo` makes on a path are one step. An unknown url ends in "not found"
through a record with uninitialised numbers and an empty path.

### HttpConnection

`reads` and `writes` are the posted operations, `handling` the completed reads
whose `HandleReq` has not run. A request travels as two fragments, its head and
the rest, so that a read can be in the middle of one. `Handlers` says which
status a handler sets and whether it calls `WriteResponse` itself; `HandleReq`
sets the status afterwards and writes again; `own` counts the responses that
handlers wrote themselves (`WritesItself`). A handler may throw (`HandleThrow`:
a Filename header that is not base64): the completion catches it, and nothing is
written or read on the connection any more. `body` is the list of requests that
appended to `_response.body()`. With two reads posted on one socket the code is
outside what Asio defines; the model serves them first come first served. The
number of responses kept (`got`) and of the parts of a body is cut at
`MaxReplies`. Assumption: the buffer holds whole lines, so that dropping
`_buffer` breaks a request exactly when a read is in the middle of its head.

### Base64, UrlCodec, Codecs

Strings are sequences of bytes 0 to 255; shifts and masks are `\div` and `%`. `Throws`
and `Aborts` are the outcomes of calls that throw or meet an `assert`. `Codecs` grows
one string byte by byte, so that TLC visits every string up to `MaxLen` over
`Alphabet`; its reference definitions are written from the bits and the table of the
RFC (`Rfc`, `Alphabet64`), from what a browser sends (`BrowserTarget`) and from the
set of pairs of a query (`LastPairs`), not from the loops and tables of the code. That
the url alphabet is padded with `.` is the code's own choice (`src/base64.cpp:115`).
The page puts a link unescaped into `onclick="window.location='...'"`
(`src/Service.cpp:168`), so quotes, slashes of either kind, `&`, `%`, `#`, control
characters, a last space, the names `.` and `..` and bytes that are not UTF-8 change
what the browser asks for: `Linkable` names are those without, and `LinkFindsFile`
speaks of them only. `PreParseGetParam` is modelled for one call with an empty
`_get_params`; the code never clears it, so that a later request on the connection
also sees the keys of earlier ones (no handler reads them).

### ClientApi, FastDFSClient, MockFastDFSClient, FastDFSSwap

`on` is `initialized_` of each object, `library` the state of the C library, which
belongs to the process: destroying one object shuts it down for all. The server's
answers are the alternatives of `Upload`, `Delete` and `Read`; `Faults` lets it
refuse. `ClientApi` keeps only what the caller of one object sees; a new object takes
the place of one that is off. `initialize` fails without the configuration file and
may fail with it, for what it says; the mock only tries to open it; the file comes and
goes (`Reconfigure`). `FastDFSSwap` makes each call on both. `fair` is a history: the
last call was one on a file the program had uploaded and not deleted, of a client that
was on, and the server did not refuse it; only of such calls does `MockAgrees` say
that what works with the mock works with the client. The mock's interface is not the
client's, as its comment (`src/include/MockFastDFSClient.h:12`) says it is: it has no
`fileExists`, it has `getFileSize` for `getFileInfo`, and its `uploadFile` takes one
parameter fewer; the composition translates the names. `fileExists` of the client is
false on any error.

### Lifecycle

`main` walks through the places of `src/test.cpp`; the failures of each (client,
configuration, table, port) are alternatives of its step. `t1` and `p0` are the
two threads that run the first `io_context`; the others of the pool never get
work because `GetIOService` is called once. A handler on a thread is `accept` or
`request`; within a request it may call the logger: it waits for the mutex (`push`),
waits for room (`parked`), or has pushed (`log`); it may also be `blocked`, by a lock
that another thread keeps (see `DataManager`; `MayBlock`). The worker of
"asynclogger" takes its own steps, `Swap` and `Written`, with a flag each for its
producer and consumer buffer (`ring`, `batch`); the buffer's contents are
`AsyncWorker`'s. The registry's and the configuration's destructors are one step,
after `main` has joined `t1`, while `p0` may still be in a handler: a request that
`p0` then handles finds no logger (`exit = "crash"`). The logger goes with its last
pointer, which may be `p0`'s: whoever holds it sets `stop_` and waits in `drain` for
the worker to end (`JoinWorker`, `LoggerDestroyed`). `AddLogger`'s test and insertion
are one step, because `main` alone calls it. The end is always `~AsioIOServicePool`
destroying joinable threads, which terminates the process.

## Runs

Each run finishes within five minutes on two cores, most within one.

| Run | Question | Instance |
|---|---|---|
| `worker_unsafe` | Does the growing buffer deliver every byte once and in order, drain at `stop()`, implement `LogSink`, and do the first bytes arrive verbatim? | 2 producers; messages of 1 and of `BufferSize` = 3 bytes; up to 10 bytes, so that the ring triples, grows linearly and goes round |
| `worker_safe` | Is no byte lost when producers park for room, is all written, does `stop()` return? | as above, `ASYNC_SAFE` |
| `flush_sinks` | Does each `flush_log` keep its promise, do rolling and exit lose nothing, are files in order? | both sinks without faults and with process deaths; the server's sink with failing `fopen` and writes, power failures and colliding names; levels 0, 1, 2; 4 bytes in batches of 0 to 2, files of 2 |
| `store_restart` | Does the file hold the table whenever nothing runs and the last `Insert` was alone, and does every restart keep what the file is known to hold? | 2 threads with every request, 2 urls and the empty one, 4 infos, 4 uploads, failing reads and writes, torn and unloadable records, crashes anywhere |
| `store_faults` | Does an undisturbed `Insert` repair the file, does every call return? | 2 threads, faults, crashes anywhere, an unloadable record |
| `files` | Is what a download sends the last upload, and never of two uploads, and never "not found"; does the table describe the disk; what keeps two downloads apart, where do empty records come from? | 2 threads, 2 names, both storages, 3 contents (1 byte, 2 bytes, a leading zero byte), 2 uploads, any number of downloads and lists, failing operations on files and on the file of the table, crashes anywhere |
| `http` | How many operations has a connection, which response answers which request; is everything answered and released? | all 13 kinds of requests, those whose handlers write or throw included, 2 on the connection |
| `codecs` | Are the codecs what they should be? | every string of up to 4 of 10 bytes (space, `%`, `&`, `'`, `+`, `=`, `?`, a letter and the two bytes of a character of UTF-8) |
| `fastdfs` | Do client and mock keep the promise, and does the mock agree? | 2 objects, one alive at a time, 1 uploaded file, every kind of file id, a server that refuses, a configuration that comes, goes and is rejected |
| `lifecycle` | Is the logger there when it is used, does accepting go on, has the worker written the log, does a signal end the program? | 2 connections, handlers that may block or park |
| `worker_wrap` | violated: the sink gets the bytes that were logged (`WrittenAsLogged`) | `worker_safe` |
| `store_leak` | violated: every call returns (`EveryCallReturns`) | 2 threads, one downloads |

Why the bounds suffice. The ring's interesting points are a message that exactly
fits, one that does not, growth in both regimes, and an index that wraps; with
`BufferSize` 3, `Threshold` 4 and messages of 1 and 3 bytes all are reached
within 10 bytes, and the theorems cover every other size. A sink rolls three
times with 4 bytes and files of 2. Two urls and four uploads give an
overwritten, a new, a torn and a lost record, two threads every order of copy and
write. Two uploads and any number of downloads on two threads meet in every
order; a file of two bytes can be cut, empty, or replaced by one of another
length. Two requests on a connection are enough for one to meet what the one
before it left behind. Strings of four bytes have every position of a last
chunk, a `%` at each distance from the end, and two pairs with equal keys
(`ParamsAreLastPairs` doubles the string); `Copies` makes them long enough for
line breaks. Two connections let both threads be busy at once. The lengths of
behaviours are cut by `MaxBytes`, `MaxUploads`, `MaxRequests`, `MaxReplies`,
`MaxFiles`, `MaxAlive`, `MaxLen` and `MaxConnections`. `files` uses the symmetry
of threads and of names and checks invariants only.

`CHECK_DEADLOCK FALSE` is used where the system really stops: in `files`
uploads are bounded, and a thread parks for ever on the lock that a download
of another one keeps, so both may be parked; in `codecs` a string ends at `MaxLen`;
in `lifecycle` the program ends; in `store_leak` the server stops for ever, which
is what the run shows.

### Fairness

- `AsyncWorker`: the constructor, the worker and the producers inside `Push` are
  weakly fair: threads that can run do run. Taking the mutex is strongly fair
  for the worker: otherwise spurious wakeups of parked producers, which the
  standard allows without limit, could keep it out for ever. No fairness for
  starting a `Push`, for `stop()`, nor for spurious wakeups.
- `DataManager`: a thread inside `Insert` goes on when the lock lets it; `InitLoad`
  goes on; a dead server is started again. Nobody has to send requests.
- `HttpConnection`: the `io_context` runs what is ready (weak); a write to a peer
  that has closed fails in the end (strong), because TCP answers it with a reset.
- `Lifecycle`: `main`, the service thread and each thread of the `io_context` go on
  (weak). The signal's handler is strongly fair, because the queue of an
  `io_context` is first in, first out: however many requests come, it gets its
  turn. The end of a request is strongly fair, because no handler loops, and so is
  taking the logger's mutex; whether a handler blocks instead, by a lock or for room
  in the buffer, is left open, and `EndsOnSignal` excepts it. The worker is weakly
  fair. No fairness for clients, signals and spurious wakeups.
- `LogFlush`, `FileService`, `Codecs` and `FastDFSSwap` have safety properties only
  and no fairness.

### Statements the code does not keep

Besides the two violation runs, TLC refutes these statements of comments, of the
documentation and of the page. To see one, make it the only property of the named
cfg (as a PROPERTY if it is marked †) and change the constants as given.

| Statement | Where the code says so, or relies on it | Instance | What happens |
|---|---|---|---|
| `CapacityEnough` | `log/AsyncBuffer.h:21` | `worker_wrap.cfg`, `AsyncType = "ASYNC_UNSAFE"`, `Size <- OneAndHuge` | one growth step is not enough for a long message: the oldest bytes are overwritten |
| `CapacityEnough` | same | `worker_wrap.cfg`, `IntMod = 8` | the capacity exceeds `int` and the requested one is smaller |
| `UnlockedAfterSwap` | `log/AsyncWorker.h:60` | `worker_wrap.cfg` | the callback writes and syncs with `mutex_` held |
| `FixedSize` | `log/AsyncWorker.h:60`, `log/AsyncLogger.h:203` | `worker_wrap.cfg` | an `ASYNC_SAFE` buffer grows when a message exactly fits |
| `ProducerGoesOn` † | `log/AsyncWorker.h:51` | `worker_wrap.cfg` | a parked producer is never notified |
| `ConstructorReturns` † | `log/text.cpp:88` | `worker_wrap.cfg` | the thread starts before `callback_` exists |
| `SizeBound` | `log/LogFlush.h:74` | `flush_sinks.cfg` | a continued file starts at `cur_size_` 0 |
| `StartsUp` † | `src/include/DataManager.h:60` | `store_faults.cfg` | a record that `asInt()` rejects can end every later start |
| `AlwaysPersisted` | `src/include/DataManager.h:91` | `store_restart.cfg`, `Faults = FALSE`, `Operations = {"upload"}`, `CrashWhen = {}` | of two overlapping `Insert`s the older copy of the table is written last |
| `AlwaysPersisted` | same | `store_restart.cfg`, `Threads = {t1}`, `Operations = {"upload"}`, `CrashWhen = {}` | a write that fails is logged only |
| `DeathKeepsRecords` † | `README.md:95` | `store_restart.cfg`, `Faults = FALSE`, `Unloadable = {}`, `MaxUploads = 3`, `CrashWhen = {"serving"}` or `{"quiet", "loading"}` | an upload truncates the file with the records of all, and so does loading the file it loads from; with `CrashWhen = {"quiet"}` it holds |
| `DeathKeepsRecords` † | same | `store_restart.cfg`, `Faults = FALSE`, `MaxUploads = 3`, `CrashWhen = {"quiet"}` | `asInt()` throws on a record nobody filled in, when the load has rewritten the file with a part of the records |
| `ServesBoth` | `README.md:4` | `files.cfg`, `Faults = FALSE` | `UnCompress` writes to a file named by its contents: a file of the deep storage is never found again |
| `OneReplyEach` | `src/HttpConnection.cpp:222` | `http.cfg`, `Requests = {"list"}` | handler and `HandleReq` both write the response |
| `RequestIntact` | `src/HttpConnection.cpp:55` | `http.cfg`, `Requests = {"list", "upload"}` | a second write completion resets the next request |
| `FreshBody` | `src/HttpConnection.cpp:53` | `http.cfg`, `Requests = {"test", "unknown"}` | the response's body is never cleared |
| `FailureShown` | `src/index.html:625` | `http.cfg`, `Requests = {"badupload"}` | the error status is replaced by 200 |
| `BigUploadServed` | `src/index.html:476` | `http.cfg`, `Requests = {"bigupload"}` | Beast's limit of 1 MB; the error is ignored |
| `IdleCloses` † | `src/HttpConnection.cpp:29` | `http.cfg`, `Requests = {"options"}`, `MaxRequests = 1` | `CheckDeadline` has no caller |
| `EveryoneFindsLogger` | `log/Manager.h:35` | `lifecycle.cfg` | `main` destroys the registry while `p0` runs: a request that `p0` then handles calls a null pointer |
| `LibraryReady` | `src/FastDFSClient.cpp:31` | `fastdfs.cfg`, `MaxAlive = 2` | destroying one object shuts the library down for the other |

A clean exit (`src/test.cpp:90`, `return 0`) does not happen either: in `Lifecycle`
every behaviour that passes `main` ends in that crash or in `terminate`, at the latest
in the destructor of the pool, whose threads nobody has joined.

## Proofs

`tlapm` checks them from nothing; no step is taken on trust.

**Worker** (`AsyncWorkerProofs`). `TypeCorrect`, `Lossless`, `PrefixVerbatim`,
`JoinDrains` and `ImplementsLogSink` hold for every set of producers, messages and
sizes, under the hypothesis `Regime`: `2 * MaxBytes < IntMod`, so that no capacity
passes the range of `int` in the wrong way, and either `ASYNC_SAFE` or messages of
at most `2 * BufferSize` and at most `LinearGrowth` bytes, so that one growth step
makes room. Both are needed: without them `CapacityEnough` fails (see above). The
module begins with the lemmas about the ring: what `Push`, `Reset` and `Contents` do
to a buffer that fits. The inductive invariant `IInv` adds to the properties that a
ring counts exactly the bytes it holds (`wpos = Len(data)`), that the indices of the
two rings together do not exceed the bytes written so far (so that the first
`BufferSize` bytes never wrap), who holds the mutex at which point of the worker and
the producers, that `cons` is empty outside the callback, and that once `stop_` is
set no producer is inside `Push`; without the last one `JoinDrains` could not be
concluded from the worker's test.

**Sinks** (`LogFlushProofs`), for any settings, sizes, batches and faults, and any
number of deaths and restarts. All five properties of `flush_sinks` are theorems.
- `BytesKept` and `PromiseKept`. Neither is inductive, because both speak of a byte
  only after its `Flush` has returned. `FlushInv` adds what the stages before that
  have done for the batch (`Progress`: after `fwrite` its bytes are in stdio, in the
  kernel or dropped by a failed write, after `fflush` in the kernel or dropped), and
  that every file but the last is full (`Count`), so that a roll never runs out of
  names within the bound on bytes. `HoldsConcat` and `HoldsCut` say that stdio moves
  bytes and loses none.
- `BytesOrdered`. `OrderInv` says that the batch is the last of what was given, that
  the files of a sink and what stdio holds for it are sorted and share no byte
  (`Neat`), and that all of it is older than what the sink has yet to see: so
  whatever goes to a file, also to one that an earlier process has left under that
  name, goes behind what is there.
- `RollBounded`. `SizeInv` relates `cur_size_` to the bytes of this process in the
  file and in stdio together, which is where a failed write leaves `cur_size_` too
  large and never too small, and says that no file with a number the process has yet
  to use holds a byte of it.
- `SinksTypeCorrect` combines these: the type of `cur_size_` is its bound.

**Store** (`DataManagerProofs`). `StoreTypeCorrect`, and `SoloInsertPersists`: an
`Insert` that no other overlapped leaves the whole table in the file. The
invariant `SoloInv` says that a thread whose `Insert` is solo is the only one
inside `Insert`, and that its copy is the table once it has made it.
`TablePersisted`: from the same invariant, the file
holds the table whenever nothing runs and the last `Insert` was alone.
`UploadsSurvive`: what the file is known to hold is in the table of every process
that serves. None of the four has a hypothesis: they hold for any number of threads,
with overlapping `Insert`s, failing reads and writes, unloadable records and crashes
anywhere. The invariant of the last, `KeepInv`, follows the records in `kept`:
`TurnInv` says that `Main` inserts only while it loads and the others only while
requests are served; `ServingInv` that the table and all copies of it have these
records and, unless a thread has truncated it and has still to write, the file has;
`LoadingInv` that each of them is still to be inserted, in the argument of `Insert`
or in the table, and nothing else is for its url; `DownInv` that the file has them.
What `kept` leaves out is what the code does lose; the table above has the instances.

**Files** (`FileServiceProofs`), for any threads, names and contents, and any number
of uploads, failing file operations and restarts. The invariants are built in layers,
each from the one before.
- `DownloadsNeverMeet`: `ApartInv` says that a thread that is past the lookup of a
  download holds `rwlock_`, that a thread inside `Insert` is at that stage of its
  upload, and that only a process that serves has requests; so a second lookup cannot
  get past the lock.
- `GhostsNeedRemovals`: `GhostInv` adds that, until a download has removed a file, an
  upload that has created its file still finds it at its path (`FileThere`) and no
  record without a url but one that a failed write has torn is in the table, in an
  `Insert`, in a copy or in the file (`NoGhost`, `TornOnly`).
- `NeverMixed` needs no hypothesis. `TypesInv` has the types of jobs, records and
  files; `InodeInv` says that a job with a file open has the inode of its own path or
  one that no path leads to any more, so that jobs of different names never share an
  inode; `PartInv` that what an inode holds is a part of one upload as long as no two
  uploads of the name have overlapped, and that it is empty when an upload begins to
  write it.
- `ServiceUsesStore`: the service implements the specification of `DataManager`, so
  that `UploadsSurvive` holds of its table (`StoreKept`).
- `DownloadsServeLast` and `TableTrue` need no hypothesis either. `CleanInv` says what
  requests may overlap one that keeps or relies on a promise. `StoreInv` says that
  the record in `kept` of a name with a promise is the record of that upload
  (`AgreeStore`), and where the record of an upload that is in its `Insert` is
  (`UploadStore`); `DiskInv` that the disk has its bytes at its path. `StoreKept`
  carries the record over to the table, so the download finds it; `ServeInv` carries
  the size and the inode through the stages of a download to the answer.

**Connection** (`HttpConnectionProofs`), for any kinds of requests, those of handlers
that write the response themselves included, and any number of them.
`ConnectionTypeCorrect`; `OperationsAreCounted`: a connection has one operation and
one more for each response a handler wrote itself; `RepliesStayInTurn`: a client that
stays gets no more responses than it has sent requests and handlers have written
themselves, and up to and with the first of the latter each response answers its
request. `ReplyInv` says where the last request is (`Stage`: on the wire before or
after its head is read, in `_request`, or in the response being written, or gone with
an exception), that at most one is unanswered, and that the responses so far are
those of the first requests, until a handler has written itself (`Settled`). That
the responses behind it are in turn too is what `OneReplyEach` refutes, above.

**Codecs** (`CodecsProofs`), for strings of any length over all bytes. All five
properties of `codecs` are theorems. The loops of the code are functions defined by
recursion over a string. The library's induction theorems take an operator, which the
provers cannot instantiate, but a set will do: `SetInduction`, from `WFMin`, says that
a set of numbers with 0 and every successor is `Nat`. `JoinsExists`, `DecodesExists`
and `SetsExists` use it to show that the recursive functions of the model have a
value, for the three shapes of loop that the code has: pieces put one behind the
other, a decoder that goes on some bytes further on, and assignments to a map.
- `EncodesBase64`: `base64_encode` is the base64 of RFC 4648 in both alphabets, from
  the RFC's own table of characters (`CharIs`), the bits of a byte (`BitAt`), the six
  bits of each character (`SextetIs`) and the place of a character in its group
  (`Place`).
- `DecodingInverts`: `decode` takes what the encoders make of a string back to it.
  `ChunksInvert` is one round of its loop: the checks pass and the bytes of the group
  come out, also of the last, padded one. `GroupsDecode` joins the rounds of any string
  that has the groups of an encoding (`HasGroup`), with or without the last padding;
  `WithoutIs` says what `std::remove` leaves, of an encoding without its padding
  (`UnpaddedIs`) and of lines of 64 or 76 characters (`UnbrokenLines`).
- `UrlRoundTripHolds` and `LinksFindFiles`: `UrlDecode` undoes `UrlEncode`, and
  `storage::UrlDecode` what a browser makes of the link of a `Linkable` name.
  `BytesRoundTrip` is the step, for one byte; `JoinsPlaces` finds what became of each
  byte in the joined string, and the decoder, from the end of the string backwards,
  yields the suffix that is encoded there (`UrlDecodeReads`, `StorageDecodeReads`).
- `LastPairsStay`: after `PreParseGetParam` every key has the value of its last pair
  and no other key has one. `SetsLatest` is the invariant of the loop over the ends of
  the pairs; `PairsAreParts` and `PartsArePairs` identify the parts that the loop cuts
  with the pairs of the property, which are defined without a loop.

**FastDFS** (`FastDFSProofs`). `ClientImplementsApi`, for any objects, faults and
files: each step of the client is a step of `ClientApi` or stutters.
`LibraryAlwaysReady` and `MockStandsIn` assume `OneClient` (`MaxAlive = 1`, as in
`src/test.cpp`); with two objects the first is false (see above). The
same calls switch client and mock on, but not with the same outcome: `MockAgrees`,
which with its types is inductive (`MockInv`), says that the mock is on when the
client is, not the converse.

**Program** (`LifecycleProofs`). `LoggerIsThere`, `KeepsAccepting` and
`RegistryDrains`, for any number of connections. `LifeInv` adds how far the
registry, the configuration and `t1` are at each place of `main` (`Order`), that only
a thread that runs is in a handler (`InHandler`), that a worker is told to
stop only when nobody has the logger any more, and ends with its buffers empty
(`Drains`), and that behind the statics the worker has ended or a handler still has
the logger to destroy (`Drained`). `RegistryDrains`
follows from the steps of the worker: `main` gets past the statics only when it has
joined the worker or another thread holds the logger.

Only model-checked: every liveness property (`EventuallyWritten`, `StopReturns`,
`EveryCallReturns`, `Answered`, `Released`, `EndsOnSignal`), as fairness and ENABLED
are beyond the prover; and the violations, which TLC refutes. Every invariant and
every action property of the runs is a theorem.

## Not modelled

- Formatting of messages and levels (`log/Message.h`, `log/Level.h`), `formatSize` and
  the markup of the list page: layout, about which no property speaks.
- The log backup server and client (`log/backlog`): nothing links the server,
  and the client's call is commented out. The thread pool (`log/Threadpool.h`) is
  created and deleted by `main` but never gets a task; `Lifecycle` has those two
  steps.
- `src/include/bundle.h`: a vendored compression library, taken as a packing that
  `UnCompress` undoes. JSON text (jsoncpp) is abstract: a file of the table holds
  records.
- `src/fastdfs_example.cpp`: a program of its own; its calls of `getFileInfo` and
  `uploadFile` match the signatures of neither client.
- The FastDFS library and its servers: external, modelled by the answers they may
  give.
- `Update` and `GetOneByStoragePath` of the store, `ReadBegin`, `MoveWritePos` and
  `MoveReadPos` of the buffer, `CheckDeadline` of the connection: no caller.
- A second, explicit `stop()` of a worker: no caller.
- The numbers a failed configuration leaves uninitialised: `Lifecycle` has the
  outcome that the process goes on, no model their values.

## What is left

1. The composition of `AsyncWorker` and `LogFlush`: the callback as `RealFlush`, a
   logged byte up to the disk. The two meet in one call, so their invariants
   combine, but an instance with both in full is large.
2. A record of the store beyond `kept`: which records survive a write that fails or a
   death while the file is being rewritten. The code promises nothing of them, and
   the model has every part of the file as an outcome.
3. In `Lifecycle` the buffers are flags. Its worker is not shown to be a refinement
   of `AsyncWorker`, whose properties speak of the bytes.
