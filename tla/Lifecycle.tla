------------------------------ MODULE Lifecycle ------------------------------
(***************************************************************************)
(* The program from main to its end (src/test.cpp): the FastDFS client, the *)
(* logger registry (log/Manager.h), the configuration and the table, the    *)
(* service thread t1 with the acceptor (src/CServer.cpp) on the first       *)
(* io_context of the pool (src/AsioIOServicePool.cpp), SIGINT or SIGTERM,   *)
(* and the destructors of the static objects.                               *)
(*                                                                          *)
(* t1 and the pool's own thread p0 both run that io_context; nothing runs   *)
(* on the others, as GetIOService is called once.                           *)
(***************************************************************************)
EXTENDS FiniteSets, Integers

CONSTANTS
    MaxConnections,  \* a bound of the model: connections open at a time
    MayBlock         \* whether a handler may wait forever, for the rwlock or
                     \* for room in the buffer of the logger

ASSUME LifecycleAssumption == MaxConnections \in Nat /\ MayBlock \in BOOLEAN

Runners == {"t1", "p0"}

VARIABLES
    main,       \* where main is
    thread,     \* of t1 and p0: "none", "bind" (t1), "run", "ended"
    handler,    \* the handler each of them is in: "none", "accept",
                \* "request"; within one "push", "parked" and "log", in a
                \* call of the logger, to which it has a pointer, "drain",
                \* the destructor of the logger, "blocked", by the rwlock
    accept,     \* the accept operation: "none", "posted", "ready"
    idle,       \* connections that wait for a request
    signal,     \* "none", "sent", "caught"
    stopped,    \* the io_context has been stopped
    loggers,    \* the names in LoggerManager::loggers_; {} without registry
    config,     \* storage::Config is constructed
    worker,     \* the worker of "asynclogger": "none", "idle", "write" (its
                \* sink runs, and it holds the mutex), "ended"
    quit,       \* its stop_
    ring, batch, \* something is in its producer and its consumer buffer
    exit        \* how the process ended: "none", "1", "terminate", "crash"

ioVars  == <<accept, idle, stopped>>
logVars == <<worker, quit, ring, batch>>
vars    == <<main, thread, handler, ioVars, signal, loggers, config, logVars, exit>>

Init ==
    /\ main = "client"
    /\ thread = [r \in Runners |-> "none"]
    /\ handler = [r \in Runners |-> "none"]
    /\ accept = "none" /\ idle = 0 /\ stopped = FALSE
    /\ signal = "none"
    /\ loggers = {} /\ config = FALSE
    /\ worker = "none" /\ quit = FALSE /\ ring = FALSE /\ batch = FALSE
    /\ exit = "none"

Running == exit = "none"

Ends(how) == exit' = how

-----------------------------------------------------------------------------
(* The logger "asynclogger" and its worker (log/AsyncWorker.h).             *)

(* A thread in a call of the logger has a pointer to it. *)
HasLogger(r) == handler[r] \in {"push", "parked", "log"}

(* Push waits for the mutex. *)
Push == worker # "write" /\ ring' = TRUE /\ UNCHANGED <<worker, quit, batch>>

(* The destructor of the worker sets stop_ and joins its thread, which      *)
(* takes the steps below.                                                   *)
StopWorker == quit' = TRUE /\ UNCHANGED <<worker, ring, batch>>

(* A bug: the worker leaves its loop as soon as it sees stop_.              *)
SwapUnlessStopped ==
    /\ Running /\ worker = "idle" /\ (ring \/ quit)
    /\ worker' = IF quit THEN "ended" ELSE "write"
    /\ batch' = (~quit /\ ring) /\ ring' = (quit /\ ring)
    /\ UNCHANGED <<main, thread, handler, ioVars, signal, loggers, config, quit, exit>>

(* A turn of the worker; those with nothing to write are left out.          *)
Swap ==
    /\ Running /\ worker = "idle" /\ (ring \/ quit)
    /\ worker' = "write"
    /\ batch' = ring /\ ring' = FALSE
    /\ UNCHANGED <<main, thread, handler, ioVars, signal, loggers, config, quit, exit>>

Written ==
    /\ Running /\ worker = "write"
    /\ batch' = FALSE
    /\ worker' = IF quit /\ ~ring THEN "ended" ELSE "idle"
    /\ UNCHANGED <<main, thread, handler, ioVars, signal, loggers, config, quit, ring, exit>>

-----------------------------------------------------------------------------
(* main *)

At(place) == Running /\ main = place

(* client.initialize() *)
InitClient ==
    /\ At("client")
    /\ \/ main' = "pool" /\ UNCHANGED exit
       \/ main' = "over" /\ Ends("1")
    /\ UNCHANGED <<thread, handler, ioVars, signal, loggers, config, logVars>>

(* JsonData and the ThreadPool: without a configuration file the numbers    *)
(* are not initialised, and a thread_count may be beyond what can be        *)
(* started; of one that does not parse, get() throws.                       *)
InitLogs ==
    /\ At("pool")
    /\ \/ main' = "registry" /\ UNCHANGED exit
       \/ Ends("terminate") /\ UNCHANGED main
    /\ UNCHANGED <<thread, handler, ioVars, signal, loggers, config, logVars>>

(* LoggerManager::GetInstance() constructs the default logger.              *)
InitRegistry ==
    /\ At("registry")
    /\ loggers' = {"default"}
    /\ main' = "add"
    /\ UNCHANGED <<thread, handler, ioVars, signal, config, logVars, exit>>

(* AddLogger keeps a logger of the same name; the worker runs from the      *)
(* construction of the logger on.                                           *)
AddLogger ==
    /\ At("add")
    /\ loggers' = loggers \cup {"asynclogger"}
    /\ worker' = "idle"
    /\ main' = "store"
    /\ UNCHANGED <<thread, handler, ioVars, signal, config, quit, ring, batch, exit>>

(* The DataManager logs, reads the Config, which logs, and loads the table; *)
(* a value of the wrong type throws in either.                              *)
NewDataManager ==
    /\ At("store")
    /\ \/ Push /\ config' = TRUE /\ main' = "spawn" /\ UNCHANGED exit
       \/ Ends("terminate") /\ UNCHANGED <<logVars, config, main>>
    /\ UNCHANGED <<thread, handler, ioVars, signal, loggers>>

StartT1 ==
    /\ At("spawn")
    /\ thread' = [thread EXCEPT !["t1"] = "bind"]
    /\ main' = "join"
    /\ UNCHANGED <<handler, ioVars, signal, loggers, config, logVars, exit>>

(* A bug: main goes on without waiting. *)
JoinDetached ==
    /\ At("join")
    /\ main' = "statics"
    /\ UNCHANGED <<thread, handler, ioVars, signal, loggers, config, logVars, exit>>

(* t1.join(), delete tp, which waits for a pool without tasks, and the      *)
(* destructor of the client.                                                *)
Join ==
    /\ At("join") /\ thread["t1"] = "ended"
    /\ main' = "statics"
    /\ UNCHANGED <<thread, handler, ioVars, signal, loggers, config, logVars, exit>>

(* The function-local statics: the Config, then the registry.  The logger   *)
(* goes with its last pointer: main destroys it unless a handler of p0 is   *)
(* in a call of it.                                                         *)
DestroyStatics ==
    /\ At("statics")
    /\ config' = FALSE /\ loggers' = {}
    /\ IF \E r \in Runners : HasLogger(r)
         THEN main' = "singletons" /\ UNCHANGED logVars
         ELSE main' = "drain" /\ StopWorker
    /\ UNCHANGED <<thread, handler, ioVars, signal, exit>>

(* The thread of the worker is joined. *)
JoinWorker ==
    /\ At("drain") /\ worker = "ended"
    /\ main' = "singletons"
    /\ UNCHANGED <<thread, handler, ioVars, signal, loggers, config, logVars, exit>>

(* ~AsioIOServicePool: Stop, then the destructors of its threads, which     *)
(* nobody has joined.                                                       *)
DestroyPool ==
    /\ At("singletons")
    /\ stopped' = TRUE
    /\ Ends("terminate")
    /\ UNCHANGED <<main, thread, handler, accept, idle, signal, loggers, config, logVars>>

-----------------------------------------------------------------------------
(* service_module, on t1: the pool is constructed and p0 runs; the acceptor *)
(* binds its port, or throws and the service is over.                       *)
Serve ==
    /\ Running /\ thread["t1"] = "bind"
    /\ \/ /\ thread' = [thread EXCEPT !["t1"] = "run", !["p0"] = "run"]
          /\ accept' = "posted"
       \/ /\ thread' = [thread EXCEPT !["t1"] = "ended", !["p0"] = "run"]
          /\ UNCHANGED accept
    /\ UNCHANGED <<main, handler, idle, stopped, signal, loggers, config, logVars, exit>>

(* Runner r is between two handlers. *)
Free(r) == Running /\ thread[r] = "run" /\ handler[r] = "none"

(* r takes a ready handler from the io_context. *)
Takes(r, h) == /\ Free(r) /\ ~stopped
               /\ handler' = [handler EXCEPT ![r] = h]

In(r, h) == Running /\ handler[r] = h

Leaves(r) == handler' = [handler EXCEPT ![r] = "none"]

(* run() returns. *)
RunReturns(r) ==
    /\ Free(r) /\ stopped
    /\ thread' = [thread EXCEPT ![r] = "ended"]
    /\ UNCHANGED <<main, handler, ioVars, signal, loggers, config, logVars, exit>>

(* A client connects, or accepting fails. *)
Connect ==
    /\ Running /\ accept = "posted"
    /\ accept' = "ready"
    /\ UNCHANGED <<main, thread, handler, idle, stopped, signal, loggers, config,
                   logVars, exit>>

TakeAccept(r) ==
    /\ accept = "ready"
    /\ Takes(r, "accept")
    /\ accept' = "none"
    /\ UNCHANGED <<main, thread, idle, stopped, signal, loggers, config, logVars, exit>>

(* A bug: after an error nothing is accepted any more.                      *)
AcceptedOrNot(r) ==
    /\ In(r, "accept")
    /\ \/ idle < MaxConnections /\ idle' = idle + 1 /\ accept' = "posted"
       \/ UNCHANGED <<idle, accept>>
    /\ Leaves(r)
    /\ UNCHANGED <<main, thread, stopped, signal, loggers, config, logVars, exit>>

(* The handler of an accept: the connection starts to read, or there was an *)
(* error or an exception; start() is called again in each case.             *)
Accepted(r) ==
    /\ In(r, "accept")
    /\ \/ idle < MaxConnections /\ idle' = idle + 1
       \/ UNCHANGED idle
    /\ accept' = "posted"
    /\ Leaves(r)
    /\ UNCHANGED <<main, thread, stopped, signal, loggers, config, logVars, exit>>

(* A request is read. *)
TakeRequest(r) ==
    /\ idle > 0
    /\ Takes(r, "request")
    /\ idle' = idle - 1
    /\ UNCHANGED <<main, thread, accept, stopped, signal, loggers, config, logVars, exit>>

(* mylog::GetLogger(name)->Info(...) in the handler of the request: of a    *)
(* name that is not registered, the pointer is null.                        *)
CallLogger(r) ==
    /\ In(r, "request")
    /\ IF "asynclogger" \in loggers
         THEN handler' = [handler EXCEPT ![r] = "push"] /\ UNCHANGED exit
         ELSE Ends("crash") /\ UNCHANGED handler
    /\ UNCHANGED <<main, thread, ioVars, signal, loggers, config, logVars>>

PushLog(r) ==
    /\ In(r, "push")
    /\ Push
    /\ handler' = [handler EXCEPT ![r] = "log"]
    /\ UNCHANGED <<main, thread, ioVars, signal, loggers, config, exit>>

(* The buffer keeps its size: a message that finds no room waits for a      *)
(* condition nobody signals.                                                *)
Parks(r) ==
    /\ MayBlock /\ In(r, "push") /\ worker # "write"
    /\ handler' = [handler EXCEPT ![r] = "parked"]
    /\ UNCHANGED <<main, thread, ioVars, signal, loggers, config, logVars, exit>>

(* A spurious wakeup. *)
Wakes(r) ==
    /\ In(r, "parked") /\ worker # "write"
    /\ handler' = [handler EXCEPT ![r] = "push"]
    /\ UNCHANGED <<main, thread, ioVars, signal, loggers, config, logVars, exit>>

(* The call returns; with the last pointer goes the logger. *)
Logged(r) ==
    /\ In(r, "log")
    /\ IF loggers = {} /\ \A q \in Runners \ {r} : ~HasLogger(q)
         THEN handler' = [handler EXCEPT ![r] = "drain"] /\ StopWorker
         ELSE handler' = [handler EXCEPT ![r] = "request"] /\ UNCHANGED logVars
    /\ UNCHANGED <<main, thread, ioVars, signal, loggers, config, exit>>

LoggerDestroyed(r) ==
    /\ In(r, "drain") /\ worker = "ended"
    /\ handler' = [handler EXCEPT ![r] = "request"]
    /\ UNCHANGED <<main, thread, ioVars, signal, loggers, config, logVars, exit>>

Blocks(r) ==
    /\ MayBlock /\ In(r, "request")
    /\ handler' = [handler EXCEPT ![r] = "blocked"]
    /\ UNCHANGED <<main, thread, ioVars, signal, loggers, config, logVars, exit>>

(* The connection waits for the next request, or it is closed. *)
Answered(r) ==
    /\ In(r, "request")
    /\ Leaves(r)
    /\ \/ idle' = idle + 1
       \/ UNCHANGED idle
    /\ UNCHANGED <<main, thread, accept, stopped, signal, loggers, config, logVars, exit>>

(* SIGINT or SIGTERM, once the signal_set waits for it.                     *)
Signal ==
    /\ Running /\ thread["t1"] = "run" /\ signal = "none"
    /\ signal' = "sent"
    /\ UNCHANGED <<main, thread, handler, ioVars, loggers, config, logVars, exit>>

(* A bug: the guards are reset and the io_context is left to end by itself. *)
OnSignalResets(r) ==
    /\ signal = "sent" /\ Free(r) /\ ~stopped
    /\ signal' = "caught"
    /\ UNCHANGED <<main, thread, handler, ioVars, loggers, config, logVars, exit>>

OnSignal(r) ==
    /\ signal = "sent" /\ Free(r) /\ ~stopped
    /\ signal' = "caught" /\ stopped' = TRUE
    /\ UNCHANGED <<main, thread, handler, accept, idle, loggers, config, logVars, exit>>

Main ==
    \/ InitClient \/ InitLogs \/ InitRegistry \/ AddLogger \/ NewDataManager
    \/ StartT1 \/ Join \/ DestroyStatics \/ JoinWorker \/ DestroyPool

Worker == Swap \/ Written

Runs(r) ==
    \/ RunReturns(r)
    \/ TakeAccept(r) \/ Accepted(r)
    \/ TakeRequest(r) \/ Answered(r)
    \/ CallLogger(r) \/ PushLog(r) \/ Logged(r) \/ LoggerDestroyed(r)

Next ==
    \/ Main \/ Serve \/ Signal \/ Connect \/ Worker
    \/ \E r \in Runners : Runs(r) \/ Blocks(r) \/ Parks(r) \/ Wakes(r) \/ OnSignal(r)

Spec == Init /\ [][Next]_vars

(* Threads run; a handler that is ready is taken in turn, the queue of an   *)
(* io_context being first in, first out; a thread that waits for the mutex  *)
(* of the logger gets it in the end; a request ends (there is no loop in    *)
(* its handlers) unless it blocks.                                          *)
Fairness ==
    /\ WF_vars(Main) /\ WF_vars(Serve) /\ WF_vars(Worker)
    /\ \A r \in Runners :
          /\ WF_vars(Runs(r)) /\ SF_vars(OnSignal(r))
          /\ SF_vars(PushLog(r)) /\ SF_vars(Answered(r))

FairSpec == Spec /\ Fairness

-----------------------------------------------------------------------------
(* Properties *)

(* Manager.h:35: whoever logs finds the logger, and whoever serves the      *)
(* configuration: main has put them there before t1 starts, and destroys    *)
(* them after t1 has ended.                                                 *)
HandlerFindsLogger ==
    thread["t1"] \in {"bind", "run"} => "asynclogger" \in loggers /\ config

(* CServer.cpp:9: while the server runs an accept is posted, or is handled  *)
(* by one of the two threads: no error ends the accepting.                  *)
AcceptPosted ==
    thread["t1"] = "run" /\ ~stopped =>
        accept # "none" \/ \E r \in Runners : handler[r] = "accept"

(* AsyncWorker.h:22: what has been logged is written before the destructor  *)
(* of the pool terminates the process -- unless a thread of the pool is in  *)
(* a call of the logger then: the registry's destructor does not wait for   *)
(* it, and what is in the buffers is lost with it.                          *)
LogDrained ==
    main = "singletons" =>
        ~(ring \/ batch) \/ HasLogger("p0") \/ handler["p0"] = "drain"

(* test.cpp:38: a signal ends the program, unless t1 waits for a lock or    *)
(* for room in the buffer of the logger.                                    *)
EndsOnSignal == signal = "sent" ~> ~Running \/ handler["t1"] \in {"blocked", "parked"}

(* Manager.h:35: whichever thread logs finds the logger.  The code does not *)
(* keep this: main destroys the registry and leaves p0 running.             *)
EveryoneFindsLogger == exit # "crash"
==============================================================================
