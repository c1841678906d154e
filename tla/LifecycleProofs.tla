-------------------------- MODULE LifecycleProofs --------------------------
(***************************************************************************)
(* What holds of the start and the end of the program for any number of     *)
(* connections and whether or not a handler can block.                      *)
(***************************************************************************)
EXTENDS Lifecycle, TLAPS

Places == {"client", "over", "pool", "registry", "add", "store", "spawn",
           "join", "statics", "drain", "singletons"}

Handlers == {"none", "accept", "request", "push", "parked", "log", "drain", "blocked"}

LifeTypes ==
    /\ main \in Places
    /\ thread \in [Runners -> {"none", "bind", "run", "ended"}]
    /\ handler \in [Runners -> Handlers]
    /\ accept \in {"none", "posted", "ready"}
    /\ worker \in {"none", "idle", "write", "ended"}
    /\ quit \in BOOLEAN /\ ring \in BOOLEAN /\ batch \in BOOLEAN

(* main has registered the logger and read the configuration before it      *)
(* starts t1, and destroys them only when t1 has ended.                     *)
Order ==
    /\ main = "store" => "asynclogger" \in loggers
    /\ main \in {"spawn", "join"} => "asynclogger" \in loggers /\ config
    /\ main \notin {"join", "statics", "drain", "singletons"} => thread["t1"] = "none"
    /\ main \in {"statics", "drain", "singletons"} => thread["t1"] = "ended"
    /\ main \notin {"join", "statics", "drain", "singletons"} => thread["p0"] = "none"
    /\ main \in {"add", "store", "spawn", "join", "statics"} => loggers # {}
    /\ main \in {"client", "over", "pool", "registry", "add"} => worker = "none"

(* A worker that is told to stop has no logger any more, so that nobody can *)
(* add to what it holds, and ends when it has written that.                 *)
Drains ==
    /\ batch => worker = "write"
    /\ worker = "ended" => quit /\ ~ring /\ ~batch
    /\ quit => main \in {"drain", "singletons"}
    /\ quit => loggers = {} /\ \A r \in Runners : ~HasLogger(r)

(* Once the registry is destroyed, main or the last thread in a call of the *)
(* logger sees to it that the worker stops, and waits for its end.          *)
Drained ==
    /\ main \in {"drain", "singletons"} => loggers = {}
    /\ main = "singletons" =>
          \/ worker = "ended"
          \/ \E r \in Runners : HasLogger(r) \/ handler[r] = "drain"

(* Only a thread that runs is in a handler. *)
InHandler == \A r \in Runners : thread[r] # "run" => handler[r] = "none"

LifeInv == LifeTypes /\ Order /\ AcceptPosted /\ Drains /\ Drained /\ InHandler

-----------------------------------------------------------------------------
(* The initial state satisfies the invariant. *)
LEMMA LifeInit == Init => LifeInv
BY DEF Init, LifeInv, LifeTypes, Places, Handlers, Order, AcceptPosted, Drains,
       Drained, InHandler, HasLogger, Runners

(* Every step of main preserves it. *)
LEMMA MainStep == ASSUME LifeInv, Main PROVE LifeInv'
<1> USE DEF LifeInv, LifeTypes, Places, Handlers, Order, AcceptPosted, Drains,
            Drained, InHandler, HasLogger, Runners, ioVars, logVars, At, Ends
<1>1. CASE InitClient BY <1>1 DEF InitClient
<1>2. CASE InitLogs BY <1>2 DEF InitLogs
<1>3. CASE InitRegistry BY <1>3 DEF InitRegistry
<1>4. CASE AddLogger BY <1>4 DEF AddLogger
<1>5. CASE NewDataManager
  <2>1. main = "store" /\ ~quit /\ worker # "ended" /\ "asynclogger" \in loggers
    BY <1>5 DEF NewDataManager
  <2>2. CASE Push /\ config' = TRUE /\ main' = "spawn"
    BY <1>5, <2>1, <2>2 DEF NewDataManager, Push
  <2>3. CASE UNCHANGED <<logVars, config, main>>
    BY <1>5, <2>1, <2>3 DEF NewDataManager
  <2>4. QED BY <1>5, <2>2, <2>3 DEF NewDataManager
<1>6. CASE StartT1 BY <1>6 DEF StartT1
<1>7. CASE Join BY <1>7 DEF Join
<1>8. CASE DestroyStatics BY <1>8 DEF DestroyStatics, StopWorker
<1>9. CASE JoinWorker BY <1>9 DEF JoinWorker
<1>10. CASE DestroyPool BY <1>10 DEF DestroyPool
<1>11. QED
  BY <1>1, <1>2, <1>3, <1>4, <1>5, <1>6, <1>7, <1>8, <1>9, <1>10 DEF Main

(* The worker writes what it holds before it ends. *)
LEMMA WorkerStep == ASSUME LifeInv, Worker PROVE LifeInv'
<1> USE DEF LifeInv, LifeTypes, Order, AcceptPosted, Drains, Drained, InHandler,
            HasLogger, Runners, ioVars
<1>1. CASE Swap BY <1>1 DEF Swap
<1>2. CASE Written BY <1>2 DEF Written
<1>3. QED BY <1>1, <1>2 DEF Worker

(* So does every step of a thread that runs the io_context. *)
LEMMA RunnerStep ==
    ASSUME LifeInv, NEW r \in Runners,
           Runs(r) \/ Blocks(r) \/ Parks(r) \/ Wakes(r) \/ OnSignal(r)
    PROVE  LifeInv'
<1> USE DEF LifeInv, LifeTypes, Places, Handlers, Order, AcceptPosted, Drains,
            Drained, InHandler, HasLogger, Runners, ioVars, logVars, In, Leaves,
            Free, Takes
<1>1. CASE RunReturns(r) BY <1>1 DEF RunReturns
<1>2. CASE TakeAccept(r) BY <1>2 DEF TakeAccept
<1>3. CASE Accepted(r) BY <1>3 DEF Accepted
<1>4. CASE TakeRequest(r) BY <1>4 DEF TakeRequest
<1>5. CASE CallLogger(r) BY <1>5 DEF CallLogger, Ends
<1>6. CASE PushLog(r) BY <1>6 DEF PushLog, Push
<1>7. CASE Logged(r)
  <2>1. ~quit /\ main \in {"join", "statics", "drain", "singletons"} /\ handler[r] = "log"
    BY <1>7 DEF Logged
  <2>2. CASE loggers = {} /\ \A q \in Runners \ {r} : ~HasLogger(q)
    <3>1. quit' /\ \A q \in Runners : ~HasLogger(q)'
      BY <1>7, <2>1, <2>2 DEF Logged, StopWorker
    <3>2. main \in {"drain", "singletons"}
      BY <2>1, <2>2
    <3>3. handler' = [handler EXCEPT ![r] = "drain"] /\ UNCHANGED <<worker, ring, batch>>
      BY <1>7, <2>2 DEF Logged, StopWorker
    <3>4. QED BY <1>7, <2>1, <2>2, <3>1, <3>2, <3>3 DEF Logged
  <2>3. CASE ~(loggers = {} /\ \A q \in Runners \ {r} : ~HasLogger(q))
    <3>1. loggers # {} \/ \E q \in Runners \ {r} : HasLogger(q)
      BY <2>3
    <3>2. handler' = [handler EXCEPT ![r] = "request"] /\ UNCHANGED logVars
      BY <1>7, <2>3 DEF Logged
    <3>3. QED BY <1>7, <2>1, <3>1, <3>2 DEF Logged
  <2>4. QED BY <2>2, <2>3
<1>8. CASE LoggerDestroyed(r) BY <1>8 DEF LoggerDestroyed
<1>9. CASE Answered(r) BY <1>9 DEF Answered
<1>10. CASE Blocks(r) BY <1>10 DEF Blocks
<1>11. CASE Parks(r) BY <1>11 DEF Parks
<1>12. CASE Wakes(r) BY <1>12 DEF Wakes
<1>13. CASE OnSignal(r) BY <1>13 DEF OnSignal
<1>14. QED
  BY <1>1, <1>2, <1>3, <1>4, <1>5, <1>6, <1>7, <1>8, <1>9, <1>10, <1>11, <1>12,
     <1>13 DEF Runs

(* Every step preserves the invariant. *)
LEMMA LifeNext == LifeInv /\ [Next]_vars => LifeInv'
<1> SUFFICES ASSUME LifeInv, [Next]_vars PROVE LifeInv'
  OBVIOUS
<1>1. CASE Main BY <1>1, MainStep
<1>2. CASE Serve \/ Signal \/ Connect
  BY <1>2 DEF Serve, Signal, Connect, LifeInv, LifeTypes, Places, Handlers, Order,
              AcceptPosted, Drains, Drained, InHandler, HasLogger, Runners, ioVars, logVars
<1>3. CASE Worker
  BY <1>3, WorkerStep
<1>4. CASE \E r \in Runners : Runs(r) \/ Blocks(r) \/ Parks(r) \/ Wakes(r) \/ OnSignal(r)
  BY <1>4, RunnerStep
<1>5. CASE UNCHANGED vars
  BY <1>5 DEF vars, ioVars, logVars, LifeInv, LifeTypes, Order, AcceptPosted, Drains,
              Drained, InHandler, HasLogger
<1>6. QED
  BY <1>1, <1>2, <1>3, <1>4, <1>5 DEF Next

(* The invariant holds in every reachable state. *)
THEOREM LifeInvariant == Spec => []LifeInv
BY LifeInit, LifeNext, PTL DEF Spec

(* Manager.h:35, Config.h:26: while the service thread can run a handler,   *)
(* the logger it asks the registry for and the configuration are there.     *)
THEOREM LoggerIsThere == Spec => []HandlerFindsLogger
<1>1. LifeInv => HandlerFindsLogger
  BY DEF LifeInv, LifeTypes, Places, Order, HandlerFindsLogger
<1>2. QED BY <1>1, LifeInvariant, PTL

(* CServer.cpp:9: the server accepts until its io_context is stopped,       *)
(* whatever errors and exceptions the handlers of accepts meet.             *)
THEOREM KeepsAccepting == Spec => []AcceptPosted
<1>1. LifeInv => AcceptPosted
  BY DEF LifeInv
<1>2. QED BY <1>1, LifeInvariant, PTL

(* AsyncWorker.h:22: when the destructor of the pool terminates the         *)
(* process, nothing is left in the buffers of the logger, whoever held the  *)
(* last pointer to it -- unless a thread of the pool is in a call of the    *)
(* logger.                                                                  *)
THEOREM RegistryDrains == Spec => []LogDrained
<1>1. LifeInv => LogDrained
  BY DEF LifeInv, LifeTypes, Order, InHandler, Drains, Drained, HasLogger, LogDrained,
         Runners
<1>2. QED BY <1>1, LifeInvariant, PTL
=============================================================================
