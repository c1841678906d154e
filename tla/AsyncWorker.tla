----------------------------- MODULE AsyncWorker -----------------------------
(***************************************************************************)
(* mylog::AsyncWorker (log/AsyncWorker.h): the threads that log append to   *)
(* buffer_productor_ under mutex_; the worker thread swaps it with          *)
(* buffer_consumer_ and hands that to the callback, AsyncLogger::RealFlush, *)
(* which writes it to the sinks.                                            *)
(*                                                                          *)
(* What a thread does while it holds mutex_ is one step, except that taking *)
(* the lock, and in the worker each stage of an iteration, is a step of its *)
(* own: stop_ is written without the lock.                                  *)
(***************************************************************************)
EXTENDS AsyncBuffer

CONSTANTS
    Producers,     \* the threads that log
    WorkerThread,  \* the thread that runs ThreadEntry
    Nobody,        \* mutex_ is free
    Msgs, Size,    \* the messages and their lengths in bytes
    NoMsg,         \* a producer outside Push
    AsyncType,     \* "ASYNC_SAFE" or "ASYNC_UNSAFE", fixed at construction
    MaxBytes       \* bound of the model: bytes logged in a behaviour

ASSUME WorkerAssumption ==
    /\ Size \in [Msgs -> Nat \ {0}]
    /\ NoMsg \notin Msgs
    /\ Garbage \notin Msgs
    /\ Nobody \notin Producers \cup {WorkerThread}
    /\ WorkerThread \notin Producers
    /\ AsyncType \in {"ASYNC_SAFE", "ASYNC_UNSAFE"}
    /\ MaxBytes \in Nat

VARIABLES
    callbackReady,  \* callback_ has been constructed
    mutex,          \* who holds mutex_
    prod, cons,     \* buffer_productor_ and buffer_consumer_
    stop,           \* stop_
    joined,         \* thread_.join() has returned, the worker is destroyed
    wpc,            \* where the worker thread is
    ppc, msg,       \* where each producer is, and the message it pushes
    sink,           \* the bytes the callback has written
    appended        \* history: the bytes of every completed append

pvars == <<ppc, msg, appended>>
vars  == <<callbackReady, mutex, prod, cons, stop, joined, wpc, ppc, msg,
           sink, appended>>

Safe == AsyncType = "ASYNC_SAFE"

Bytes(m) == [i \in 1 .. Size[m] |-> m]

(* The constructor starts thread_ before it constructs callback_, which is  *)
(* declared after it: the worker runs while callback_ is still raw memory.  *)
Init ==
    /\ callbackReady = FALSE
    /\ mutex = Nobody
    /\ prod = NewBuffer
    /\ cons = NewBuffer
    /\ stop = FALSE
    /\ joined = FALSE
    /\ wpc = "lock"
    /\ ppc = [p \in Producers |-> "idle"]
    /\ msg = [p \in Producers |-> NoMsg]
    /\ sink = <<>>
    /\ appended = <<>>

Alive == wpc # "crashed"

FinishConstructor ==
    /\ Alive
    /\ ~callbackReady
    /\ callbackReady' = TRUE
    /\ UNCHANGED <<mutex, prod, cons, stop, joined, wpc, pvars, sink>>

-----------------------------------------------------------------------------
(* Push *)

InBound(m) == Len(appended) + Size[m] <= MaxBytes

Lock(t) == mutex = Nobody /\ mutex' = t

(* A call of Push gets the mutex.  The owner of the logger keeps it alive   *)
(* during a call, so that no call overlaps the destructor.                  *)
PushLock(p, m) ==
    /\ Alive /\ callbackReady /\ ~stop
    /\ ppc[p] = "idle"
    /\ InBound(m)
    /\ Lock(p)
    /\ ppc' = [ppc EXCEPT ![p] = "locked"]
    /\ msg' = [msg EXCEPT ![p] = m]
    /\ UNCHANGED <<callbackReady, prod, cons, stop, joined, wpc, sink, appended>>

(* The condition under which a producer sleeps on cond_productor_. *)
MustWait(p) == Safe /\ Size[msg[p]] > WriteableSize(prod)

PushWait(p) ==
    /\ Alive
    /\ ppc[p] = "locked"
    /\ MustWait(p)
    /\ mutex' = Nobody
    /\ ppc' = [ppc EXCEPT ![p] = "parked"]
    /\ UNCHANGED <<callbackReady, prod, cons, stop, joined, wpc, msg, sink, appended>>

(* Nothing notifies cond_productor_: a parked producer runs again only      *)
(* after a spurious wakeup, and then tests its condition again.             *)
SpuriousWakeup(p) ==
    /\ Alive
    /\ ppc[p] = "parked"
    /\ InBound(msg[p])
    /\ Lock(p)
    /\ ppc' = [ppc EXCEPT ![p] = "locked"]
    /\ UNCHANGED <<callbackReady, prod, cons, stop, joined, wpc, msg, sink, appended>>

LeavePush(p) ==
    /\ mutex' = Nobody
    /\ ppc' = [ppc EXCEPT ![p] = "idle"]
    /\ msg' = [msg EXCEPT ![p] = NoMsg]

(* The append and the return.  The notify_one of cond_consumer_ wakes       *)
(* nobody: the worker never blocks on it, see WorkerWaits.                  *)
PushAppend(p) ==
    /\ Alive
    /\ ppc[p] = "locked"
    /\ ~MustWait(p)
    /\ MustGrow(prod, Size[msg[p]]) => Growth(prod) >= 0
    /\ prod' = Push(prod, Bytes(msg[p]))
    /\ appended' = appended \o Bytes(msg[p])
    /\ LeavePush(p)
    /\ UNCHANGED <<callbackReady, cons, stop, joined, wpc, sink>>

(* The allocation of a larger ring fails; the exception leaves Push before  *)
(* any byte is stored and the message is dropped.                           *)
PushThrow(p) ==
    /\ Alive
    /\ ppc[p] = "locked"
    /\ ~MustWait(p)
    /\ MustGrow(prod, Size[msg[p]]) /\ Growth(prod) # prod.cap
    /\ LeavePush(p)
    /\ UNCHANGED <<callbackReady, prod, cons, stop, joined, wpc, sink, appended>>

Producer(p) ==
    \/ \E m \in Msgs : PushLock(p, m)
    \/ PushWait(p)
    \/ SpuriousWakeup(p)
    \/ PushAppend(p)
    \/ PushThrow(p)

-----------------------------------------------------------------------------
(* ThreadEntry *)

(* A bug: a loop that leaves as soon as it sees stop_. *)
LoopTestsStop ==
    /\ wpc = "lock"
    /\ IF stop THEN wpc' = "exited" /\ UNCHANGED mutex
               ELSE wpc' = "swap" /\ Lock(WorkerThread)
    /\ UNCHANGED <<callbackReady, prod, cons, stop, joined, pvars, sink>>

WorkerLock ==
    /\ wpc = "lock"
    /\ Lock(WorkerThread)
    /\ wpc' = "swap"
    /\ UNCHANGED <<callbackReady, prod, cons, stop, joined, pvars, sink>>

(* A bug: the predicate of the wait forgets stop_. *)
WaitForgetsStop == IsEmpty(prod) /\ stop /\ ~(~IsEmpty(prod))

(* Whether the worker blocks in cond_consumer_.wait: it calls wait only     *)
(* when stop_ is set, and then the predicate it waits for already holds.    *)
WorkerWaits ==
    /\ IsEmpty(prod) /\ stop
    /\ ~(stop \/ ~IsEmpty(prod))

(* Bugs of the swap: the mutex is released with it, as the comment on       *)
(* line 60 says; a batch is taken only once it fills half the ring.         *)
SwapAndUnlock ==
    /\ wpc = "swap"
    /\ ~WorkerWaits
    /\ prod' = cons
    /\ cons' = prod
    /\ wpc' = "callback"
    /\ mutex' = Nobody
    /\ UNCHANGED <<callbackReady, stop, joined, pvars, sink>>
SwapHalfFull ==
    /\ wpc = "swap"
    /\ ~WorkerWaits
    /\ IF 2 * ReadableSize(prod) >= prod.cap
       THEN prod' = cons /\ cons' = prod
       ELSE UNCHANGED <<prod, cons>>
    /\ wpc' = "callback"
    /\ UNCHANGED <<callbackReady, mutex, stop, joined, pvars, sink>>

WorkerSwap ==
    /\ wpc = "swap"
    /\ ~WorkerWaits
    /\ prod' = cons
    /\ cons' = prod
    /\ wpc' = "callback"
    /\ UNCHANGED <<callbackReady, mutex, stop, joined, pvars, sink>>

(* A bug: the buffer is not reset after the callback. *)
CallbackNoReset ==
    /\ wpc = "callback"
    /\ callbackReady
    /\ sink' = sink \o Contents(cons)
    /\ wpc' = "check"
    /\ UNCHANGED <<callbackReady, mutex, cons, prod, stop, joined, pvars>>

(* callback_(buffer_consumer_), then Reset, with the mutex still held. *)
WorkerCallback ==
    /\ wpc = "callback"
    /\ callbackReady
    /\ sink' = sink \o Contents(cons)
    /\ cons' = Reset(cons)
    /\ wpc' = "check"
    /\ UNCHANGED <<callbackReady, mutex, prod, stop, joined, pvars>>

(* A call of the std::function before its construction: undefined; in the   *)
(* build it calls through a null or stray pointer and ends the process.     *)
CallRawCallback ==
    /\ wpc = "callback"
    /\ ~callbackReady
    /\ wpc' = "crashed"
    /\ UNCHANGED <<callbackReady, mutex, prod, cons, stop, joined, pvars, sink>>

(* The end of an iteration: return, or loop; both release the mutex. *)
WorkerLoop ==
    /\ wpc = "check"
    /\ wpc' = IF stop /\ IsEmpty(prod) THEN "exited" ELSE "lock"
    /\ mutex' = Nobody
    /\ UNCHANGED <<callbackReady, prod, cons, stop, joined, pvars, sink>>

Worker == WorkerLock \/ WorkerSwap \/ WorkerCallback \/ CallRawCallback \/ WorkerLoop

-----------------------------------------------------------------------------
(* stop(), called by the destructor when the last owner drops the logger. *)

Stop ==
    /\ Alive /\ callbackReady /\ ~stop
    /\ \A p \in Producers : ppc[p] = "idle"
    /\ stop' = TRUE
    /\ UNCHANGED <<callbackReady, mutex, prod, cons, joined, wpc, pvars, sink>>

Join ==
    /\ stop /\ ~joined
    /\ wpc = "exited"
    /\ joined' = TRUE
    /\ UNCHANGED <<callbackReady, mutex, prod, cons, stop, wpc, pvars, sink>>

(* Nothing is left to do: the logger is destroyed or the process has died. *)
Terminated == (joined \/ ~Alive) /\ UNCHANGED vars

Next ==
    \/ FinishConstructor
    \/ \E p \in Producers : Producer(p)
    \/ Worker
    \/ Stop
    \/ Join
    \/ Terminated

Spec == Init /\ [][Next]_vars

(* A thread that can run does run.  Taking the mutex is strongly fair for   *)
(* the worker: spurious wakeups could otherwise keep it out for ever.       *)
Fairness ==
    /\ WF_vars(FinishConstructor)
    /\ WF_vars(Worker) /\ SF_vars(WorkerLock)
    /\ \A p \in Producers : WF_vars(PushWait(p) \/ PushAppend(p) \/ PushThrow(p))
    /\ WF_vars(Join)

FairSpec == Spec /\ Fairness

-----------------------------------------------------------------------------
(* Properties *)

BufferType(b) ==
    /\ b \in [cap : Nat, first : Nat, data : Seq(Msgs), wpos : Nat]
    /\ Len(b.data) <= b.cap /\ b.first < b.cap

(* Every variable has its type; in particular a ring never holds more than  *)
(* its capacity and its oldest byte lies inside its storage.                *)
TypeOK ==
    /\ callbackReady \in BOOLEAN /\ stop \in BOOLEAN /\ joined \in BOOLEAN
    /\ mutex \in Producers \cup {WorkerThread, Nobody}
    /\ BufferType(prod) /\ BufferType(cons)
    /\ wpc \in {"lock", "swap", "callback", "check", "exited", "crashed"}
    /\ ppc \in [Producers -> {"idle", "locked", "parked"}]
    /\ msg \in [Producers -> Msgs \cup {NoMsg}]
    /\ sink \in Seq(Msgs \cup {Garbage})
    /\ appended \in Seq(Msgs)

(* The bytes of buffer_consumer_ that the callback has not seen yet. *)
InFlight == IF wpc \in {"callback", "crashed"} THEN cons.data ELSE <<>>

(* Between the call of Push and the sink no byte is lost, duplicated or     *)
(* reordered: the sink, what the callback is about to write and what the    *)
(* producers have stored line up with the appended bytes (Push, ThreadEntry *)
(* and Swap).  A byte of the sink may still be garbage.                     *)
NothingLost ==
    LET rest == InFlight \o prod.data
    IN /\ Len(sink) + Len(rest) = Len(appended)
       /\ \A i \in 1 .. Len(rest) : rest[i] = appended[Len(sink) + i]
       /\ \A i \in 1 .. Len(sink) : sink[i] \in {appended[i], Garbage}

(* The first BufferSize bytes reach the sink as they were logged: the read  *)
(* of Begin()..ReadableSize() cannot leave a ring that has not gone round.  *)
VerbatimPrefix ==
    \A i \in 1 .. Len(sink) : i <= BufferSize => sink[i] = appended[i]

(* When stop() returns, everything logged before has been written. *)
DrainedAtJoin == joined => Len(sink) = Len(appended)

(* AsyncWorker is a LogSink: what LogSink says of out, sink has. *)
Log == INSTANCE LogSink WITH written <- appended, out <- sink, closed <- joined
SinkSpec == Log!SinkSpec

(* A byte that Push has stored reaches the sink. *)
EventuallyWritten ==
    \A n \in 1 .. MaxBytes : (Len(appended) >= n) ~> (Len(sink) >= n)

(* stop() returns. *)
StopReturns == stop ~> joined
=============================================================================
