---------------------------- MODULE MCAsyncWorker ----------------------------
(* AsyncWorker for TLC: message lengths, and the statements the comments of *)
(* the code make about the buffers, which the code does not keep.           *)
EXTENDS AsyncWorker, TLC

CONSTANTS m1, m2, p1, p2

(* A message of one byte and one of as many as the first ring holds. *)
OneAndFull == m1 :> 1 @@ m2 :> BufferSize

(* A message of one byte and one no growth step makes room for. *)
OneAndHuge == m1 :> 1 @@ m2 :> 3 * BufferSize + 1

(* AsyncBuffer.h:21, "ensure the capacity suffices": after the growth every *)
(* byte that write_pos_ counts is in the ring.                              *)
CapacityEnough == prod.wpos = Len(prod.data)

(* AsyncLogger.h:46, "format the message and write it to the file": the     *)
(* sink receives the bytes that were logged.                                *)
WrittenAsLogged == \A i \in 1 .. Len(sink) : sink[i] = appended[i]

(* AsyncWorker.h:60, "a fixed-size buffer is unlocked once swapped": the    *)
(* callback runs without the mutex.                                         *)
UnlockedAfterSwap == wpc = "callback" => mutex # WorkerThread

(* AsyncWorker.h:60 and AsyncLogger.h:203: an ASYNC_SAFE ring keeps its     *)
(* size, the type "controls whether the buffer grows".                      *)
FixedSize == AsyncType = "ASYNC_SAFE" => prod.cap = BufferSize

(* AsyncWorker.h:51, "after the swap ... the producer goes on": a producer  *)
(* that waits for room gets out of Push.                                    *)
ProducerGoesOn ==
    \A p \in Producers : (ppc[p] = "parked") ~> (ppc[p] # "parked")

(* text.cpp:88 builds a logger and logs through it: the constructor of the  *)
(* worker returns.                                                          *)
ConstructorReturns == <>callbackReady
=============================================================================
