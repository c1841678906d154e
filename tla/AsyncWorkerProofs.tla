-------------------------- MODULE AsyncWorkerProofs --------------------------
(***************************************************************************)
(* Proofs about AsyncWorker: type correctness, NothingLost, VerbatimPrefix, *)
(* DrainedAtJoin, and that AsyncWorker implements LogSink, from lemmas      *)
(* about the operations of AsyncBuffer.                                     *)
(***************************************************************************)
EXTENDS AsyncWorker, SequenceTheorems, TLAPS

-----------------------------------------------------------------------------
(* mylog::Buffer: what its operations do with the bytes in the ring. *)

(* A buffer whose ring holds Byte values, as AsyncWorker's BufferType. *)
Ring(b, Byte) ==
    /\ b \in [cap : Nat, first : Nat, data : Seq(Byte), wpos : Nat]
    /\ Len(b.data) <= b.cap /\ b.first < b.cap

(* Room for n more bytes after at most one growth step. *)
Roomy(b, n) ==
    \/ n <= WriteableSize(b)
    \/ n <= 2 * BufferSize /\ n <= LinearGrowth

(* The conversion to int is exact below half its range. *)
LEMMA ToIntExact ==
    ASSUME NEW n \in Nat, 2 * n < IntMod
    PROVE  ToInt(n) = n
BY BufferAssumption DEF ToInt

(* ToBeEnough keeps the bytes and never shrinks a ring whose capacity an int can hold. *)
LEMMA ToBeEnoughKeeps ==
    ASSUME NEW Byte, NEW b, Ring(b, Byte), NEW n \in Nat,
           2 * (Len(b.data) + n) < IntMod, b.cap >= BufferSize,
           Roomy(b, n)
    PROVE  LET c == ToBeEnough(b, n)
           IN /\ Ring(c, Byte)
              /\ c.data = b.data /\ c.wpos = b.wpos
              /\ c.first <= b.first /\ c.cap >= b.cap
              /\ n <= WriteableSize(c)
<1> DEFINE c == ToBeEnough(b, n)
<1>0. /\ b.cap \in Nat /\ b.first \in Nat /\ b.wpos \in Nat
      /\ b.data \in Seq(Byte) /\ Len(b.data) \in Nat
      /\ Len(b.data) <= b.cap /\ b.first < b.cap
      /\ b = [cap |-> b.cap, first |-> b.first, data |-> b.data, wpos |-> b.wpos]
  BY DEF Ring
<1>1. CASE ~MustGrow(b, n)
  BY <1>0, <1>1 DEF ToBeEnough, MustGrow, WriteableSize
<1>2. CASE MustGrow(b, n)
  <2>1. ToInt(b.cap) = b.cap
    <3>1. 2 * b.cap < IntMod
      BY <1>0, <1>2, BufferAssumption DEF MustGrow, WriteableSize
    <3> QED BY <1>0, <3>1, ToIntExact
  <2>2. /\ Growth(b) \in Nat
        /\ Growth(b) >= b.cap
        /\ Growth(b) = 3 * b.cap \/ Growth(b) = LinearGrowth + b.cap
    BY SMTT(30), <1>0, <2>1, BufferAssumption DEF Growth
  <2>3. CASE Growth(b) = b.cap
    <3>1. c = b
      BY <1>2, <2>3 DEF ToBeEnough, SetCapacity
    <3>2. n <= WriteableSize(b)
      <4>1. LinearGrowth = 0
        BY SMTT(30), <1>0, <2>2, <2>3, BufferAssumption
      <4>2. CASE n <= 2 * BufferSize /\ n <= LinearGrowth
        <5>1. n = 0
          BY <4>1, <4>2
        <5> QED BY <1>0, <5>1 DEF WriteableSize
      <4> QED BY <4>2 DEF Roomy
    <3> QED BY <1>0, <3>1, <3>2
  <2>4. CASE Growth(b) # b.cap
    <3>1. Len(b.data) <= Growth(b)
      BY <1>0, <2>2
    <3>2. c = [cap |-> Growth(b), first |-> 0, data |-> b.data, wpos |-> b.wpos]
      BY <1>0, <1>2, <2>4, <3>1 DEF ToBeEnough, SetCapacity
    <3>3. c.cap = Growth(b) /\ c.first = 0 /\ c.data = b.data /\ c.wpos = b.wpos
      BY <3>2
    <3>4. Growth(b) > 0
      BY <1>0, <2>2
    <3>5. Ring(c, Byte)
      BY <1>0, <2>2, <3>1, <3>2, <3>4 DEF Ring
    <3>6. n <= Growth(b) - Len(b.data)
      <4> DEFINE G == Growth(b)
                 L == Len(b.data)
      <4>1. /\ G \in Nat /\ L \in Nat /\ b.cap \in Nat /\ L <= b.cap /\ G >= b.cap
            /\ G = 3 * b.cap \/ G = LinearGrowth + b.cap
            /\ n <= b.cap - L \/ (n <= 2 * BufferSize /\ n <= LinearGrowth)
        BY <1>0, <2>2 DEF WriteableSize, Roomy
      <4> HIDE DEF G, L
      <4>2. n <= G - L
        BY <4>1, BufferAssumption
      <4> QED BY <4>2 DEF G, L
    <3> HIDE DEF c
    <3>7. n <= WriteableSize(c)
      BY <3>3, <3>6 DEF WriteableSize
    <3> QED BY <1>0, <2>2, <3>3, <3>5, <3>7 DEF c
  <2> QED BY <2>3, <2>4
<1> QED BY <1>1, <1>2

(* A push that finds room, or makes it, appends its bytes and drops none. *)
LEMMA PushAppends ==
    ASSUME NEW Byte, NEW b, Ring(b, Byte), NEW bytes \in Seq(Byte),
           2 * (Len(b.data) + Len(bytes)) < IntMod, b.cap >= BufferSize,
           Roomy(b, Len(bytes))
    PROVE  LET c == Push(b, bytes)
           IN /\ Ring(c, Byte)
              /\ c.data = b.data \o bytes /\ c.wpos = b.wpos + Len(bytes)
              /\ c.first <= b.first /\ c.cap >= b.cap
<1> DEFINE e == ToBeEnough(b, Len(bytes))
           c == Push(b, bytes)
<1>1. /\ Ring(e, Byte)
      /\ e.data = b.data /\ e.wpos = b.wpos
      /\ e.first <= b.first /\ e.cap >= b.cap
      /\ Len(bytes) <= WriteableSize(e)
  BY ToBeEnoughKeeps
<1>2. Len(e.data \o bytes) = Len(e.data) + Len(bytes)
  BY <1>1 DEF Ring
<1>3. c = [e EXCEPT !.data = e.data \o bytes, !.wpos = @ + Len(bytes)]
  <2> HIDE DEF e
  <2>1. ~(Len(e.data \o bytes) > e.cap)
    BY <1>1, <1>2 DEF Ring, WriteableSize
  <2>2. PushBack(e, bytes) = [e EXCEPT !.data = e.data \o bytes, !.wpos = @ + Len(bytes)]
    BY <2>1, <1>1 DEF PushBack, Ring
  <2> QED BY <2>2 DEF Push, e
<1> HIDE DEF e, c
<1>4. /\ e \in [cap : Nat, first : Nat, data : Seq(Byte), wpos : Nat]
      /\ e.first < e.cap /\ b.cap \in Nat /\ b.first \in Nat
      /\ Len(e.data) + Len(bytes) <= e.cap
  BY <1>1 DEF Ring, WriteableSize
<1>5. /\ c.cap = e.cap /\ c.first = e.first
      /\ c.data = e.data \o bytes /\ c.wpos = e.wpos + Len(bytes)
      /\ c \in [cap : Nat, first : Nat, data : Seq(Byte), wpos : Nat]
  <2> HIDE DEF c, e
  <2>1. e.data \o bytes \in Seq(Byte) /\ e.wpos + Len(bytes) \in Nat
    BY <1>4
  <2>2. c = [cap |-> e.cap, first |-> e.first, data |-> e.data \o bytes,
             wpos |-> e.wpos + Len(bytes)]
    BY <1>3, <1>4
  <2> QED BY <1>4, <2>1, <2>2
<1>6. Ring(c, Byte)
  BY <1>2, <1>4, <1>5 DEF Ring
<1> QED BY <1>1, <1>5, <1>6 DEF c

(* Reset empties the ring and moves its start forward by what it held, or back. *)
LEMMA ResetEmpties ==
    ASSUME NEW Byte, NEW b, Ring(b, Byte)
    PROVE  LET c == Reset(b)
           IN /\ Ring(c, Byte)
              /\ c.data = <<>> /\ c.wpos = 0 /\ c.cap = b.cap
              /\ c.first <= b.first + Len(b.data)
<1> DEFINE c == Reset(b)
           f == IF b.first + Len(b.data) < b.cap THEN b.first + Len(b.data)
                ELSE b.first + Len(b.data) - b.cap
<1>1. /\ b.cap \in Nat /\ b.first \in Nat /\ Len(b.data) \in Nat
      /\ Len(b.data) <= b.cap /\ b.first < b.cap
      /\ b \in [cap : Nat, first : Nat, data : Seq(Byte), wpos : Nat]
  BY DEF Ring
<1>2. f \in Nat /\ f < b.cap /\ f <= b.first + Len(b.data)
  BY <1>1
<1>3. c = [b EXCEPT !.first = f, !.data = <<>>, !.wpos = 0]
  BY DEF Reset
<1> HIDE DEF c, f
<1>4. c = [cap |-> b.cap, first |-> f, data |-> <<>>, wpos |-> 0]
  BY <1>1, <1>3
<1>5. <<>> \in Seq(Byte) /\ Len(<<>>) = 0
  OBVIOUS
<1>6. Ring(c, Byte)
  BY <1>1, <1>2, <1>4, <1>5 DEF Ring
<1> QED BY <1>2, <1>4, <1>6 DEF c

(* The callback reads one byte per pushed byte, and reads it right while the
   ring has not gone round. *)
LEMMA ContentsRead ==
    ASSUME NEW Byte, NEW b, Ring(b, Byte), b.wpos = Len(b.data)
    PROVE  /\ Contents(b) \in Seq(Byte \cup {Garbage})
           /\ Len(Contents(b)) = Len(b.data)
           /\ \A i \in 1 .. Len(b.data) :
                 /\ Contents(b)[i] \in {b.data[i], Garbage}
                 /\ b.first + i <= b.cap => Contents(b)[i] = b.data[i]
<1>1. \A i \in 1 .. Len(b.data) : b.data[i] \in Byte
  BY DEF Ring
<1>2. Len(b.data) \in Nat
  BY DEF Ring
<1> QED BY <1>1, <1>2 DEF Contents, ReadableSize, Ring

-----------------------------------------------------------------------------
(* AsyncWorker *)

(* The conditions under which no byte is overwritten: an int holds every    *)
(* capacity at which a ring grows, and a message that did not wait for room *)
(* gets it from one growth step.  The second is free for ASYNC_SAFE.        *)
Regime ==
    /\ 2 * MaxBytes < IntMod
    /\ \/ Safe
       \/ \A m \in Msgs : Size[m] <= 2 * BufferSize /\ Size[m] <= LinearGrowth

-----------------------------------------------------------------------------
(* The inductive invariant. *)

MutualExclusion ==
    /\ wpc \in {"swap", "callback", "check", "crashed"} <=> mutex = WorkerThread
    /\ \A p \in Producers : ppc[p] = "locked" <=> mutex = p

Calls ==
    /\ \A p \in Producers : ppc[p] # "idle" => msg[p] \in Msgs
    /\ \A p \in Producers : ppc[p] = "locked" => InBound(msg[p])
    /\ stop => \A p \in Producers : ppc[p] = "idle"

Buffers ==
    /\ prod.wpos = Len(prod.data) /\ cons.wpos = Len(cons.data)
    /\ prod.cap >= BufferSize /\ cons.cap >= BufferSize
    /\ prod.first + cons.first <= Len(sink)

Stages ==
    /\ wpc \in {"callback", "check", "crashed"} => prod.data = <<>>
    /\ wpc \notin {"callback", "crashed"} => cons.data = <<>>
    /\ wpc = "exited" => stop /\ prod.data = <<>>
    /\ joined => wpc = "exited"

IInv ==
    /\ TypeOK
    /\ MutualExclusion
    /\ Calls
    /\ Buffers
    /\ Stages
    /\ NothingLost
    /\ VerbatimPrefix
    /\ Len(appended) <= MaxBytes

-----------------------------------------------------------------------------

LEMMA BytesType ==
    ASSUME NEW m \in Msgs
    PROVE  Bytes(m) \in Seq(Msgs) /\ Len(Bytes(m)) = Size[m] /\ Size[m] \in Nat \ {0}
BY WorkerAssumption DEF Bytes

LEMMA ConcatFacts ==
    ASSUME NEW S, NEW s \in Seq(S), NEW t \in Seq(S)
    PROVE  /\ s \o t \in Seq(S)
           /\ Len(s) \in Nat /\ Len(t) \in Nat
           /\ Len(s \o t) = Len(s) + Len(t)
           /\ \A i \in 1 .. Len(s) : (s \o t)[i] = s[i]
           /\ \A i \in 1 .. Len(t) : (s \o t)[Len(s) + i] = t[i]
           /\ \A i \in 1 .. Len(s) + Len(t) :
                 i \notin 1 .. Len(s) => i - Len(s) \in 1 .. Len(t)
BY ConcatProperties

(* If d is the end of a, then d \o b is the end of a \o b. *)
LEMMA AppendAligned ==
    ASSUME NEW S, NEW a \in Seq(S), NEW d \in Seq(S), NEW b \in Seq(S),
           NEW o \in Nat, o + Len(d) = Len(a),
           \A i \in 1 .. Len(d) : d[i] = a[o + i]
    PROVE  \A i \in 1 .. Len(d \o b) : (d \o b)[i] = (a \o b)[o + i]
<1>1. /\ Len(a) \in Nat /\ Len(d) \in Nat /\ Len(b) \in Nat
      /\ Len(d \o b) = Len(d) + Len(b)
  BY ConcatFacts
<1> TAKE i \in 1 .. Len(d \o b)
<1>2. CASE i \in 1 .. Len(d)
  <2>1. o + i \in 1 .. Len(a)
    BY <1>1, <1>2
  <2>2. (d \o b)[i] = d[i] /\ (a \o b)[o + i] = a[o + i]
    BY <1>2, <2>1, ConcatFacts
  <2> QED BY <1>2, <2>2
<1>3. CASE i \notin 1 .. Len(d)
  <2> DEFINE j == i - Len(d)
  <2>0. i \in Int /\ 1 <= i /\ i <= Len(d) + Len(b) /\ Len(d) < i
    BY <1>1, <1>3
  <2>1. j \in 1 .. Len(b) /\ i = Len(d) + j /\ o + i = Len(a) + j
    <3>1. \A x, y, z, w, v \in Int :
             o + x = v /\ 1 <= z /\ z <= x + y /\ x < z =>
             z - x \in 1 .. y /\ z = x + (z - x) /\ o + z = v + (z - x)
      BY SMTT(30)
    <3> QED BY SMTT(30), <1>1, <2>0, <3>1
  <2> HIDE DEF j
  <2>2. (d \o b)[Len(d) + j] = b[j] /\ (a \o b)[Len(a) + j] = b[j]
    BY <2>1, ConcatFacts
  <2> QED BY <2>1, <2>2
<1> QED BY <1>2, <1>3

(* The types of the numbers and sequences the invariant speaks of. *)
LEMMA Types ==
    ASSUME TypeOK
    PROVE  /\ prod.data \in Seq(Msgs) /\ Len(prod.data) \in Nat
           /\ cons.data \in Seq(Msgs) /\ Len(cons.data) \in Nat
           /\ prod.first \in Nat /\ cons.first \in Nat
           /\ prod.cap \in Nat /\ cons.cap \in Nat
           /\ appended \in Seq(Msgs) /\ Len(appended) \in Nat
           /\ sink \in Seq(Msgs \cup {Garbage}) /\ Len(sink) \in Nat
           /\ Ring(prod, Msgs) /\ Ring(cons, Msgs)
BY DEF TypeOK, BufferType, Ring

(* NothingLost while the consumer's buffer is empty. *)
LEMMA NothingLostProd ==
    ASSUME TypeOK, InFlight = <<>>
    PROVE  NothingLost <=>
             /\ Len(sink) + Len(prod.data) = Len(appended)
             /\ \A i \in 1 .. Len(prod.data) : prod.data[i] = appended[Len(sink) + i]
             /\ \A i \in 1 .. Len(sink) : sink[i] \in {appended[i], Garbage}
<1>1. <<>> \o prod.data = prod.data
  BY Types, ConcatEmptySeq
<1> QED BY <1>1 DEF NothingLost

(* NothingLost while the producers' buffer is empty. *)
LEMMA NothingLostCons ==
    ASSUME TypeOK, prod.data = <<>>, InFlight = cons.data
    PROVE  NothingLost <=>
             /\ Len(sink) + Len(cons.data) = Len(appended)
             /\ \A i \in 1 .. Len(cons.data) : cons.data[i] = appended[Len(sink) + i]
             /\ \A i \in 1 .. Len(sink) : sink[i] \in {appended[i], Garbage}
<1>1. cons.data \o <<>> = cons.data
  BY Types, ConcatEmptySeq
<1> QED BY <1>1 DEF NothingLost

LEMMA InitIInv == Init => IInv
<1> SUFFICES ASSUME Init PROVE IInv
  OBVIOUS
<1>1. /\ NewBuffer.cap = BufferSize /\ NewBuffer.first = 0
      /\ NewBuffer.data = <<>> /\ NewBuffer.wpos = 0
      /\ prod = NewBuffer /\ cons = NewBuffer
      /\ Len(NewBuffer.data) = 0
  BY DEF Init, NewBuffer
<1>2. BufferType(NewBuffer)
  BY BufferAssumption DEF BufferType, NewBuffer
<1>3. TypeOK
  <2>1. <<>> \in Seq(Msgs) /\ <<>> \in Seq(Msgs \cup {Garbage})
    OBVIOUS
  <2> QED BY <1>1, <1>2, <2>1 DEF Init, TypeOK
<1>4. MutualExclusion
  BY WorkerAssumption DEF Init, MutualExclusion
<1>5. Calls
  BY DEF Init, Calls
<1>6. Buffers
  BY <1>1, BufferAssumption DEF Init, Buffers
<1>7. Stages
  BY <1>1 DEF Init, Stages
<1>8. NothingLost
  <2>1. InFlight = <<>> /\ Len(<<>>) = 0
    BY DEF Init, InFlight
  <2> QED BY <1>1, <1>3, <2>1, NothingLostProd DEF Init
<1>9. VerbatimPrefix /\ Len(appended) <= MaxBytes
  BY WorkerAssumption DEF Init, VerbatimPrefix
<1> QED BY <1>3, <1>4, <1>5, <1>6, <1>7, <1>8, <1>9 DEF IInv

-----------------------------------------------------------------------------
(* Steps that move threads but no bytes. *)

DataVars == <<prod, cons, sink, appended, wpc>>

LEMMA DataUnchanged ==
    ASSUME IInv, UNCHANGED DataVars
    PROVE  /\ Buffers' /\ NothingLost' /\ VerbatimPrefix'
           /\ (Len(appended) <= MaxBytes)'
           /\ BufferType(prod)' /\ BufferType(cons)'
           /\ (sink \in Seq(Msgs \cup {Garbage}))' /\ (appended \in Seq(Msgs))'
<1>1. Buffers'
  BY DEF IInv, Buffers, DataVars
<1>2. NothingLost'
  <2>1. InFlight' = InFlight
    BY DEF InFlight, DataVars
  <2> QED BY <2>1 DEF IInv, NothingLost, DataVars
<1>3. VerbatimPrefix' /\ (Len(appended) <= MaxBytes)'
  BY DEF IInv, VerbatimPrefix, DataVars
<1>4. /\ BufferType(prod)' /\ BufferType(cons)'
      /\ (sink \in Seq(Msgs \cup {Garbage}))' /\ (appended \in Seq(Msgs))'
  BY DEF IInv, TypeOK, BufferType, DataVars
<1> QED BY <1>1, <1>2, <1>3, <1>4

LEMMA FinishConstructorStep ==
    ASSUME IInv, FinishConstructor
    PROVE  IInv'
<1>1. UNCHANGED DataVars
  BY DEF FinishConstructor, DataVars, pvars
<1>2. TypeOK'
  BY <1>1, DataUnchanged DEF FinishConstructor, pvars, IInv, TypeOK
<1>3. MutualExclusion' /\ Calls' /\ Stages'
  BY DEF FinishConstructor, pvars, IInv, MutualExclusion, Calls, Stages, InBound
<1> QED BY <1>1, <1>2, <1>3, DataUnchanged DEF IInv

(* A producer takes the mutex: it then has it, and its message is in bound. *)
LEMMA PushLockStep ==
    ASSUME IInv, NEW p \in Producers, NEW m \in Msgs, PushLock(p, m)
    PROVE  IInv'
<1>1. UNCHANGED DataVars
  BY DEF PushLock, DataVars
<1>2. TypeOK'
  BY <1>1, DataUnchanged DEF PushLock, Lock, IInv, TypeOK
<1>3. MutualExclusion'
  BY WorkerAssumption DEF PushLock, Lock, IInv, TypeOK, MutualExclusion
<1>4. Calls'
  BY DEF PushLock, IInv, TypeOK, Calls, InBound
<1>5. Stages'
  BY DEF PushLock, IInv, Stages
<1> QED BY <1>1, <1>2, <1>3, <1>4, <1>5, DataUnchanged DEF IInv

LEMMA SpuriousWakeupStep ==
    ASSUME IInv, NEW p \in Producers, SpuriousWakeup(p)
    PROVE  IInv'
<1>1. UNCHANGED DataVars
  BY DEF SpuriousWakeup, DataVars
<1>2. TypeOK'
  BY <1>1, DataUnchanged DEF SpuriousWakeup, Lock, IInv, TypeOK
<1>3. MutualExclusion'
  BY WorkerAssumption DEF SpuriousWakeup, Lock, IInv, TypeOK, MutualExclusion
<1>4. Calls'
  BY DEF SpuriousWakeup, IInv, TypeOK, Calls, InBound
<1>5. Stages'
  BY DEF SpuriousWakeup, IInv, Stages
<1> QED BY <1>1, <1>2, <1>3, <1>4, <1>5, DataUnchanged DEF IInv

LEMMA PushWaitStep ==
    ASSUME IInv, NEW p \in Producers, PushWait(p)
    PROVE  IInv'
<1>1. UNCHANGED DataVars
  BY DEF PushWait, DataVars
<1>2. TypeOK'
  BY <1>1, DataUnchanged DEF PushWait, IInv, TypeOK
<1>3. MutualExclusion'
  BY WorkerAssumption DEF PushWait, IInv, TypeOK, MutualExclusion
<1>4. Calls'
  BY DEF PushWait, IInv, TypeOK, Calls, InBound
<1>5. Stages'
  BY DEF PushWait, IInv, Stages
<1> QED BY <1>1, <1>2, <1>3, <1>4, <1>5, DataUnchanged DEF IInv

LEMMA PushThrowStep ==
    ASSUME IInv, NEW p \in Producers, PushThrow(p)
    PROVE  IInv'
<1>1. UNCHANGED DataVars
  BY DEF PushThrow, DataVars
<1>2. TypeOK'
  BY <1>1, DataUnchanged DEF PushThrow, LeavePush, IInv, TypeOK
<1>3. MutualExclusion'
  BY WorkerAssumption DEF PushThrow, LeavePush, IInv, TypeOK, MutualExclusion
<1>4. Calls'
  BY DEF PushThrow, LeavePush, IInv, TypeOK, Calls, InBound
<1>5. Stages'
  BY DEF PushThrow, IInv, Stages
<1> QED BY <1>1, <1>2, <1>3, <1>4, <1>5, DataUnchanged DEF IInv

LEMMA StopStep ==
    ASSUME IInv, Stop
    PROVE  IInv'
<1>1. UNCHANGED DataVars
  BY DEF Stop, DataVars, pvars
<1>2. TypeOK'
  BY <1>1, DataUnchanged DEF Stop, pvars, IInv, TypeOK
<1>3. MutualExclusion' /\ Calls' /\ Stages'
  BY DEF Stop, pvars, IInv, MutualExclusion, Calls, Stages, InBound
<1> QED BY <1>1, <1>2, <1>3, DataUnchanged DEF IInv

LEMMA JoinStep ==
    ASSUME IInv, Join
    PROVE  IInv'
<1>1. UNCHANGED DataVars
  BY DEF Join, DataVars, pvars
<1>2. TypeOK'
  BY <1>1, DataUnchanged DEF Join, pvars, IInv, TypeOK
<1>3. MutualExclusion' /\ Calls' /\ Stages'
  BY DEF Join, pvars, IInv, MutualExclusion, Calls, Stages, InBound
<1> QED BY <1>1, <1>2, <1>3, DataUnchanged DEF IInv

-----------------------------------------------------------------------------
(* Push appends. *)

(* The new bytes fit: the capacity at which the ring grows is in the range  *)
(* of int, and the growth makes room.                                       *)
LEMMA PushFits ==
    ASSUME Regime, IInv, NEW p \in Producers, ppc[p] = "locked", ~MustWait(p)
    PROVE  LET c == Push(prod, Bytes(msg[p]))
           IN /\ Ring(c, Msgs)
              /\ c.data = prod.data \o Bytes(msg[p])
              /\ c.wpos = prod.wpos + Len(Bytes(msg[p]))
              /\ c.first <= prod.first /\ c.cap >= prod.cap
<1> DEFINE m == msg[p]
<1>1. m \in Msgs /\ Len(appended) + Size[m] <= MaxBytes
  BY DEF IInv, Calls, InBound
<1>2. Bytes(m) \in Seq(Msgs) /\ Len(Bytes(m)) = Size[m] /\ Size[m] \in Nat \ {0}
  BY <1>1, BytesType
<1>3. TypeOK
  BY DEF IInv
<1>4. wpc \in {"lock", "exited"} /\ InFlight = <<>>
  BY WorkerAssumption DEF IInv, MutualExclusion, TypeOK, InFlight
<1>5. Len(prod.data) <= Len(appended)
  BY <1>3, <1>4, NothingLostProd, Types DEF IInv
<1>6. 2 * (Len(prod.data) + Len(Bytes(m))) < IntMod
  BY SMTT(30), <1>1, <1>2, <1>3, <1>5, Types, BufferAssumption, WorkerAssumption DEF Regime
<1>7. Roomy(prod, Len(Bytes(m)))
  <2>1. CASE Safe
    BY <2>1, <1>2, <1>3, Types DEF MustWait, Roomy, WriteableSize
  <2>2. CASE ~Safe
    BY <2>2, <1>1, <1>2 DEF Regime, Roomy
  <2> QED BY <2>1, <2>2
<1>8. Ring(prod, Msgs) /\ prod.cap >= BufferSize
  BY <1>3, Types DEF IInv, Buffers
<1> HIDE DEF m
<1>9. LET c == Push(prod, Bytes(m))
      IN /\ Ring(c, Msgs)
         /\ c.data = prod.data \o Bytes(m) /\ c.wpos = prod.wpos + Len(Bytes(m))
         /\ c.first <= prod.first /\ c.cap >= prod.cap
  BY <1>2, <1>6, <1>7, <1>8, PushAppends
<1> QED BY <1>9 DEF m

LEMMA PushAppendStep ==
    ASSUME Regime, IInv, NEW p \in Producers, PushAppend(p)
    PROVE  IInv'
<1> DEFINE bs == Bytes(msg[p])
<1>0. /\ ppc[p] = "locked" /\ ~MustWait(p)
      /\ prod' = Push(prod, bs) /\ appended' = appended \o bs
      /\ UNCHANGED <<callbackReady, cons, stop, joined, wpc, sink>>
      /\ LeavePush(p)
  BY DEF PushAppend
<1>1. /\ bs \in Seq(Msgs) /\ Len(bs) = Size[msg[p]] /\ Len(bs) \in Nat
      /\ Len(appended) + Len(bs) <= MaxBytes
  BY <1>0, BytesType DEF IInv, Calls, InBound
<1>2. /\ Ring(prod', Msgs)
      /\ prod'.data = prod.data \o bs /\ prod'.wpos = prod.wpos + Len(bs)
      /\ prod'.first <= prod.first /\ prod'.cap >= prod.cap
  BY <1>0, PushFits
<1>3. mutex = p /\ wpc \in {"lock", "exited"} /\ InFlight = <<>> /\ InFlight' = <<>>
  BY <1>0, WorkerAssumption DEF IInv, MutualExclusion, TypeOK, InFlight
<1>4. wpc = "lock"
  BY <1>0, <1>3 DEF IInv, Stages, Calls
<1> HIDE DEF bs
<1>5. /\ appended' \in Seq(Msgs) /\ Len(appended') = Len(appended) + Len(bs)
      /\ \A i \in 1 .. Len(appended) : appended'[i] = appended[i]
      /\ \A i \in 1 .. Len(bs) : appended'[Len(appended) + i] = bs[i]
  <2>1. appended \in Seq(Msgs)
    BY Types DEF IInv
  <2> QED BY <1>0, <1>1, <2>1, ConcatFacts
<1>6. /\ prod'.data \in Seq(Msgs) /\ Len(prod'.data) = Len(prod.data) + Len(bs)
      /\ \A i \in 1 .. Len(prod.data) : prod'.data[i] = prod.data[i]
      /\ \A i \in 1 .. Len(bs) : prod'.data[Len(prod.data) + i] = bs[i]
  <2> DEFINE d == prod.data
  <2>1. d \in Seq(Msgs) /\ prod'.data = d \o bs
    BY <1>2, Types DEF IInv
  <2> HIDE DEF d
  <2>2. /\ d \o bs \in Seq(Msgs) /\ Len(d \o bs) = Len(d) + Len(bs)
        /\ \A i \in 1 .. Len(d) : (d \o bs)[i] = d[i]
        /\ \A i \in 1 .. Len(bs) : (d \o bs)[Len(d) + i] = bs[i]
    BY <1>1, <2>1, ConcatFacts
  <2> QED BY <2>1, <2>2 DEF d
<1>7. TypeOK'
  <2>1. BufferType(prod)' /\ BufferType(cons)'
    BY <1>0, <1>2 DEF Ring, BufferType, IInv, TypeOK
  <2> QED BY <1>0, <1>5, <2>1 DEF LeavePush, IInv, TypeOK
<1>8. MutualExclusion'
  BY <1>0, WorkerAssumption DEF LeavePush, IInv, TypeOK, MutualExclusion
<1>9. Calls'
  <2>1. \A q \in Producers : ppc'[q] # "locked"
    BY <1>0, <1>3 DEF LeavePush, IInv, TypeOK, MutualExclusion
  <2>2. \A q \in Producers : ppc'[q] # "idle" => msg'[q] \in Msgs
    BY <1>0 DEF LeavePush, IInv, TypeOK, Calls
  <2>3. ~stop
    BY <1>0 DEF IInv, Calls
  <2> QED BY <1>0, <2>1, <2>2, <2>3 DEF Calls
<1>10. Buffers'
  <2>1. /\ prod'.first \in Nat /\ prod'.cap \in Nat
        /\ prod.first \in Nat /\ prod.cap \in Nat
        /\ cons.first \in Nat /\ Len(sink) \in Nat
    BY <1>2, Types DEF Ring, IInv
  <2> QED BY SMTT(30), <1>0, <1>1, <1>2, <1>6, <2>1, BufferAssumption DEF IInv, Buffers
<1>11. Stages'
  BY <1>0, <1>4 DEF IInv, Stages
<1>12. NothingLost'
  <2>1. /\ Len(sink) + Len(prod.data) = Len(appended)
        /\ \A i \in 1 .. Len(prod.data) : prod.data[i] = appended[Len(sink) + i]
        /\ \A i \in 1 .. Len(sink) : sink[i] \in {appended[i], Garbage}
    BY <1>3, NothingLostProd DEF IInv
  <2>2. Len(sink) \in Nat /\ Len(prod.data) \in Nat
    BY Types DEF IInv
  <2>3. Len(sink) + Len(prod'.data) = Len(appended')
    <3>1. /\ Len(sink) \in Nat /\ Len(prod.data) \in Nat /\ Len(bs) \in Nat
          /\ Len(sink) + Len(prod.data) = Len(appended)
          /\ Len(appended') = Len(appended) + Len(bs)
          /\ Len(prod'.data) = Len(prod.data) + Len(bs)
      BY <1>1, <1>5, <1>6, <2>1, <2>2
    <3> QED BY SMTT(30), <3>1
  <2>4. \A i \in 1 .. Len(prod'.data) : prod'.data[i] = appended'[Len(sink) + i]
    <3>1. prod.data \in Seq(Msgs) /\ appended \in Seq(Msgs)
      BY Types DEF IInv
    <3> DEFINE d == prod.data
               o == Len(sink)
    <3>2. /\ o \in Nat /\ d \in Seq(Msgs) /\ o + Len(d) = Len(appended)
          /\ \A i \in 1 .. Len(d) : d[i] = appended[o + i]
      BY <2>1, <2>2, <3>1
    <3>3. prod'.data = d \o bs
      BY <1>2
    <3> HIDE DEF d, o
    <3>4. \A i \in 1 .. Len(d \o bs) : (d \o bs)[i] = (appended \o bs)[o + i]
      BY <1>1, <3>1, <3>2, AppendAligned
    <3> QED BY <1>0, <3>3, <3>4 DEF o
  <2>5. \A i \in 1 .. Len(sink) : sink[i] \in {appended'[i], Garbage}
    BY <1>5, <2>1, <2>2
  <2>6. <<>> \o prod'.data = prod'.data
    BY <1>6, ConcatEmptySeq
  <2> QED BY <1>0, <1>3, <2>3, <2>4, <2>5, <2>6 DEF NothingLost
<1>13. VerbatimPrefix'
  <2>1. \A i \in 1 .. Len(sink) : i \in 1 .. Len(appended)
    BY <1>3, NothingLostProd, Types DEF IInv
  <2> QED BY <1>0, <1>5, <2>1 DEF IInv, VerbatimPrefix
<1>14. (Len(appended) <= MaxBytes)'
  BY <1>1, <1>5
<1> QED BY <1>7, <1>8, <1>9, <1>10, <1>11, <1>12, <1>13, <1>14 DEF IInv

-----------------------------------------------------------------------------
(* The worker. *)

(* A step of the worker that moves no byte and keeps InFlight. *)
LEMMA BytesUnchanged ==
    ASSUME IInv, UNCHANGED <<prod, cons, sink, appended>>, InFlight' = InFlight
    PROVE  /\ Buffers' /\ NothingLost' /\ VerbatimPrefix'
           /\ (Len(appended) <= MaxBytes)'
           /\ BufferType(prod)' /\ BufferType(cons)'
           /\ (sink \in Seq(Msgs \cup {Garbage}))' /\ (appended \in Seq(Msgs))'
<1>1. Buffers' /\ VerbatimPrefix' /\ (Len(appended) <= MaxBytes)'
  BY DEF IInv, Buffers, VerbatimPrefix
<1>2. NothingLost'
  BY DEF IInv, NothingLost
<1>3. /\ BufferType(prod)' /\ BufferType(cons)'
      /\ (sink \in Seq(Msgs \cup {Garbage}))' /\ (appended \in Seq(Msgs))'
  BY DEF IInv, TypeOK, BufferType
<1> QED BY <1>1, <1>2, <1>3

LEMMA WorkerLockStep ==
    ASSUME IInv, WorkerLock
    PROVE  IInv'
<1>1. UNCHANGED <<prod, cons, sink, appended>> /\ InFlight' = InFlight
  BY DEF WorkerLock, pvars, InFlight
<1>2. TypeOK'
  BY <1>1, BytesUnchanged DEF WorkerLock, Lock, pvars, IInv, TypeOK
<1>3. MutualExclusion'
  BY WorkerAssumption DEF WorkerLock, Lock, pvars, IInv, TypeOK, MutualExclusion
<1>4. Calls' /\ Stages'
  BY DEF WorkerLock, pvars, IInv, Calls, Stages, InBound
<1> QED BY <1>1, <1>2, <1>3, <1>4, BytesUnchanged DEF IInv

LEMMA CallRawCallbackStep ==
    ASSUME IInv, CallRawCallback
    PROVE  IInv'
<1>1. UNCHANGED <<prod, cons, sink, appended>> /\ InFlight' = InFlight
  BY DEF CallRawCallback, pvars, InFlight
<1>2. TypeOK'
  BY <1>1, BytesUnchanged DEF CallRawCallback, pvars, IInv, TypeOK
<1>3. MutualExclusion' /\ Calls' /\ Stages'
  BY DEF CallRawCallback, pvars, IInv, MutualExclusion, Calls, Stages, InBound
<1> QED BY <1>1, <1>2, <1>3, BytesUnchanged DEF IInv

LEMMA WorkerLoopStep ==
    ASSUME IInv, WorkerLoop
    PROVE  IInv'
<1>1. UNCHANGED <<prod, cons, sink, appended>> /\ InFlight' = InFlight
  BY DEF WorkerLoop, pvars, InFlight
<1>2. TypeOK'
  BY <1>1, BytesUnchanged DEF WorkerLoop, pvars, IInv, TypeOK
<1>3. MutualExclusion'
  BY WorkerAssumption DEF WorkerLoop, pvars, IInv, TypeOK, MutualExclusion
<1>4. Calls' /\ Stages'
  BY DEF WorkerLoop, pvars, IInv, Calls, Stages, InBound
<1> QED BY <1>1, <1>2, <1>3, <1>4, BytesUnchanged DEF IInv

LEMMA WorkerSwapStep ==
    ASSUME IInv, WorkerSwap
    PROVE  IInv'
<1>0. /\ wpc = "swap" /\ wpc' = "callback" /\ prod' = cons /\ cons' = prod
      /\ UNCHANGED <<callbackReady, mutex, stop, joined, ppc, msg, appended, sink>>
  BY DEF WorkerSwap, pvars
<1>1. cons.data = <<>> /\ InFlight = <<>> /\ InFlight' = prod.data
  BY <1>0 DEF IInv, Stages, InFlight
<1>2. TypeOK'
  BY <1>0 DEF IInv, TypeOK, BufferType
<1>3. MutualExclusion' /\ Calls' /\ Stages'
  BY <1>0, <1>1 DEF IInv, MutualExclusion, Calls, Stages, InBound
<1>4. Buffers'
  BY <1>0, Types DEF IInv, Buffers
<1>5. NothingLost'
  <2>1. prod.data \o <<>> = prod.data /\ <<>> \o prod.data = prod.data
    BY Types, ConcatEmptySeq DEF IInv
  <2>2. InFlight' \o prod'.data = InFlight \o prod.data
    BY <1>0, <1>1, <2>1
  <2> QED BY <1>0, <2>2 DEF IInv, NothingLost
<1>6. VerbatimPrefix' /\ (Len(appended) <= MaxBytes)'
  BY <1>0 DEF IInv, VerbatimPrefix
<1> QED BY <1>2, <1>3, <1>4, <1>5, <1>6 DEF IInv

(* What the callback adds to the sink: byte i of the batch lands on its own *)
(* place, and is right as long as the sink is shorter than the ring.        *)
LEMMA CallbackBatch ==
    ASSUME IInv, wpc = "callback"
    PROVE  LET batch == Contents(cons)
           IN /\ batch \in Seq(Msgs \cup {Garbage})
              /\ Len(sink) + Len(batch) = Len(appended)
              /\ Len(batch) = Len(cons.data)
              /\ \A i \in 1 .. Len(batch) :
                    /\ batch[i] \in {appended[Len(sink) + i], Garbage}
                    /\ Len(sink) + i <= BufferSize => batch[i] = appended[Len(sink) + i]
<1>1. /\ Ring(cons, Msgs) /\ cons.wpos = Len(cons.data)
      /\ cons.cap \in Nat /\ cons.first \in Nat /\ prod.first \in Nat
      /\ Len(sink) \in Nat /\ Len(cons.data) \in Nat
      /\ cons.cap >= BufferSize /\ prod.first + cons.first <= Len(sink)
  BY Types DEF IInv, Buffers
<1>2. /\ Len(sink) + Len(cons.data) = Len(appended)
      /\ \A i \in 1 .. Len(cons.data) : cons.data[i] = appended[Len(sink) + i]
  <2>1. prod.data = <<>> /\ InFlight = cons.data
    BY DEF IInv, Stages, InFlight
  <2> QED BY <2>1, NothingLostCons DEF IInv
<1> DEFINE batch == Contents(cons)
<1>3. /\ batch \in Seq(Msgs \cup {Garbage}) /\ Len(batch) = Len(cons.data)
      /\ \A i \in 1 .. Len(cons.data) :
            /\ batch[i] \in {cons.data[i], Garbage}
            /\ cons.first + i <= cons.cap => batch[i] = cons.data[i]
  BY <1>1, ContentsRead
<1> HIDE DEF batch
<1>4. ASSUME NEW i \in 1 .. Len(batch)
      PROVE  /\ batch[i] \in {appended[Len(sink) + i], Garbage}
             /\ Len(sink) + i <= BufferSize => batch[i] = appended[Len(sink) + i]
  <2>1. i \in 1 .. Len(cons.data)
    BY <1>3
  <2>2. Len(sink) + i <= BufferSize => cons.first + i <= cons.cap
    BY <1>1, <2>1, BufferAssumption
  <2> QED BY <1>2, <1>3, <2>1, <2>2
<1> QED BY <1>2, <1>3, <1>4 DEF batch

LEMMA WorkerCallbackStep ==
    ASSUME IInv, WorkerCallback
    PROVE  IInv'
<1> DEFINE batch == Contents(cons)
<1>0. /\ wpc = "callback" /\ wpc' = "check"
      /\ sink' = sink \o batch /\ cons' = Reset(cons)
      /\ UNCHANGED <<callbackReady, mutex, prod, stop, joined, ppc, msg, appended>>
  BY DEF WorkerCallback, pvars
<1>1. /\ batch \in Seq(Msgs \cup {Garbage})
      /\ Len(sink) + Len(batch) = Len(appended) /\ Len(batch) = Len(cons.data)
      /\ \A i \in 1 .. Len(batch) :
            /\ batch[i] \in {appended[Len(sink) + i], Garbage}
            /\ Len(sink) + i <= BufferSize => batch[i] = appended[Len(sink) + i]
  BY <1>0, CallbackBatch
<1> HIDE DEF batch
<1>2. /\ Ring(cons', Msgs) /\ cons'.data = <<>> /\ cons'.wpos = 0
      /\ cons'.cap = cons.cap /\ cons'.first <= cons.first + Len(cons.data)
  BY <1>0, Types, ResetEmpties DEF IInv
<1>3. /\ sink \in Seq(Msgs \cup {Garbage}) /\ Len(sink) \in Nat
      /\ sink' \in Seq(Msgs \cup {Garbage})
      /\ Len(sink') = Len(sink) + Len(batch) /\ Len(batch) \in Nat
      /\ \A i \in 1 .. Len(sink) : sink'[i] = sink[i]
      /\ \A i \in 1 .. Len(batch) : sink'[Len(sink) + i] = batch[i]
  <2> DEFINE S == Msgs \cup {Garbage}
  <2>1. sink \in Seq(S) /\ batch \in Seq(S)
    BY <1>1, Types DEF IInv
  <2> HIDE DEF S
  <2>2. /\ sink \o batch \in Seq(S) /\ Len(sink) \in Nat /\ Len(batch) \in Nat
        /\ Len(sink \o batch) = Len(sink) + Len(batch)
        /\ \A i \in 1 .. Len(sink) : (sink \o batch)[i] = sink[i]
        /\ \A i \in 1 .. Len(batch) : (sink \o batch)[Len(sink) + i] = batch[i]
    BY <2>1, ConcatFacts
  <2> QED BY <1>0, <2>1, <2>2 DEF S
<1>4. TypeOK'
  <2>1. BufferType(prod)' /\ BufferType(cons)'
    BY <1>0, <1>2 DEF Ring, BufferType, IInv, TypeOK
  <2> QED BY <1>0, <1>3, <2>1 DEF IInv, TypeOK
<1>5. MutualExclusion' /\ Calls' /\ Stages'
  BY <1>0, <1>2 DEF IInv, MutualExclusion, Calls, Stages, InBound
<1>6. Buffers'
  <2>1. /\ cons'.first \in Nat /\ cons.first \in Nat /\ prod.first \in Nat
        /\ Len(cons.data) \in Nat /\ Len(cons'.data) = 0
    BY <1>2, Types DEF Ring, IInv
  <2>2. /\ prod.wpos = Len(prod.data) /\ prod.cap >= BufferSize
        /\ cons.cap >= BufferSize /\ prod.first + cons.first <= Len(sink)
    BY DEF IInv, Buffers
  <2>3. prod.first + cons'.first <= Len(sink')
    BY <1>1, <1>2, <1>3, <2>1, <2>2
  <2> QED BY <1>0, <1>2, <2>1, <2>2, <2>3 DEF Buffers
<1>7. ASSUME NEW i \in 1 .. Len(sink')
      PROVE  /\ sink'[i] \in {appended[i], Garbage}
             /\ i <= BufferSize => sink'[i] = appended[i]
  <2>1. CASE i \in 1 .. Len(sink)
    <3>1. sink[i] \in {appended[i], Garbage} /\ (i <= BufferSize => sink[i] = appended[i])
      BY <2>1 DEF IInv, NothingLost, VerbatimPrefix
    <3> QED BY <2>1, <3>1, <1>3
  <2>2. CASE i \notin 1 .. Len(sink)
    <3>1. PICK j \in 1 .. Len(batch) : i = Len(sink) + j
      <4>1. i - Len(sink) \in 1 .. Len(batch) /\ i = Len(sink) + (i - Len(sink))
        BY <1>3, <2>2
      <4> QED BY <4>1
    <3> QED BY <3>1, <1>1, <1>3
  <2> QED BY <2>1, <2>2
<1>8. NothingLost'
  <2>1. InFlight' \o prod'.data = <<>> /\ Len(<<>>) = 0
    <3>1. InFlight' = <<>> /\ prod'.data = <<>>
      BY <1>0 DEF IInv, Stages, InFlight
    <3>2. <<>> \o <<>> = <<>>
      OBVIOUS
    <3> QED BY <3>1, <3>2
  <2> QED BY <1>0, <1>1, <1>3, <1>7, <2>1 DEF NothingLost
<1>9. VerbatimPrefix' /\ (Len(appended) <= MaxBytes)'
  BY <1>0, <1>7 DEF IInv, VerbatimPrefix
<1> QED BY <1>4, <1>5, <1>6, <1>8, <1>9 DEF IInv

-----------------------------------------------------------------------------
(* Theorems *)

LEMMA NextIInv ==
    ASSUME Regime, IInv, [Next]_vars
    PROVE  IInv'
<1>1. CASE FinishConstructor
  BY <1>1, FinishConstructorStep
<1>2. ASSUME NEW p \in Producers, Producer(p) PROVE IInv'
  <2>1. ASSUME NEW m \in Msgs, PushLock(p, m) PROVE IInv'
    BY <2>1, PushLockStep
  <2>2. CASE PushWait(p)
    BY <2>2, PushWaitStep
  <2>3. CASE SpuriousWakeup(p)
    BY <2>3, SpuriousWakeupStep
  <2>4. CASE PushAppend(p)
    BY <2>4, PushAppendStep
  <2>5. CASE PushThrow(p)
    BY <2>5, PushThrowStep
  <2> QED BY <1>2, <2>1, <2>2, <2>3, <2>4, <2>5 DEF Producer
<1>3. CASE Worker
  <2>1. CASE WorkerLock
    BY <2>1, WorkerLockStep
  <2>2. CASE WorkerSwap
    BY <2>2, WorkerSwapStep
  <2>3. CASE WorkerCallback
    BY <2>3, WorkerCallbackStep
  <2>4. CASE CallRawCallback
    BY <2>4, CallRawCallbackStep
  <2>5. CASE WorkerLoop
    BY <2>5, WorkerLoopStep
  <2> QED BY <1>3, <2>1, <2>2, <2>3, <2>4, <2>5 DEF Worker
<1>4. CASE Stop
  BY <1>4, StopStep
<1>5. CASE Join
  BY <1>5, JoinStep
<1>6. CASE UNCHANGED vars
  <2>1. /\ UNCHANGED <<callbackReady, mutex, stop, joined, ppc, msg>>
        /\ UNCHANGED DataVars
    BY <1>6 DEF vars, DataVars
  <2>2. TypeOK'
    BY <2>1, DataUnchanged DEF IInv, TypeOK, DataVars
  <2>3. MutualExclusion' /\ Calls' /\ Stages'
    BY <2>1 DEF IInv, MutualExclusion, Calls, Stages, InBound, DataVars
  <2> QED BY <2>1, <2>2, <2>3, DataUnchanged DEF IInv
<1> QED BY <1>1, <1>2, <1>3, <1>4, <1>5, <1>6 DEF Next, Terminated

(* The inductive invariant holds in every reachable state: whatever the     *)
(* number of producers, the messages and the sizes, within Regime.          *)
THEOREM InductiveInvariant ==
    ASSUME Regime
    PROVE  Spec => []IInv
<1>1. Init => IInv
  BY InitIInv
<1>2. IInv /\ [Next]_vars => IInv'
  BY NextIInv
<1> QED BY <1>1, <1>2, PTL DEF Spec

(* Rings never exceed their capacity and start inside their storage. *)
THEOREM TypeCorrect ==
    ASSUME Regime
    PROVE  Spec => []TypeOK
<1>1. IInv => TypeOK
  BY DEF IInv
<1> QED BY <1>1, InductiveInvariant, PTL

(* Between Push and the sink no byte is lost, duplicated or reordered. *)
THEOREM Lossless ==
    ASSUME Regime
    PROVE  Spec => []NothingLost
<1>1. IInv => NothingLost
  BY DEF IInv
<1> QED BY <1>1, InductiveInvariant, PTL

(* The first BufferSize bytes are written as they were logged. *)
THEOREM PrefixVerbatim ==
    ASSUME Regime
    PROVE  Spec => []VerbatimPrefix
<1>1. IInv => VerbatimPrefix
  BY DEF IInv
<1> QED BY <1>1, InductiveInvariant, PTL

LEMMA ExitedDrained ==
    ASSUME IInv, wpc = "exited"
    PROVE  Len(sink) = Len(appended)
<1>1. prod.data = <<>> /\ InFlight = <<>> /\ Len(<<>>) = 0
  BY DEF IInv, Stages, InFlight
<1>2. Len(sink) + Len(prod.data) = Len(appended)
  BY <1>1, NothingLostProd DEF IInv
<1> QED BY <1>1, <1>2, Types DEF IInv

(* When stop() has joined the worker, every byte logged has been written. *)
THEOREM JoinDrains ==
    ASSUME Regime
    PROVE  Spec => []DrainedAtJoin
<1>1. IInv => DrainedAtJoin
  BY ExitedDrained DEF IInv, Stages, DrainedAtJoin
<1> QED BY <1>1, InductiveInvariant, PTL

-----------------------------------------------------------------------------
(* AsyncWorker implements LogSink: an append is a Log, the callback is a     *)
(* Drain, the join a Close, and every other step a stutter.                  *)

LEMMA InitRefines == Init => Log!SinkInit
BY DEF Init, Log!SinkInit

LEMMA SinkUnchanged ==
    ASSUME UNCHANGED <<appended, sink, joined>>
    PROVE  UNCHANGED Log!svars
BY DEF Log!svars

LEMMA AppendRefines ==
    ASSUME IInv, NEW p \in Producers, PushAppend(p)
    PROVE  Log!SinkNext
<1>1. msg[p] \in Msgs /\ ~joined
  <2>1. ppc[p] = "locked"
    BY DEF PushAppend
  <2>2. ~stop
    BY <2>1 DEF IInv, Calls
  <2> QED BY <2>1, <2>2 DEF IInv, Calls, Stages
<1>2. Log!Log(msg[p])
  BY <1>1 DEF PushAppend, Log!Log, Bytes, Log!Bytes, IInv, TypeOK
<1> QED BY <1>1, <1>2 DEF Log!SinkNext

LEMMA CallbackRefines ==
    ASSUME IInv, WorkerCallback
    PROVE  Log!SinkNext
<1> DEFINE batch == Contents(cons)
<1>0. /\ wpc = "callback" /\ sink' = sink \o batch
      /\ UNCHANGED <<appended, joined>>
  BY DEF WorkerCallback, pvars
<1>1. /\ batch \in Seq(Msgs \cup {Garbage})
      /\ Len(sink) + Len(batch) = Len(appended)
      /\ \A i \in 1 .. Len(batch) :
            /\ batch[i] \in {appended[Len(sink) + i], Garbage}
            /\ Len(sink) + i <= BufferSize => batch[i] = appended[Len(sink) + i]
  BY <1>0, CallbackBatch
<1> HIDE DEF batch
<1>2. /\ Len(sink) \in Nat /\ Len(batch) \in Nat
      /\ Len(sink') = Len(sink) + Len(batch)
      /\ \A i \in 1 .. Len(sink) : sink'[i] = sink[i]
      /\ \A i \in 1 .. Len(batch) : sink'[Len(sink) + i] = batch[i]
  <2> DEFINE S == Msgs \cup {Garbage}
  <2>1. sink \in Seq(S) /\ batch \in Seq(S)
    BY <1>1, Types DEF IInv
  <2> HIDE DEF S
  <2>2. /\ Len(sink) \in Nat /\ Len(batch) \in Nat
        /\ Len(sink \o batch) = Len(sink) + Len(batch)
        /\ \A i \in 1 .. Len(sink) : (sink \o batch)[i] = sink[i]
        /\ \A i \in 1 .. Len(batch) : (sink \o batch)[Len(sink) + i] = batch[i]
    BY <2>1, ConcatFacts
  <2> QED BY <1>0, <2>2
<1>3. ASSUME NEW i \in 1 .. Len(appended)
      PROVE  \/ i <= Len(sink) /\ sink'[i] = sink[i]
             \/ i > Len(sink) /\ sink'[i] = appended[i]
             \/ i > Len(sink) /\ i > BufferSize /\ sink'[i] = Garbage
  <2>1. CASE i <= Len(sink)
    BY <2>1, <1>2
  <2>2. CASE i > Len(sink)
    <3>1. PICK j \in 1 .. Len(batch) : i = Len(sink) + j
      <4>1. i - Len(sink) \in 1 .. Len(batch) /\ i = Len(sink) + (i - Len(sink))
        BY <1>1, <1>2, <2>2
      <4> QED BY <4>1
    <3> QED BY SMTT(30), <3>1, <2>2, <1>1, <1>2, BufferAssumption
  <2> QED BY <2>1, <2>2, <1>2
<1>4. ~joined
  BY <1>0 DEF IInv, Stages, TypeOK
<1>5. Log!Drain
  BY <1>0, <1>1, <1>2, <1>3, <1>4 DEF Log!Drain
<1> QED BY <1>5 DEF Log!SinkNext

LEMMA JoinRefines ==
    ASSUME IInv, Join
    PROVE  Log!SinkNext
<1>1. Len(sink) = Len(appended)
  BY ExitedDrained DEF Join
<1>2. Log!Close
  BY <1>1 DEF Join, pvars, Log!Close
<1> QED BY <1>2 DEF Log!SinkNext

LEMMA NextRefines ==
    ASSUME IInv, [Next]_vars
    PROVE  [Log!SinkNext]_(Log!svars)
<1>1. CASE FinishConstructor \/ Stop
  BY <1>1, SinkUnchanged DEF FinishConstructor, Stop, pvars
<1>2. ASSUME NEW p \in Producers, Producer(p) PROVE [Log!SinkNext]_(Log!svars)
  <2>1. CASE PushAppend(p)
    BY <2>1, AppendRefines
  <2>2. CASE ~PushAppend(p)
    BY <1>2, <2>2, SinkUnchanged
    DEF Producer, PushLock, PushWait, SpuriousWakeup, PushThrow
  <2> QED BY <2>1, <2>2
<1>3. CASE Worker
  <2>1. CASE WorkerCallback
    BY <2>1, CallbackRefines
  <2>2. CASE ~WorkerCallback
    BY <1>3, <2>2, SinkUnchanged
    DEF Worker, WorkerLock, WorkerSwap, CallRawCallback, WorkerLoop, pvars
  <2> QED BY <2>1, <2>2
<1>4. CASE Join
  BY <1>4, JoinRefines
<1>5. CASE UNCHANGED vars
  BY <1>5, SinkUnchanged DEF vars
<1> QED BY <1>1, <1>2, <1>3, <1>4, <1>5 DEF Next, Terminated

(* AsyncWorker keeps the promise of LogSink. *)
THEOREM ImplementsLogSink ==
    ASSUME Regime
    PROVE  Spec => SinkSpec
<1>1. Init => Log!SinkInit
  BY InitRefines
<1>2. IInv /\ [Next]_vars => [Log!SinkNext]_(Log!svars)
  BY NextRefines
<1> QED BY <1>1, <1>2, InductiveInvariant, PTL DEF Spec, SinkSpec, Log!SinkSpec
=============================================================================
