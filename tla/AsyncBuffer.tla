----------------------------- MODULE AsyncBuffer -----------------------------
(***************************************************************************)
(* mylog::Buffer (log/AsyncBuffer.h): a boost::circular_buffer<char> with a *)
(* write position.  A buffer is a record                                    *)
(*   cap    capacity of the ring, in bytes                                  *)
(*   first  index, in the ring's storage, of its oldest byte                *)
(*   data   the bytes held by the ring, oldest first; Len(data) is size()   *)
(*   wpos   write_pos_: bytes pushed since the last Reset                   *)
(* read_pos_ has no field: nothing in the program moves it away from 0, so  *)
(* a buffer is read from &buffer_[0].  ReadBegin, MoveWritePos and          *)
(* MoveReadPos have no caller either.                                       *)
(***************************************************************************)
EXTENDS Integers, Sequences

CONSTANTS
    BufferSize,    \* g_conf_data->buffer_size, the initial capacity
    Threshold,     \* g_conf_data->threshold, below it the ring triples
    LinearGrowth,  \* g_conf_data->linear_growth, added above it
    IntMod,        \* 2^(width of int): 2^32 in the build
    Garbage        \* a byte of the storage that the ring does not hold

ASSUME BufferAssumption ==
    /\ BufferSize \in Nat \ {0}
    /\ Threshold \in Nat
    /\ LinearGrowth \in Nat
    /\ IntMod \in Nat \ {0}

NewBuffer == [cap |-> BufferSize, first |-> 0, data |-> <<>>, wpos |-> 0]

WriteableSize(b) == b.cap - Len(b.data)

ReadableSize(b) == b.wpos

IsEmpty(b) == b.wpos = 0

(* The conversion of a size_t to int in "int buffersize = capacity()". *)
ToInt(n) == LET r == n % IntMod IN IF 2 * r >= IntMod THEN r - IntMod ELSE r

(* The capacity ToBeEnough asks for.  A negative value is a size_t near     *)
(* 2^64 in the code, which no allocation satisfies.                         *)
Growth(b) ==
    IF b.cap < Threshold THEN 2 * b.cap + ToInt(b.cap)
                         ELSE LinearGrowth + ToInt(b.cap)

(* The test of ToBeEnough; the buffer grows also when len fits exactly.     *)
MustGrow(b, len) == len >= WriteableSize(b)

(* circular_buffer::set_capacity: no effect if the capacity is the same,    *)
(* otherwise the oldest bytes that fit move to the start of a new storage.  *)
SetCapacity(b, n) ==
    IF n = b.cap THEN b
    ELSE [b EXCEPT !.cap = n, !.first = 0,
                   !.data = IF Len(@) <= n THEN @ ELSE SubSeq(@, 1, n)]

(* One growth step at most, however long the message.                       *)
ToBeEnough(b, len) ==
    IF MustGrow(b, len) THEN SetCapacity(b, Growth(b)) ELSE b

(* push_back of each byte: a full ring overwrites its oldest byte, which    *)
(* also moves first; write_pos_ counts every byte.                          *)
PushBack(b, bytes) ==
    LET all  == b.data \o bytes
        over == IF Len(all) > b.cap THEN Len(all) - b.cap ELSE 0
    IN [b EXCEPT !.data  = IF over = 0 THEN all
                           ELSE SubSeq(all, over + 1, Len(all)),
                 !.first = IF over = 0 THEN @ ELSE (@ + over) % b.cap,
                 !.wpos  = @ + Len(bytes)]

Push(b, bytes) == PushBack(ToBeEnough(b, Len(bytes)), bytes)

(* What the callback reads: ReadableSize() bytes of memory from Begin().    *)
(* It runs through the storage, not through the ring: a byte beyond what    *)
(* the ring holds, or beyond the end of the storage, is garbage.            *)
Contents(b) ==
    [i \in 1 .. ReadableSize(b) |->
        IF i <= Len(b.data) /\ b.first + i <= b.cap THEN b.data[i]
                                                    ELSE Garbage]

(* Bugs a Reset could have: first runs off the storage; only the positions  *)
(* are rewound and the bytes stay.                                          *)
ResetRunsOff(b) ==
    [b EXCEPT !.first = @ + Len(b.data), !.data = <<>>, !.wpos = 0]
ResetPositionsOnly(b) == [b EXCEPT !.wpos = 0]

(* clear() drops the bytes by moving first past them; it does not return to *)
(* the start of the storage.                                                *)
Reset(b) ==
    [b EXCEPT !.first = IF @ + Len(b.data) < b.cap THEN @ + Len(b.data)
                        ELSE @ + Len(b.data) - b.cap,
              !.data = <<>>, !.wpos = 0]
=============================================================================
