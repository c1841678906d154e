------------------------------- MODULE LogSink -------------------------------
(***************************************************************************)
(* What an asynchronous logger promises its callers: an append-only log     *)
(* whose sink receives every byte, once and in order, and which is complete *)
(* when it is closed.  One weakness is part of the promise because it is    *)
(* part of the code: beyond the first BufferSize bytes the sink may hold    *)
(* garbage in the place of a byte, never anywhere else.                     *)
(***************************************************************************)
EXTENDS Integers, Sequences

CONSTANTS Msgs, Size, BufferSize, Garbage

VARIABLES written,   \* the bytes of every message accepted so far
          out,       \* the bytes the sink has received
          closed     \* the logger has been destroyed

svars == <<written, out, closed>>

(* A message is Size[m] bytes, which need not be told apart. *)
Bytes(m) == [i \in 1 .. Size[m] |-> m]

SinkInit == written = <<>> /\ out = <<>> /\ closed = FALSE

Log(m) ==
    /\ ~closed
    /\ written' = written \o Bytes(m)
    /\ UNCHANGED <<out, closed>>

(* The sink receives the whole backlog at once. *)
Drain ==
    /\ ~closed
    /\ Len(out') = Len(written)
    /\ \A i \in 1 .. Len(written) :
          \/ i <= Len(out) /\ out'[i] = out[i]
          \/ i > Len(out) /\ out'[i] = written[i]
          \/ i > Len(out) /\ i > BufferSize /\ out'[i] = Garbage
    /\ UNCHANGED <<written, closed>>

Close ==
    /\ ~closed
    /\ Len(out) = Len(written)
    /\ closed' = TRUE
    /\ UNCHANGED <<written, out>>

SinkNext == (\E m \in Msgs : Log(m)) \/ Drain \/ Close

SinkSpec == SinkInit /\ [][SinkNext]_svars
=============================================================================
