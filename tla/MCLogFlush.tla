----------------------------- MODULE MCLogFlush -----------------------------
(* LogFlush for TLC: the sinks of the programs and the names of the files.  *)
EXTENDS LogFlush

(* Each second has a name of its own, or two share one: the digits of       *)
(* CreateFilename are not padded, and a clock may be set back.              *)
Distinct == <<"2024111", "2024112">>
Shared == <<"2024111", "2024111">>

(* Both sinks of text.cpp:83, which exit and die; and the sink of           *)
(* test.cpp:62, where the machine and its disk fail as well.                *)
MCSettings == {
    [sinks |-> <<"FileFlush", "RollFileFlush">>, stamp |-> Distinct, faults |-> {}],
    [sinks |-> <<"RollFileFlush">>, stamp |-> Shared,
     faults |-> {"fopen", "write", "power"}]}

(* LogFlush.h:74, "make sure that the size of the file does not call for a  *)
(* roll": a file exceeds max_size_ by less than the batch that fills it.    *)
SizeBound == \A f \in RollNames : Len(kernel[f]) < MaxSize + MaxBatch
=============================================================================
