---------------------------- MODULE MCFileService ----------------------------
(* FileService for TLC: contents of one and two bytes, and one whose first  *)
(* byte is zero.                                                            *)
EXTENDS FileService, TLC

CONSTANTS t1, t2, name1, name2, short, long, binary

MCSize == [c \in Contents |-> IF c = short THEN 1 ELSE 2]
MCText == [c \in Contents |-> IF c = binary THEN 0 ELSE Size[c]]
MCSymmetry == Permutations(Threads) \cup Permutations(Names)
=============================================================================
