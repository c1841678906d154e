---------------------------- MODULE MCDataManager ----------------------------
(* DataManager for TLC: two files and the key of a record without a url;    *)
(* two descriptions of a file, one that NewStorageInfo has left             *)
(* uninitialised and one of a torn record.                                  *)
EXTENDS DataManager, TLC

CONSTANTS t1, t2, u1, u2, none, old, new, raw, torn

-----------------------------------------------------------------------------
(* Statements the code does not keep *)

(* DataManager.h:91, "store it each time the information changes": whenever *)
(* no request is being served the file holds the table.                     *)
AlwaysPersisted == proc = "up" /\ (\A t \in Procs : Idle(t)) => file = table

(* README.md:95, a click uploads the file: when the process dies the file   *)
(* holds the records it was known to hold.                                  *)
DeathKeepsRecords ==
    [][Die => \A u \in DOMAIN kept : u \in DOMAIN file /\ file[u] = kept[u]]_vars
=============================================================================
