-------------------------- MODULE MockFastDFSClient --------------------------
(***************************************************************************)
(* MockFastDFSClient (src/include/MockFastDFSClient.h), which stands in for *)
(* the client where there is no FastDFS: it stores nothing, and answers     *)
(* every call on a file from its arguments.                                 *)
(***************************************************************************)
CONSTANTS Clients, NoReason

VARIABLES configured, alive, on, error, result   \* as in FastDFSClient

Init ==
    /\ configured \in BOOLEAN
    /\ alive = {}
    /\ on = [c \in Clients |-> FALSE] /\ error = [c \in Clients |-> NoReason]
    /\ result = [client |-> NoReason, op |-> NoReason, reason |-> NoReason]

(* The call returns, with a reason if it fails. *)
Returns(c, op, reason) ==
    /\ result' = [client |-> c, op |-> op, reason |-> reason]
    /\ error' = IF reason = NoReason THEN error ELSE [error EXCEPT ![c] = reason]
    /\ UNCHANGED configured

Construct(c) ==
    /\ c \notin alive
    /\ alive' = alive \cup {c}
    /\ on' = [on EXCEPT ![c] = FALSE] /\ error' = [error EXCEPT ![c] = NoReason]
    /\ UNCHANGED <<configured, result>>

(* A bug: what was initialized_ is overwritten by the new outcome. *)
InitializeAnew(c) ==
    /\ c \in alive
    /\ on' = [on EXCEPT ![c] = configured]
    /\ Returns(c, "initialize", IF configured THEN NoReason ELSE "initialize")
    /\ UNCHANGED alive

(* initialize opens the configuration file each time it is called, and      *)
(* looks no further: it succeeds with any file that can be read.            *)
Initialize(c) ==
    /\ c \in alive
    /\ on' = [on EXCEPT ![c] = @ \/ configured]
    /\ Returns(c, "initialize", IF configured THEN NoReason ELSE "initialize")
    /\ UNCHANGED alive

Cleanup(c) ==
    /\ c \in alive
    /\ on' = [on EXCEPT ![c] = FALSE]
    /\ UNCHANGED <<configured, alive, error, result>>

(* The destructor cleans up. *)
Destroy(c) ==
    /\ c \in alive
    /\ alive' = alive \ {c}
    /\ on' = [on EXCEPT ![c] = FALSE]
    /\ UNCHANGED <<configured, error, result>>

(* uploadFile, uploadBuffer, downloadFile, downloadToBuffer, deleteFile,    *)
(* getFileSize: fail without initialize, or if the local file or buffer is  *)
(* not usable; whether the file id is one that an upload gave makes no      *)
(* difference.                                                              *)
Call(c, op, usable) ==
    /\ c \in alive
    /\ Returns(c, op, IF ~on[c] THEN "off" ELSE IF ~usable THEN "arguments" ELSE NoReason)
    /\ UNCHANGED <<alive, on>>
==============================================================================
